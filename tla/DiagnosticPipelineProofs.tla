------------------------ MODULE DiagnosticPipelineProofs -----------------------
(***************************************************************************)
(* DiagnosticPipeline for every set of documents and texts, every capacity  *)
(* and every bound: types, what is published is computed from what holds,   *)
(* and static feedback never replaces current complete diagnostics.         *)
(*                                                                         *)
(* The argument: the session's counters only grow.  A result carries the    *)
(* counters of its snapshot, and what the analysis read live lies between   *)
(* those and the present ones.  When the main loop finds the former equal   *)
(* to the latter, the reading is caught between two equal values.           *)
(* An open document that is not up to date has something under way that      *)
(* will make it so, which only a change of the workspace folders forgets.   *)
(***************************************************************************)
EXTENDS DiagnosticPipeline, TLAPS

(* The steps of the worker keep its types, whatever snapshots (S) and         *)
(* readings (R) it deals in.                                                *)
LEMMA TakenType ==
  ASSUME NEW S, NEW entry \in Entries(S), NEW p \in Phases
  PROVE  /\ Taken(entry, p) \in Entries(S)
         /\ Taken(entry, p).wants = entry.wants \ {p}
         /\ Taken(entry, p).wants # {} =>
              /\ Taken(entry, p).batch = entry.batch
              /\ Taken(entry, p).snapshot = entry.snapshot
<1>1. CASE entry.wants = {p}
  BY <1>1 DEF Taken, NoEntry, Entries
<1>2. CASE entry.wants # {p}
  BY <1>2 DEF Taken, Entries
<1> QED
  BY <1>1, <1>2

LEMMA WorkerInitTypes ==
  ASSUME NEW S, NEW R, WorkerInit PROVE WorkerTypeOK(S, R)
<1>1. NoEntry \in Entries(S) /\ NoEntry.wants = {}
  BY DEF NoEntry, Entries
<1>2. \A T : <<>> \in Seq(T)
  OBVIOUS
<1> QED
  BY <1>1, <1>2 DEF WorkerInit, WorkerTypeOK, NothingHeld

LEMMA UpdateTypes ==
  ASSUME NEW S, NEW R, WorkerTypeOK(S, R),
         NEW U \in SUBSET Uris, NEW C \in SUBSET Uris, NEW snapshot \in [Uris -> S],
         UpdateQueue(U, C, snapshot)
  PROVE  WorkerTypeOK(S, R)'
<1> USE DEF WorkerTypeOK
<1>1. NoEntry \in Entries(S) /\ NoEntry.wants = {}
  BY DEF NoEntry, Entries
<1>2. ASSUME NEW u \in Uris
      PROVE  [batch |-> batch + 1, snapshot |-> snapshot[u], wants |-> Phases, ripe |-> FALSE]
               \in Entries(S)
  BY DEF Entries
<1>3. pending' \in [Uris -> Entries(S)]
  BY <1>1, <1>2 DEF UpdateQueue
<1>4. ASSUME NEW u \in Uris, pending'[u].wants # {} PROVE pending'[u].snapshot \in S
  BY <1>1, <1>4 DEF UpdateQueue
<1>5. KeptTokens(U \cup C) \subseteq Uris \X Nat
  BY DEF KeptTokens
<1>6. batch' \in Nat /\ current' \in [Uris -> Nat] /\ notify' \in BOOLEAN
  BY DEF UpdateQueue
<1> QED
  BY <1>3, <1>4, <1>5, <1>6 DEF UpdateQueue

LEMMA SignalTypes ==
  ASSUME NEW S, NEW R, WorkerTypeOK(S, R), NotifyAll \/ Stop
  PROVE  WorkerTypeOK(S, R)'
<1> USE DEF WorkerTypeOK
<1>1. CASE NotifyAll
  BY <1>1 DEF NotifyAll, queueVars
<1>2. CASE Stop
  <2>1. KeptTokens(Uris) \subseteq Uris \X Nat
    BY DEF KeptTokens
  <2>2. thread' \in [Phases -> {"check", "waiting", "dozing", "working", "sending", "ended"}]
    BY <1>2 DEF Stop
  <2> QED
    BY <1>2, <2>1, <2>2 DEF Stop
<1> QED
  BY <1>1, <1>2

LEMMA TakeTypes ==
  ASSUME NEW S, NEW R, WorkerTypeOK(S, R), NEW p \in Phases, NEW u \in Uris, Take(p, u)
  PROVE  WorkerTypeOK(S, R)'
<1> DEFINE h == [uri |-> u, batch |-> pending[u].batch, snapshot |-> pending[u].snapshot]
<1> USE DEF WorkerTypeOK
<1>1. pending[u] \in Entries(S) /\ p \in pending[u].wants
  BY DEF Take, Oldest, Wanting
<1>2. h \in Tasks(S)
  BY <1>1 DEF Tasks, Entries
<1>3. pending' \in [Uris -> Entries(S)]
  BY <1>1, TakenType DEF Take
<1>4. ASSUME NEW v \in Uris, pending'[v].wants # {} PROVE pending'[v].snapshot \in S
  <2>1. CASE v = u
    BY <1>1, <1>4, <2>1, TakenType DEF Take
  <2>2. CASE v # u
    BY <1>4, <2>2 DEF Take
  <2> QED
    BY <2>1, <2>2
<1>5. thread' = [thread EXCEPT ![p] = "working"] /\ held' = [held EXCEPT ![p] = h]
  BY DEF Take, Keep
<1> HIDE DEF h
<1> QED
  BY <1>2, <1>3, <1>4, <1>5 DEF Take

LEMMA WaitTypes ==
  ASSUME NEW S, NEW R, WorkerTypeOK(S, R), NEW p \in Phases,
         \/ Wait(p) \/ Doze(p) \/ Timeout(p) \/ SpuriousWakeup(p)
         \/ Abandon(p) \/ Send(p) \/ End(p)
  PROVE  WorkerTypeOK(S, R)'
<1> USE DEF WorkerTypeOK
<1>1. CASE Wait(p) \/ Doze(p) \/ Timeout(p) \/ SpuriousWakeup(p)
  BY <1>1 DEF Wait, Doze, Timeout, SpuriousWakeup, queueVars
<1>2. CASE Abandon(p) \/ End(p)
  BY <1>2 DEF Abandon, End, Keep, queueVars
<1>3. CASE Send(p)
  <2>1. Result(p) \in Results(S, R)
    BY <1>3 DEF Send, Result, Results, Outcomes
  <2> QED
    BY <1>3, <2>1 DEF Send, Keep, queueVars
<1> QED
  BY <1>1, <1>2, <1>3

LEMMA FinishTypes ==
  ASSUME NEW S, NEW R, WorkerTypeOK(S, R), NEW p \in Phases, NEW reading \in R,
         Finish(p, reading)
  PROVE  WorkerTypeOK(S, R)'
<1> USE DEF WorkerTypeOK
<1>1. [uri |-> held[p].uri, batch |-> held[p].batch, snapshot |-> held[p].snapshot,
       reading |-> reading] \in Outcomes(S, R)
  BY DEF Finish, Tasks, Outcomes
<1> QED
  BY <1>1 DEF Finish, Keep, queueVars

LEMMA RipenTypes ==
  ASSUME NEW S, NEW R, WorkerTypeOK(S, R), NEW u \in Uris, Ripen(u)
  PROVE  WorkerTypeOK(S, R)'
<1> USE DEF WorkerTypeOK
<1>1. ASSUME NEW v \in Uris
      PROVE  /\ pending'[v] \in Entries(S)
             /\ pending'[v].wants = pending[v].wants
             /\ pending'[v].snapshot = pending[v].snapshot
  BY DEF Ripen, Entries
<1>2. pending' \in [Uris -> Entries(S)]
  BY <1>1 DEF Ripen
<1> QED
  BY <1>1, <1>2 DEF Ripen

(* The main loop takes the oldest result.                                   *)
LEMMA ReceiveTypes ==
  ASSUME NEW S, NEW R, WorkerTypeOK(S, R), channel # <<>>, channel' = Tail(channel),
         UNCHANGED <<queueVars, thread, held, notify, stopped>>
  PROVE  WorkerTypeOK(S, R)'
BY DEF WorkerTypeOK, queueVars

-----------------------------------------------------------------------------

(* A key whose counters do not exceed these, and those of the session.      *)
UpTo(k, s, w, e) == k.settings <= s /\ k.workspace <= w /\ k.environment <= e
Reached(k) == UpTo(k, settings, workspace, environment)

(* A reading of the analysis of a snapshot with key k.                      *)
Extends(k, r) ==
  /\ r.text = k.text /\ r.settings = k.settings
  /\ k.workspace <= r.workspace /\ k.environment <= r.environment
Between(k, r) == Extends(k, r) /\ Reached(r)

FreshInv ==
  /\ \A u \in Uris : pending[u].wants # {} => Reached(pending[u].snapshot)
  /\ \A p \in Phases :
       /\ thread[p] = "working" => Reached(held[p].snapshot)
       /\ thread[p] = "sending" => Between(held[p].snapshot, held[p].reading)
  /\ \A i \in 1 .. Len(channel) : Between(channel[i].key, channel[i].reading)
  /\ \A u \in Uris : shown[u] # Blank => Reached(shown[u].reading)

(* Complete diagnostics that are current are the ones the main loop has      *)
(* recorded, so it can recognise static feedback for the same key.          *)
RecordInv == \A u \in Uris : CompleteAndCurrent(u) => completed[u] = Key(u)

(* The session's part of a step: its counters do not go back, and the text   *)
(* of a document changes, or a document is opened, only with a bump.        *)
Forward ==
  /\ settings' \in Nat /\ workspace' \in Nat /\ environment' \in Nat
  /\ settings <= settings' /\ workspace <= workspace' /\ environment <= environment'
  /\ text' \in [Uris -> Texts]
  /\ \/ workspace < workspace'
     \/ text' = text /\ open' \subseteq open

Rescheduled ==
  \E C \in SUBSET Uris, U \in SUBSET Uris, snapshot \in [Uris -> Keys] :
    /\ UpdateQueue(U, C, snapshot)
    /\ \A u \in U : snapshot[u] = Key(u)'

(* What an event of the session comes to, for the invariants.               *)
SessionEvent ==
  /\ Forward
  /\ Rescheduled \/ UNCHANGED workerVars
  /\ open' \subseteq Uris /\ clientOpen' \subseteq Uris /\ open' \subseteq clientOpen'
  /\ events' \in 0 .. MaxEvents /\ ticked' \in 0 .. events'
  /\ \A u \in Uris : shown'[u] = shown[u] \/ (shown'[u] = Blank /\ u \notin open')
  /\ \A u \in Uris : completed'[u] = completed[u] \/ (completed'[u] = Blank /\ u \notin open')
  /\ shown' = [u \in Uris |-> shown'[u]] /\ completed' = [u \in Uris |-> completed'[u]]

(* Keys of the next state are keys.                                         *)
LEMMA KeyType == ASSUME TypeOK, NEW u \in Uris PROVE Key(u) \in Keys
BY DEF TypeOK, Key, Keys

LEMMA ScheduleAllIsUpdate ==
  ASSUME Forward, open' \in SUBSET Uris, NEW C \in SUBSET Uris, ScheduleAll(C)
  PROVE  Rescheduled
<1>1. ASSUME NEW u \in Uris PROVE Key(u)' \in Keys
  BY DEF Forward, Key, Keys
<1>2. [u \in Uris |-> Key(u)'] \in [Uris -> Keys]
  BY <1>1
<1>3. UpdateQueue(open', C, [u \in Uris |-> Key(u)'])
  BY DEF ScheduleAll
<1>4. \A u \in open' : [v \in Uris |-> Key(v)'][u] = Key(u)'
  OBVIOUS
<1> QED
  BY <1>2, <1>3, <1>4 DEF Rescheduled

SessionStep ==
  \/ \E u \in Uris, x \in Texts : DidOpen(u, x) \/ DidChange(u, x)
  \/ \E u \in Uris : RejectChange(u) \/ DidClose(u) \/ RejectClose(u)
  \/ EnvironmentTick
  \/ RefreshTick
  \/ SelectEnvironment \/ DidChangeConfiguration \/ DidChangeWatchedFiles
  \/ ShellSession
  \/ \E D \in SUBSET Uris : DidChangeWorkspace(D)

LEMMA SessionSteps == ASSUME TypeOK, SessionStep PROVE SessionEvent
<1> USE DEF NewEvent, InvalidateWorkspace, InvalidateEnvironment, ClearAnalyses, epochVars,
            editorVars, documentVars
<1>a. /\ open \subseteq Uris /\ clientOpen \subseteq Uris /\ open \subseteq clientOpen
      /\ text \in [Uris -> Texts]
      /\ settings \in Nat /\ workspace \in Nat /\ environment \in Nat
      /\ shown = [u \in Uris |-> shown[u]] /\ completed = [u \in Uris |-> completed[u]]
      /\ events \in 0 .. MaxEvents /\ ticked \in 0 .. events
      /\ MaxEvents \in Nat
  BY PipelineAssumption DEF TypeOK
<1>b. events < MaxEvents => events + 1 \in 0 .. MaxEvents /\ ticked \in 0 .. (events + 1)
  BY <1>a
<1>1. ASSUME NEW u \in Uris, NEW x \in Texts, DidOpen(u, x) \/ DidChange(u, x)
      PROVE  SessionEvent
  <2>1. Forward /\ open' \in SUBSET Uris
    BY <1>1, <1>a DEF DidOpen, DidChange, Forward
  <2>2. Rescheduled
    BY <1>1, <2>1, ScheduleAllIsUpdate DEF DidOpen, DidChange
  <2> QED
    BY <1>1, <1>a, <1>b, <2>1, <2>2 DEF DidOpen, DidChange, SessionEvent
<1>2. ASSUME NEW u \in Uris, RejectChange(u) PROVE SessionEvent
  BY <1>2, <1>a, <1>b DEF RejectChange, vars, boundVars, SessionEvent, Forward
<1>3. ASSUME NEW u \in Uris, DidClose(u) PROVE SessionEvent
  <2>1. Forward /\ open' \in SUBSET Uris /\ {u} \in SUBSET Uris
    BY <1>3, <1>a DEF DidClose, Forward
  <2>2. Rescheduled
    BY <1>3, <2>1, ScheduleAllIsUpdate DEF DidClose
  <2> QED
    BY <1>3, <1>a, <1>b, <2>1, <2>2 DEF DidClose, SessionEvent
<1>4. ASSUME NEW u \in Uris, RejectClose(u) PROVE SessionEvent
  <2>1. Forward
    BY <1>4, <1>a DEF RejectClose, Forward
  <2>2. Rescheduled
    <3>1. [v \in Uris |-> Key(v)] \in [Uris -> Keys]
      BY KeyType
    <3>2. UpdateQueue({}, {u}, [v \in Uris |-> Key(v)])
      BY <1>4 DEF RejectClose, UpdateQueue
    <3> QED
      BY <3>1, <3>2 DEF Rescheduled
  <2> QED
    BY <1>4, <1>a, <1>b, <2>1, <2>2 DEF RejectClose, boundVars, SessionEvent
<1>5. CASE EnvironmentTick \/ RefreshTick \/ ShellSession
  <2>1. Forward /\ open' \in SUBSET Uris
    BY <1>5, <1>a DEF EnvironmentTick, RefreshTick, Refresh, ShellSession, Forward
  <2>2. Rescheduled
    BY <1>5, <2>1, ScheduleAllIsUpdate DEF EnvironmentTick, RefreshTick, Refresh, ShellSession
  <2>3. events' \in 0 .. MaxEvents /\ ticked' \in 0 .. events'
    BY <1>5, <1>a, <1>b DEF EnvironmentTick, RefreshTick, ShellSession
  <2> QED
    BY <1>5, <1>a, <2>1, <2>2, <2>3
       DEF EnvironmentTick, RefreshTick, Refresh, ShellSession, SessionEvent
<1>6. CASE SelectEnvironment \/ DidChangeConfiguration \/ DidChangeWatchedFiles
  <2>1. NewEvent /\ InvalidateAll
    BY <1>6 DEF SelectEnvironment, DidChangeConfiguration, DidChangeWatchedFiles
  <2>2. Forward /\ open' \in SUBSET Uris
    BY <2>1, <1>a DEF InvalidateAll, Forward
  <2>3. Rescheduled
    BY <2>1, <2>2, ScheduleAllIsUpdate DEF InvalidateAll
  <2> QED
    BY <2>1, <1>a, <1>b, <2>2, <2>3 DEF InvalidateAll, SessionEvent
<1>7. ASSUME NEW D \in SUBSET Uris, DidChangeWorkspace(D) PROVE SessionEvent
  BY <1>7, <1>a, <1>b DEF DidChangeWorkspace, SessionEvent, Forward
<1> QED
  BY <1>1, <1>2, <1>3, <1>4, <1>5, <1>6, <1>7 DEF SessionStep

LEMMA StepCases ==
  ASSUME [Next]_vars
  PROVE  \/ SessionStep
         \/ DropResult
         \/ Publish
         \/ Pass(NotifyAll)
         \/ \E p \in Phases, u \in Uris : Pass(Take(p, u))
         \/ \E p \in Phases :
              Pass(\/ Wait(p) \/ Doze(p) \/ Timeout(p) \/ SpuriousWakeup(p)
                   \/ Abandon(p) \/ Send(p) \/ End(p))
         \/ \E p \in Phases : Pass(Finish(p, Reading(p)))
         \/ \E u \in Uris : Pass(Ripen(u))
         \/ UNCHANGED vars
BY DEF Next, MainStep, SessionStep, Work, Pass, ThreadStep, QueueStep

LEMMA EventTypes == ASSUME TypeOK, SessionEvent PROVE TypeOK'
<1>1. WorkerTypeOK(Keys, Keys)
  BY DEF TypeOK
<1>2. ASSUME Rescheduled PROVE WorkerTypeOK(Keys, Keys)'
  <2>1. PICK C \in SUBSET Uris, U \in SUBSET Uris, snapshot \in [Uris -> Keys] :
          UpdateQueue(U, C, snapshot)
    BY <1>2 DEF Rescheduled
  <2> QED
    BY <1>1, <2>1, UpdateTypes
<1>3. ASSUME UNCHANGED workerVars PROVE WorkerTypeOK(Keys, Keys)'
  BY <1>1, <1>3 DEF workerVars, queueVars, WorkerTypeOK
<1>4. WorkerTypeOK(Keys, Keys)'
  BY <1>2, <1>3 DEF SessionEvent
<1>5. shown' \in [Uris -> Shown \cup {Blank}] /\ completed' \in [Uris -> Keys \cup {Blank}]
  <2>1. ASSUME NEW u \in Uris
        PROVE  shown'[u] \in Shown \cup {Blank} /\ completed'[u] \in Keys \cup {Blank}
    BY DEF TypeOK, SessionEvent
  <2>2. shown' = [u \in Uris |-> shown'[u]] /\ completed' = [u \in Uris |-> completed'[u]]
    BY DEF SessionEvent
  <2> QED
    BY <2>1, <2>2
<1> QED
  BY <1>4, <1>5 DEF SessionEvent, Forward, TypeOK

LEMMA TypeStep == ASSUME TypeOK, [Next]_vars PROVE TypeOK'
<1>1. WorkerTypeOK(Keys, Keys)
  BY DEF TypeOK
<1>2. CASE SessionStep
  BY <1>2, SessionSteps, EventTypes
<1>3. ASSUME WorkerTypeOK(Keys, Keys)',
             UNCHANGED <<documentVars, epochVars, editorVars, boundVars>>
      PROVE  TypeOK'
  BY <1>3 DEF TypeOK, documentVars, epochVars, editorVars, boundVars
<1>4. CASE DropResult \/ Publish
  <2>1. WorkerTypeOK(Keys, Keys)'
    BY <1>1, <1>4, ReceiveTypes DEF DropResult, Publish, TakeResult
  <2>2. CASE DropResult
    BY <1>3, <2>1, <2>2 DEF DropResult, TakeResult
  <2>3. CASE Publish
    <3> DEFINE r == Head(channel)
    <3>1. r \in Results(Keys, Keys)
      BY <1>1, <2>3 DEF Publish, TakeResult, WorkerTypeOK
    <3>2. [reading |-> r.reading, complete |-> r.complete] \in Shown /\ r.key \in Keys
      BY <3>1 DEF Results, Shown
    <3>3. /\ completed' = completed \/ completed' = [completed EXCEPT ![r.uri] = r.key]
          /\ shown' = [shown EXCEPT ![r.uri] =
                         [reading |-> r.reading, complete |-> r.complete]]
      BY <2>3 DEF Publish
    <3> HIDE DEF r
    <3>4. shown' \in [Uris -> Shown \cup {Blank}] /\ completed' \in [Uris -> Keys \cup {Blank}]
      BY <3>2, <3>3 DEF TypeOK
    <3> QED
      BY <2>1, <2>3, <3>4 DEF Publish, TakeResult, TypeOK, documentVars, epochVars, boundVars
  <2> QED
    BY <1>4, <2>2, <2>3
<1>5. CASE Pass(NotifyAll)
  BY <1>1, <1>3, <1>5, SignalTypes DEF Pass
<1>6. ASSUME NEW p \in Phases, NEW u \in Uris, Pass(Take(p, u)) PROVE TypeOK'
  BY <1>1, <1>3, <1>6, TakeTypes DEF Pass
<1>7. ASSUME NEW p \in Phases,
             Pass(\/ Wait(p) \/ Doze(p) \/ Timeout(p) \/ SpuriousWakeup(p)
                  \/ Abandon(p) \/ Send(p) \/ End(p))
      PROVE  TypeOK'
  BY <1>1, <1>3, <1>7, WaitTypes DEF Pass
<1>8. ASSUME NEW p \in Phases, Pass(Finish(p, Reading(p))) PROVE TypeOK'
  <2>1. PICK reading : reading = Reading(p)
    OBVIOUS
  <2>2. reading \in Keys
    BY <1>1, <1>8, <2>1
       DEF Pass, Finish, Reading, WorkerTypeOK, Tasks, TypeOK, Keys
  <2>3. Finish(p, reading)
    BY <1>8, <2>1 DEF Pass, Finish
  <2> QED
    BY <1>1, <1>3, <1>8, <2>2, <2>3, FinishTypes DEF Pass
<1>9. ASSUME NEW u \in Uris, Pass(Ripen(u)) PROVE TypeOK'
  BY <1>1, <1>3, <1>9, RipenTypes DEF Pass
<1>10. CASE UNCHANGED vars
  BY <1>1, <1>3, <1>10 DEF vars, workerVars, queueVars, WorkerTypeOK
<1> QED
  BY <1>2, <1>4, <1>5, <1>6, <1>7, <1>8, <1>9, <1>10, StepCases

(* The type invariant is inductive on its own. *)
THEOREM PipelineTypeCorrect == Spec => []TypeOK
<1>1. Init => TypeOK
  BY WorkerInitTypes, PipelineAssumption DEF Init, TypeOK
<1> QED
  BY <1>1, TypeStep, PTL DEF Spec

-----------------------------------------------------------------------------
(* Whatever was reached stays reached.                                      *)
LEMMA ReachedStays ==
  ASSUME TypeOK, Forward, NEW k \in Keys, Reached(k)
  PROVE  UpTo(k, settings', workspace', environment')
<1>1. k.settings \in Nat /\ k.workspace \in Nat /\ k.environment \in Nat
  BY DEF Keys
<1> QED
  BY <1>1 DEF TypeOK, Forward, Reached, UpTo

(* A session event leaves results and work in progress behind, not ahead.    *)
LEMMA FreshEvent ==
  ASSUME TypeOK, FreshInv, SessionEvent
  PROVE  FreshInv'
<1>a. /\ Forward
      /\ \A u \in Uris : shown'[u] = shown[u] \/ shown'[u] = Blank
  BY DEF SessionEvent
<1>b. ASSUME NEW k \in Keys, Reached(k) PROVE UpTo(k, settings', workspace', environment')
  BY <1>a, <1>b, ReachedStays
<1>c. ASSUME NEW k \in Keys, NEW r \in Keys, Between(k, r)
      PROVE  Extends(k, r) /\ UpTo(r, settings', workspace', environment')
  BY <1>b, <1>c DEF Between
<1>1. UNCHANGED <<thread, held, channel>>
  BY DEF SessionEvent, Rescheduled, UpdateQueue, workerVars
<1>2. ASSUME NEW u \in Uris, pending'[u].wants # {}
      PROVE  UpTo(pending'[u].snapshot, settings', workspace', environment')
  <2>1. CASE UNCHANGED workerVars
    <3>1. pending[u].wants # {} /\ pending'[u] = pending[u]
      BY <1>2, <2>1 DEF workerVars, queueVars
    <3>2. pending[u].snapshot \in Keys
      BY <3>1 DEF TypeOK, WorkerTypeOK
    <3> QED
      BY <1>b, <3>1, <3>2 DEF FreshInv
  <2>2. CASE Rescheduled
    <3>1. PICK C \in SUBSET Uris, U \in SUBSET Uris, snapshot \in [Uris -> Keys] :
            UpdateQueue(U, C, snapshot) /\ \A v \in U : snapshot[v] = Key(v)'
      BY <2>2 DEF Rescheduled
    <3>2. CASE u \in U
      <4>1. pending'[u].snapshot = Key(u)'
        BY <3>1, <3>2 DEF UpdateQueue
      <4> QED
        BY <1>a, <4>1 DEF Forward, UpTo, Key
    <3>3. CASE u \notin U
      <4>1. pending[u].wants # {} /\ pending'[u] = pending[u]
        BY <1>2, <3>1, <3>3 DEF UpdateQueue, NoEntry
      <4>2. pending[u].snapshot \in Keys
        BY <4>1 DEF TypeOK, WorkerTypeOK
      <4> QED
        BY <1>b, <4>1, <4>2 DEF FreshInv
    <3> QED
      BY <3>2, <3>3
  <2> QED
    BY <2>1, <2>2 DEF SessionEvent
<1>3. ASSUME NEW p \in Phases
      PROVE  /\ thread'[p] = "working" =>
                  UpTo(held'[p].snapshot, settings', workspace', environment')
             /\ thread'[p] = "sending" =>
                  /\ Extends(held'[p].snapshot, held'[p].reading)
                  /\ UpTo(held'[p].reading, settings', workspace', environment')
  <2>1. thread[p] = "working" => held[p].snapshot \in Keys
    BY DEF TypeOK, WorkerTypeOK, Tasks
  <2>2. thread[p] = "sending" => held[p].snapshot \in Keys /\ held[p].reading \in Keys
    BY DEF TypeOK, WorkerTypeOK, Outcomes
  <2> QED
    BY <1>b, <1>c, <1>1, <2>1, <2>2 DEF FreshInv
<1>4. ASSUME NEW i \in 1 .. Len(channel')
      PROVE  /\ Extends(channel'[i].key, channel'[i].reading)
             /\ UpTo(channel'[i].reading, settings', workspace', environment')
  <2>1. channel[i] \in Results(Keys, Keys)
    BY <1>1 DEF TypeOK, WorkerTypeOK
  <2>2. channel[i].key \in Keys /\ channel[i].reading \in Keys
    BY <2>1 DEF Results
  <2> QED
    BY <1>c, <1>1, <2>2 DEF FreshInv
<1>5. ASSUME NEW u \in Uris, shown'[u] # Blank
      PROVE  UpTo(shown'[u].reading, settings', workspace', environment')
  <2>1. shown'[u] = shown[u]
    BY <1>a, <1>5
  <2>2. shown[u].reading \in Keys
    BY <1>5, <2>1 DEF TypeOK, Shown
  <2> QED
    BY <1>b, <1>5, <2>1, <2>2 DEF FreshInv
<1> QED
  BY <1>2, <1>3, <1>4, <1>5 DEF FreshInv, Between, Reached

(* The reading of a result that passes the main loop's test is what holds.   *)
LEMMA CurrentReading ==
  ASSUME TypeOK, FreshInv, channel # <<>>, Current(Head(channel))
  PROVE  /\ Head(channel).uri \in Uris
         /\ Head(channel).reading = Key(Head(channel).uri)
         /\ Reached(Head(channel).reading)
<1> DEFINE r == Head(channel)
           u == r.uri
<1>1. channel \in Seq(Results(Keys, Keys)) /\ r = channel[1] /\ 1 \in 1 .. Len(channel)
  <2>1. channel \in Seq(Results(Keys, Keys))
    BY DEF TypeOK, WorkerTypeOK
  <2>2. Len(channel) \in Nat \ {0} /\ Head(channel) = channel[1]
    BY <2>1
  <2> QED
    BY <2>1, <2>2
<1>2. r \in Results(Keys, Keys) /\ Between(r.key, r.reading)
  BY <1>1 DEF FreshInv
<1>3. u \in Uris /\ r.key \in Keys /\ r.reading \in Keys
  BY <1>2 DEF Results
<1>4. r.key = Key(u)
  BY DEF Current
<1>5. /\ r.key.text = text[u] /\ r.key.settings = settings
      /\ r.key.workspace = workspace /\ r.key.environment = environment
  BY <1>4 DEF Key
<1>6. /\ r.reading.text = text[u] /\ r.reading.settings = settings
      /\ workspace <= r.reading.workspace /\ r.reading.workspace <= workspace
      /\ environment <= r.reading.environment /\ r.reading.environment <= environment
  BY <1>2, <1>5 DEF Between, Reached, UpTo, Extends
<1>7. r.reading.workspace \in Nat /\ r.reading.environment \in Nat
      /\ workspace \in Nat /\ environment \in Nat
  BY <1>3 DEF Keys, TypeOK
<1>8. r.reading.workspace = workspace /\ r.reading.environment = environment
  BY <1>6, <1>7
<1>9. r.reading = [text |-> r.reading.text, settings |-> r.reading.settings,
                   workspace |-> r.reading.workspace, environment |-> r.reading.environment]
  BY <1>3 DEF Keys
<1> QED
  BY <1>2, <1>3, <1>6, <1>8, <1>9 DEF Key, Between, Extends

LEMMA FreshStep == ASSUME TypeOK, FreshInv, [Next]_vars PROVE FreshInv'
<1>1. CASE SessionStep
  BY <1>1, SessionSteps, FreshEvent
<1>2. CASE DropResult \/ Publish
  <2>1. /\ UNCHANGED <<pending, thread, held, settings, workspace, environment>>
        /\ channel' = Tail(channel) /\ channel # <<>>
    BY <1>2 DEF DropResult, Publish, TakeResult, queueVars, epochVars
  <2>2. channel \in Seq(Results(Keys, Keys))
    BY DEF TypeOK, WorkerTypeOK
  <2>3. \A i \in 1 .. Len(channel') : Between(channel'[i].key, channel'[i].reading)
    <3>1. Len(Tail(channel)) = Len(channel) - 1 /\ Len(channel) \in Nat \ {0}
      BY <2>1, <2>2
    <3>2. \A i \in 1 .. Len(Tail(channel)) :
            i + 1 \in 1 .. Len(channel) /\ Tail(channel)[i] = channel[i + 1]
      BY <2>2, <3>1
    <3> QED
      BY <2>1, <3>2 DEF FreshInv
  <2>4. ASSUME NEW u \in Uris, shown'[u] # Blank PROVE Reached(shown'[u].reading)
    <3>1. CASE shown'[u] = shown[u]
      BY <2>4, <3>1 DEF FreshInv
    <3>2. CASE shown'[u] # shown[u]
      <4>1. /\ Publish
            /\ Current(Head(channel))
            /\ shown' = [shown EXCEPT ![Head(channel).uri] =
                 [reading |-> Head(channel).reading, complete |-> Head(channel).complete]]
        BY <1>2, <3>2 DEF DropResult, Publish, editorVars
      <4>2. shown'[u].reading = Head(channel).reading
        BY <3>2, <4>1 DEF TypeOK
      <4> QED
        BY <2>1, <4>1, <4>2, CurrentReading
    <3> QED
      BY <3>1, <3>2
  <2> QED
    BY <2>1, <2>3, <2>4 DEF FreshInv, Reached, Between
<1>3. CASE Pass(NotifyAll)
  <2>1. /\ UNCHANGED <<pending, held, channel, shown, settings, workspace, environment>>
        /\ \A p \in Phases : thread'[p] \in {"working", "sending"} => thread'[p] = thread[p]
    BY <1>3 DEF Pass, NotifyAll, queueVars, epochVars, editorVars
  <2> QED
    BY <2>1 DEF FreshInv, Reached, Between
<1>4. ASSUME NEW p \in Phases, NEW u \in Uris, Pass(Take(p, u)) PROVE FreshInv'
  <2>1. /\ UNCHANGED <<channel, shown, settings, workspace, environment>>
        /\ pending' = [pending EXCEPT ![u] = Taken(@, p)]
        /\ p \in pending[u].wants
        /\ thread' = [thread EXCEPT ![p] = "working"]
        /\ held'[p].snapshot = pending[u].snapshot
        /\ \A q \in Phases \ {p} : held'[q] = held[q]
    BY <1>4 DEF Pass, Take, Keep, Oldest, Wanting, epochVars, editorVars, TypeOK, WorkerTypeOK
  <2>2. ASSUME NEW v \in Uris, pending'[v].wants # {}
        PROVE  pending[v].wants # {} /\ pending'[v].snapshot = pending[v].snapshot
    <3>1. pending \in [Uris -> Entries(Keys)]
      BY DEF TypeOK, WorkerTypeOK
    <3> QED
      BY <2>1, <2>2, <3>1, TakenType
  <2>3. \A q \in Phases \ {p} : thread'[q] = thread[q]
    BY <2>1 DEF TypeOK, WorkerTypeOK
  <2>4. thread'[p] = "working" /\ Reached(held'[p].snapshot)
    BY <2>1 DEF FreshInv, TypeOK, WorkerTypeOK
  <2> QED
    BY <2>1, <2>2, <2>3, <2>4 DEF FreshInv, Reached, Between
<1>5. ASSUME NEW p \in Phases,
             Pass(\/ Wait(p) \/ Doze(p) \/ Timeout(p) \/ SpuriousWakeup(p)
                  \/ Abandon(p) \/ Send(p) \/ End(p))
      PROVE  FreshInv'
  <2>1. /\ UNCHANGED <<pending, shown, settings, workspace, environment>>
        /\ \A q \in Phases : thread'[q] \in {"working", "sending"} =>
             thread'[q] = thread[q] /\ held'[q] = held[q]
    BY <1>5 DEF Pass, Wait, Doze, Timeout, SpuriousWakeup, Abandon, Send, End, Keep,
                queueVars, epochVars, editorVars, TypeOK, WorkerTypeOK
  <2>2. \A i \in 1 .. Len(channel') : Between(channel'[i].key, channel'[i].reading)
    <3>1. CASE UNCHANGED channel
      BY <3>1 DEF FreshInv
    <3>2. CASE Send(p)
      <4> DEFINE r == Result(p)
      <4>1. held[p] \in Outcomes(Keys, Keys) /\ channel \in Seq(Results(Keys, Keys))
        BY <3>2 DEF Send, TypeOK, WorkerTypeOK
      <4>2. r \in Results(Keys, Keys)
        BY <4>1 DEF Result, Results, Outcomes
      <4>3. Between(r.key, r.reading) /\ channel' = Append(channel, r)
        BY <3>2 DEF Send, Result, FreshInv
      <4> HIDE DEF r
      <4> QED
        <5>1. \A i \in 1 .. Len(Append(channel, r)) :
                Append(channel, r)[i] = r
                \/ (i \in 1 .. Len(channel) /\ Append(channel, r)[i] = channel[i])
          BY <4>1, <4>2
        <5> QED
          BY <4>3, <5>1 DEF FreshInv
    <3> QED
      BY <1>5, <3>1, <3>2
         DEF Pass, Wait, Doze, Timeout, SpuriousWakeup, Abandon, End
  <2> QED
    BY <2>1, <2>2 DEF FreshInv, Reached, Between
<1>6. ASSUME NEW p \in Phases, Pass(Finish(p, Reading(p))) PROVE FreshInv'
  <2>1. /\ UNCHANGED <<pending, channel, shown, settings, workspace, environment>>
        /\ thread[p] = "working"
        /\ held'[p].snapshot = held[p].snapshot /\ held'[p].reading = Reading(p)
        /\ thread'[p] = "sending"
        /\ \A q \in Phases \ {p} : thread'[q] = thread[q] /\ held'[q] = held[q]
    BY <1>6 DEF Pass, Finish, Keep, queueVars, epochVars, editorVars, TypeOK, WorkerTypeOK
  <2>2. Reached(held[p].snapshot)
    BY <2>1 DEF FreshInv
  <2>3. Between(held'[p].snapshot, held'[p].reading)
    BY <2>1, <2>2 DEF Between, Extends, Reached, UpTo, Reading, TypeOK
  <2> QED
    BY <2>1, <2>3 DEF FreshInv, Reached, Between
<1>7. ASSUME NEW u \in Uris, Pass(Ripen(u)) PROVE FreshInv'
  <2>1. /\ UNCHANGED <<thread, held, channel, shown, settings, workspace, environment>>
        /\ \A v \in Uris : /\ pending'[v].wants = pending[v].wants
                           /\ pending'[v].snapshot = pending[v].snapshot
    BY <1>7 DEF Pass, Ripen, epochVars, editorVars, TypeOK, WorkerTypeOK, Entries
  <2> QED
    BY <2>1 DEF FreshInv, Reached, Between
<1>8. CASE UNCHANGED vars
  <2>1. UNCHANGED <<pending, thread, held, channel, shown, settings, workspace, environment>>
    BY <1>8 DEF vars, workerVars, queueVars, epochVars, editorVars
  <2> QED
    BY <2>1 DEF FreshInv, Reached, Between
<1> QED
  BY <1>1, <1>2, <1>3, <1>4, <1>5, <1>6, <1>7, <1>8, StepCases

LEMMA FreshInvariant == Spec => []FreshInv
<1>1. Init => FreshInv
  BY DEF Init, WorkerInit, NoEntry, FreshInv
<1> QED
  BY <1>1, FreshStep, PipelineTypeCorrect, PTL DEF Spec

-----------------------------------------------------------------------------
(* Outside Publish, what a document shows stays or goes blank.              *)
LEMMA OnlyPublishShows ==
  ASSUME TypeOK, [Next]_vars, ~Publish, NEW u \in Uris
  PROVE  shown'[u] = shown[u] \/ shown'[u] = Blank
<1>1. CASE SessionStep
  BY <1>1, SessionSteps DEF SessionEvent
<1>2. CASE DropResult
  BY <1>2 DEF DropResult, editorVars
<1>3. CASE UNCHANGED editorVars
  BY <1>3 DEF editorVars
<1> QED
  BY <1>1, <1>2, <1>3, StepCases DEF Pass, vars, editorVars

(* Every result the editor is given was computed from what holds when it is  *)
(* given, the state read live half-way through the analysis included.       *)
THEOREM OnlyFreshIsPublished == Spec => NothingStalePublished
<1>1. TypeOK /\ FreshInv /\ [Next]_vars =>
        [\A u \in Uris :
           shown'[u] # shown[u] /\ shown'[u] # Blank => shown'[u].reading = Key(u)']_vars
  <2> SUFFICES ASSUME TypeOK, FreshInv, [Next]_vars, NEW u \in Uris,
                      shown'[u] # shown[u], shown'[u] # Blank
               PROVE  shown'[u].reading = Key(u)'
    OBVIOUS
  <2>1. Publish
    BY OnlyPublishShows
  <2> DEFINE r == Head(channel)
  <2>2. /\ channel # <<>> /\ Current(r)
        /\ shown' = [shown EXCEPT ![r.uri] =
                       [reading |-> r.reading, complete |-> r.complete]]
        /\ UNCHANGED <<text, settings, workspace, environment>>
    BY <2>1 DEF Publish, TakeResult, documentVars, epochVars
  <2>3. u = r.uri /\ shown'[u].reading = r.reading
    BY <2>2 DEF TypeOK
  <2>4. r.reading = Key(u)
    BY <2>2, <2>3, CurrentReading
  <2> HIDE DEF r
  <2> QED
    BY <2>2, <2>3, <2>4 DEF Key
<1> QED
  BY <1>1, FreshInvariant, PipelineTypeCorrect, PTL DEF Spec, NothingStalePublished

-----------------------------------------------------------------------------
(* A session event that leaves a document open with the key of what it shows  *)
(* has changed neither the key nor what was recorded.                       *)
LEMMA EventKeepsRecord ==
  ASSUME TypeOK, FreshInv, RecordInv, SessionEvent, NEW u \in Uris, CompleteAndCurrent(u)'
  PROVE  CompleteAndCurrent(u) /\ completed'[u] = Key(u)'
<1>1. /\ Forward /\ u \in open'
      /\ shown'[u] = shown[u] /\ shown[u] # Blank
      /\ completed'[u] = completed[u]
      /\ shown[u].complete /\ shown[u].reading = Key(u)'
  BY DEF SessionEvent, CompleteAndCurrent
<1>2. UpTo(shown[u].reading, settings, workspace, environment)
  BY <1>1 DEF FreshInv, Reached
<1>3. /\ shown[u].reading.settings = settings' /\ shown[u].reading.workspace = workspace'
      /\ shown[u].reading.environment = environment'
  BY <1>1 DEF Key
<1>4. settings' = settings /\ workspace' = workspace /\ environment' = environment
  BY <1>1, <1>2, <1>3 DEF UpTo, Forward, TypeOK
<1>5. text' = text /\ u \in open
  BY <1>1, <1>4 DEF Forward, TypeOK
<1>6. Key(u)' = Key(u)
  BY <1>4, <1>5 DEF Key
<1>7. CompleteAndCurrent(u)
  BY <1>1, <1>5, <1>6 DEF CompleteAndCurrent
<1> QED
  BY <1>1, <1>6, <1>7 DEF RecordInv

LEMMA RecordStep == ASSUME TypeOK, FreshInv, RecordInv, [Next]_vars PROVE RecordInv'
<1>1. CASE SessionStep
  BY <1>1, SessionSteps, EventKeepsRecord DEF RecordInv
<1>2. CASE Publish
  <2> DEFINE r == Head(channel)
  <2>1. /\ Current(r) /\ channel # <<>> /\ UNCHANGED <<open, text, settings, workspace, environment>>
        /\ shown' = [shown EXCEPT ![r.uri] =
                       [reading |-> r.reading, complete |-> r.complete]]
        /\ completed' = IF r.complete THEN [completed EXCEPT ![r.uri] = r.key] ELSE completed
    BY <1>2 DEF Publish, TakeResult, documentVars, epochVars
  <2>2. r.key = Key(r.uri)
    BY <2>1 DEF Current
  <2> HIDE DEF r
  <2> SUFFICES ASSUME NEW u \in Uris, CompleteAndCurrent(u)' PROVE completed'[u] = Key(u)'
    BY DEF RecordInv
  <2>3. Key(u)' = Key(u)
    BY <2>1 DEF Key
  <2>4. CASE u = r.uri
    <3>1. shown'[u].complete = r.complete
      BY <2>1, <2>4 DEF TypeOK
    <3>2. r.complete
      BY <3>1 DEF CompleteAndCurrent
    <3> QED
      BY <2>1, <2>2, <2>3, <2>4, <3>2 DEF TypeOK
  <2>5. CASE u # r.uri
    <3>1. shown'[u] = shown[u] /\ completed'[u] = completed[u]
      BY <2>1, <2>5 DEF TypeOK
    <3>2. CompleteAndCurrent(u)
      BY <2>1, <2>3, <3>1 DEF CompleteAndCurrent
    <3> QED
      BY <2>3, <3>1, <3>2 DEF RecordInv
  <2> QED
    BY <2>4, <2>5
<1>3. CASE UNCHANGED <<documentVars, epochVars, editorVars>>
  BY <1>3 DEF RecordInv, CompleteAndCurrent, Key, documentVars, epochVars, editorVars
<1>4. CASE DropResult
  BY <1>3, <1>4 DEF DropResult, TakeResult
<1> QED
  BY <1>1, <1>2, <1>3, <1>4, StepCases DEF Pass, vars

LEMMA RecordInvariant == Spec => []RecordInv
<1>1. Init => RecordInv
  BY DEF Init, RecordInv, CompleteAndCurrent
<1> QED
  BY <1>1, RecordStep, FreshInvariant, PipelineTypeCorrect, PTL DEF Spec

LEMMA CompleteKept ==
  ASSUME TypeOK, FreshInv, RecordInv, [Next]_vars, NEW u \in Uris,
         CompleteAndCurrent(u), u \in open', Key(u)' = Key(u)
  PROVE  CompleteAndCurrent(u)'
<1>1. CASE shown'[u] = shown[u]
  BY <1>1 DEF CompleteAndCurrent
<1>2. CASE shown'[u] # shown[u] /\ ~Publish
  <2>1. SessionStep
    BY <1>2, StepCases DEF DropResult, Pass, vars, editorVars
  <2>2. u \notin open'
    BY <1>2, <2>1, SessionSteps DEF SessionEvent
  <2> QED
    BY <2>2
<1>3. CASE shown'[u] # shown[u] /\ Publish
  <2> DEFINE r == Head(channel)
  <2>1. /\ channel # <<>> /\ Current(r) /\ ~Superseded(r)
        /\ shown' = [shown EXCEPT ![r.uri] =
                       [reading |-> r.reading, complete |-> r.complete]]
    BY <1>3 DEF Publish, TakeResult
  <2>2. u = r.uri /\ shown'[u] = [reading |-> r.reading, complete |-> r.complete]
    BY <1>3, <2>1 DEF TypeOK
  <2>3. completed[u] = r.key
    BY <2>1, <2>2 DEF Current, RecordInv
  <2>4. r.complete
    BY <2>1, <2>2, <2>3 DEF Superseded
  <2>5. r.reading = Key(u)
    BY <2>1, <2>2, CurrentReading
  <2> HIDE DEF r
  <2>6. shown'[u] # Blank
    <3>1. DOMAIN shown'[u] = {"reading", "complete"} /\ DOMAIN Blank = {"blank"}
      BY <2>2 DEF Blank
    <3> QED
      BY <3>1
  <2>7. shown'[u].complete /\ shown'[u].reading = Key(u)'
    BY <2>2, <2>4, <2>5
  <2> QED
    BY <2>6, <2>7 DEF CompleteAndCurrent
<1> QED
  BY <1>1, <1>2, <1>3

(* Static feedback that comes in late, or again for the same snapshot, never  *)
(* takes the place of complete diagnostics that are still current.          *)
THEOREM CompleteStays == Spec => NoDowngrade
<1>1. TypeOK /\ FreshInv /\ RecordInv /\ [Next]_vars =>
        [\A u \in Uris :
           CompleteAndCurrent(u) /\ u \in open' /\ Key(u)' = Key(u) => CompleteAndCurrent(u)']_vars
  BY CompleteKept
<1> QED
  BY <1>1, RecordInvariant, FreshInvariant, PipelineTypeCorrect, PTL DEF Spec, NoDowngrade

(* A result that arrives after its document was closed is not shown: the main *)
(* loop publishes only for documents of the index, and the client has those  *)
(* open.                                                                    *)
THEOREM ClosedStaysBlank == Spec => NoLateResurrection
<1>1. TypeOK /\ [Next]_vars =>
        [\A u \in Uris :
           u \notin clientOpen' /\ shown[u] = Blank => shown'[u] = Blank]_vars
  <2> SUFFICES ASSUME TypeOK, [Next]_vars, NEW u \in Uris,
                      u \notin clientOpen', shown[u] = Blank
               PROVE  shown'[u] = Blank
    OBVIOUS
  <2>1. CASE ~Publish
    BY <2>1, OnlyPublishShows
  <2>2. CASE Publish
    <3>1. /\ Head(channel).uri \in open
          /\ \E s : shown' = [shown EXCEPT ![Head(channel).uri] = s]
          /\ clientOpen' = clientOpen
      BY <2>2 DEF Publish, Current, TakeResult, documentVars
    <3> QED
      BY <3>1 DEF TypeOK
  <2> QED
    BY <2>1, <2>2
<1> QED
  BY <1>1, PipelineTypeCorrect, PTL DEF Spec, NoLateResurrection

-----------------------------------------------------------------------------
(* What of EventuallyCurrent is an invariant: an open document whose          *)
(* diagnostics are not complete and current is cared for, by an entry, an    *)
(* analysis or a result of its present key, unless the environment phase has *)
(* ended.                                                                   *)
Wanted(u) ==
  /\ "environment" \in pending[u].wants
  /\ pending[u].snapshot = Key(u)
  /\ <<u, pending[u].batch>> \notin cancelled

Analysed(u) ==
  LET h == held["environment"]
  IN  /\ thread["environment"] = "working"
      /\ h.uri = u /\ h.snapshot = Key(u) /\ Token(h) \notin cancelled

Sent(u) ==
  LET h == held["environment"]
  IN  /\ thread["environment"] = "sending"
      /\ h.uri = u /\ h.snapshot = Key(u) /\ h.reading = Key(u)

Arrives(r, u) == r.uri = u /\ r.complete /\ r.key = Key(u) /\ r.reading = Key(u)

CaredFor(u) ==
  \/ CompleteAndCurrent(u)
  \/ Wanted(u) \/ Analysed(u) \/ Sent(u)
  \/ \E i \in 1 .. Len(channel) : Arrives(channel[i], u)
  \/ thread["environment"] = "ended"

(* No step but a change of the workspace folders leaves an open document      *)
(* uncared for: not an edit or a bump while its analysis runs, not a close   *)
(* of another document, not a result that is dropped.                       *)
OnlyFoldersForget ==
  [][\A u \in open' :
       (u \in open => CaredFor(u)) =>
         CaredFor(u)' \/ \E D \in SUBSET Uris : DidChangeWorkspace(D)]_vars

(* And what they forget the periodic refresh makes good for.                 *)
RefreshMakesGood == ticked = events => \A u \in open : CaredFor(u)

(* Batches grow, so a new entry's token is live.                             *)
BatchBound ==
  /\ \A u \in Uris : current[u] <= batch
  /\ cancelled \subseteq Uris \X (0 .. batch)

LEMMA UpdateBound ==
  ASSUME TypeOK, BatchBound, NEW U \in SUBSET Uris, NEW C \in SUBSET Uris, NEW snapshot,
         UpdateQueue(U, C, snapshot)
  PROVE  BatchBound'
<1>1. batch \in Nat /\ current \in [Uris -> Nat]
  BY DEF TypeOK, WorkerTypeOK
<1>2. KeptTokens(U \cup C) \subseteq Uris \X (0 .. batch)
  BY <1>1 DEF KeptTokens, BatchBound
<1>3. batch' \in Nat /\ batch <= batch' /\ (U # {} => batch' = batch + 1)
  BY <1>1 DEF UpdateQueue
<1>4. 0 .. batch \subseteq 0 .. batch'
  BY <1>1, <1>3
<1>5. cancelled' \subseteq Uris \X (0 .. batch')
  <2>1. cancelled' \subseteq Uris \X (0 .. batch)
    BY <1>2 DEF UpdateQueue, BatchBound
  <2> QED
    BY <1>4, <2>1
<1>6. ASSUME NEW u \in Uris PROVE current'[u] <= batch'
  BY <1>1, <1>3 DEF UpdateQueue, BatchBound
<1> QED
  BY <1>5, <1>6 DEF BatchBound

LEMMA BoundStep ==
  ASSUME TypeOK, BatchBound, [Next]_vars
  PROVE  BatchBound'
<1>1. CASE SessionStep
  <2>1. Rescheduled \/ UNCHANGED workerVars
    BY <1>1, SessionSteps DEF SessionEvent
  <2> QED
    BY <2>1, UpdateBound DEF Rescheduled, workerVars, queueVars, BatchBound
<1>2. CASE UNCHANGED <<current, cancelled, batch>>
  BY <1>2 DEF BatchBound
<1> QED
  BY <1>1, <1>2, StepCases
  DEF DropResult, Publish, TakeResult, Pass, NotifyAll, Take, Wait, Doze, Timeout,
      SpuriousWakeup, Abandon, Send, End, Finish, Ripen, queueVars, workerVars, vars

LEMMA BoundInvariant == Spec => []BatchBound
<1>1. Init => BatchBound
  BY DEF Init, WorkerInit, BatchBound
<1> QED
  BY <1>1, BoundStep, PipelineTypeCorrect, PTL DEF Spec

(* schedule_all_diagnostics gives every open document an entry of its key.    *)
LEMMA ScheduledIsWanted ==
  ASSUME TypeOK, BatchBound, open' \in SUBSET Uris, NEW C \in SUBSET Uris, ScheduleAll(C),
         NEW u \in open'
  PROVE  CaredFor(u)'
<1>1. UpdateQueue(open', C, [v \in Uris |-> Key(v)'])
  BY DEF ScheduleAll
<1>2. /\ batch \in Nat /\ u \in Uris
      /\ cancelled' = cancelled \cup KeptTokens(open' \cup C)
  BY <1>1 DEF UpdateQueue, TypeOK, WorkerTypeOK
<1>3. KeptTokens(open' \cup C) \subseteq Uris \X (0 .. batch)
  BY DEF KeptTokens, BatchBound, TypeOK, WorkerTypeOK
<1>4. <<u, batch + 1>> \notin cancelled'
  <2>1. cancelled' \subseteq Uris \X (0 .. batch)
    BY <1>2, <1>3 DEF BatchBound
  <2> QED
    BY <1>2, <2>1
<1>5. pending'[u] = [batch |-> batch + 1, snapshot |-> Key(u)', wants |-> Phases, ripe |-> FALSE]
  BY <1>1, <1>2 DEF UpdateQueue
<1>6. Wanted(u)'
  BY <1>4, <1>5 DEF Wanted, Phases
<1> QED
  BY <1>6 DEF CaredFor

(* Handlers that schedule, by what they leave to the others.                 *)
LEMMA SchedulingCares ==
  ASSUME TypeOK, BatchBound, NEW u \in open',
         \/ \E v \in Uris, x \in Texts : DidOpen(v, x) \/ DidChange(v, x)
         \/ \E v \in Uris : DidClose(v)
         \/ EnvironmentTick \/ RefreshTick
         \/ SelectEnvironment \/ DidChangeConfiguration \/ DidChangeWatchedFiles
         \/ ShellSession
  PROVE  CaredFor(u)'
<1>1. open' \in SUBSET Uris
  <2>1. SessionStep
    BY DEF SessionStep
  <2> QED
    BY <2>1, SessionSteps DEF SessionEvent
<1>2. \E C \in SUBSET Uris : ScheduleAll(C)
  BY DEF DidOpen, DidChange, DidClose, EnvironmentTick, RefreshTick, Refresh, SelectEnvironment,
         DidChangeConfiguration, DidChangeWatchedFiles, InvalidateAll, ShellSession
<1> QED
  BY <1>1, <1>2, ScheduledIsWanted

(* A document whose state, entry and results a step leaves alone stays cared  *)
(* for, if the step cancels none of its tokens.                             *)
LEMMA LeftAloneCares ==
  ASSUME TypeOK, NEW u \in Uris, CaredFor(u),
         Key(u)' = Key(u), u \in open => u \in open',
         shown'[u] = shown[u], pending'[u] = pending[u],
         thread'["environment"] = thread["environment"],
         held'["environment"] = held["environment"],
         channel' = channel,
         \A b \in Nat : <<u, b>> \in cancelled' => <<u, b>> \in cancelled
  PROVE  CaredFor(u)'
<1>1. CASE CompleteAndCurrent(u)
  BY <1>1 DEF CompleteAndCurrent, CaredFor
<1>2. CASE Wanted(u)
  <2>1. pending[u].batch \in Nat
    BY DEF TypeOK, WorkerTypeOK, Entries
  <2> QED
    BY <1>2, <2>1 DEF Wanted, CaredFor
<1>3. CASE Analysed(u)
  <2>1. held["environment"].batch \in Nat
    BY <1>3 DEF TypeOK, WorkerTypeOK, Tasks, Analysed, Phases
  <2> QED
    BY <1>3, <2>1 DEF Analysed, CaredFor, Token
<1>4. CASE Sent(u) \/ thread["environment"] = "ended"
  BY <1>4 DEF Sent, CaredFor
<1>5. CASE \E i \in 1 .. Len(channel) : Arrives(channel[i], u)
  BY <1>5 DEF Arrives, CaredFor
<1> QED
  BY <1>1, <1>2, <1>3, <1>4, <1>5 DEF CaredFor

LEMMA SessionCares ==
  ASSUME TypeOK, BatchBound, SessionStep, NEW u \in open', u \in open => CaredFor(u)
  PROVE  CaredFor(u)' \/ \E D \in SUBSET Uris : DidChangeWorkspace(D)
<1>1. ASSUME NEW v \in Uris, RejectClose(v)
      PROVE  CaredFor(u)'
  <2>1. /\ u \in open /\ u # v /\ u \in Uris /\ open' = open
        /\ Key(u)' = Key(u) /\ shown' = shown
    BY <1>1 DEF RejectClose, epochVars, Key, TypeOK
  <2>2. /\ UNCHANGED <<thread, held, channel>>
        /\ pending'[u] = pending[u]
        /\ cancelled' = cancelled \cup KeptTokens({v})
    BY <1>1, <2>1 DEF RejectClose, UpdateQueue
  <2>3. \A b \in Nat : <<u, b>> \notin KeptTokens({v})
    BY <2>1 DEF KeptTokens
  <2> QED
    BY <2>1, <2>2, <2>3, LeftAloneCares
<1>2. ASSUME UNCHANGED vars
      PROVE  CaredFor(u)'
  BY <1>2, LeftAloneCares DEF vars, workerVars, queueVars, documentVars, epochVars, editorVars,
     Key, TypeOK
<1> QED
  BY <1>1, <1>2, SchedulingCares DEF SessionStep, RejectChange

(* Taking an entry, for either phase, and what its analysis comes to.         *)
LEMMA TakeCares ==
  ASSUME TypeOK, NEW p \in Phases, NEW v \in Uris, Pass(Take(p, v)),
         NEW u \in Uris, CaredFor(u)
  PROVE  CaredFor(u)'
<1>1. /\ UNCHANGED <<channel, cancelled, open, text, shown, settings, workspace, environment>>
      /\ thread[p] = "check" /\ p \in pending[v].wants
      /\ pending' = [pending EXCEPT ![v] = Taken(@, p)]
      /\ thread' = [thread EXCEPT ![p] = "working"]
      /\ held' = [held EXCEPT ![p] = [uri |-> v, batch |-> pending[v].batch,
                                      snapshot |-> pending[v].snapshot]]
  BY DEF Pass, Take, Keep, Oldest, Wanting, documentVars, epochVars, editorVars
<1>2. Key(u)' = Key(u)
  BY <1>1 DEF Key
<1>3. CASE Wanted(u)
  <2>1. CASE u = v /\ p = "environment"
    <3>1. /\ thread'["environment"] = "working"
          /\ held'["environment"] = [uri |-> u, batch |-> pending[u].batch,
                                     snapshot |-> pending[u].snapshot]
      BY <1>1, <2>1 DEF TypeOK, WorkerTypeOK
    <3>2. Analysed(u)'
      BY <1>1, <1>2, <1>3, <3>1 DEF Wanted, Analysed, Token
    <3> QED
      BY <3>2 DEF CaredFor
  <2>2. CASE ~(u = v /\ p = "environment")
    <3>1. /\ "environment" \in pending'[u].wants
          /\ pending'[u].batch = pending[u].batch /\ pending'[u].snapshot = pending[u].snapshot
      <4>1. pending[v] \in Entries(Keys) /\ pending \in [Uris -> Entries(Keys)]
        BY DEF TypeOK, WorkerTypeOK
      <4>2. CASE u # v
        BY <1>1, <1>3, <4>1, <4>2 DEF Wanted
      <4>3. CASE u = v
        <5>1. "environment" \in Taken(pending[v], p).wants
          BY <1>3, <2>2, <4>1, <4>3, TakenType DEF Wanted
        <5>2. /\ Taken(pending[v], p).batch = pending[v].batch
              /\ Taken(pending[v], p).snapshot = pending[v].snapshot
          BY <4>1, <5>1, TakenType
        <5>3. pending'[u] = Taken(pending[v], p)
          BY <1>1, <4>1, <4>3
        <5> QED
          BY <4>3, <5>1, <5>2, <5>3
      <4> QED
        BY <4>2, <4>3
    <3>2. Wanted(u)'
      BY <1>1, <1>2, <1>3, <3>1 DEF Wanted
    <3> QED
      BY <3>2 DEF CaredFor
  <2> QED
    BY <2>1, <2>2
<1>4. CASE Analysed(u) \/ Sent(u) \/ thread["environment"] = "ended"
  <2>1. thread'["environment"] = thread["environment"] /\ held'["environment"] = held["environment"]
    BY <1>1, <1>4 DEF Analysed, Sent, TypeOK, WorkerTypeOK
  <2> QED
    BY <1>1, <1>2, <1>4, <2>1 DEF Analysed, Sent, CaredFor
<1>5. CASE CompleteAndCurrent(u) \/ \E i \in 1 .. Len(channel) : Arrives(channel[i], u)
  BY <1>1, <1>2, <1>5 DEF CompleteAndCurrent, Arrives, CaredFor
<1> QED
  BY <1>3, <1>4, <1>5 DEF CaredFor

LEMMA FinishCares ==
  ASSUME TypeOK, NEW p \in Phases, Pass(Finish(p, Reading(p))), NEW u \in Uris, CaredFor(u)
  PROVE  CaredFor(u)'
<1>1. /\ UNCHANGED <<pending, channel, cancelled, open, text, shown, settings, workspace, environment>>
      /\ thread[p] = "working"
      /\ thread' = [thread EXCEPT ![p] = "sending"]
      /\ held' = [held EXCEPT ![p] = [uri |-> held[p].uri, batch |-> held[p].batch,
                      snapshot |-> held[p].snapshot, reading |-> Reading(p)]]
  BY DEF Pass, Finish, Keep, queueVars, documentVars, epochVars, editorVars
<1>2. Key(u)' = Key(u)
  BY <1>1 DEF Key
<1>3. CASE p = "environment" /\ Analysed(u)
  <2>1. /\ thread'["environment"] = "sending"
        /\ held'["environment"].uri = u /\ held'["environment"].snapshot = Key(u)
        /\ held'["environment"].reading = Reading("environment")
    BY <1>1, <1>3 DEF Analysed, TypeOK, WorkerTypeOK
  <2>2. Reading("environment") = Key(u)
    BY <1>3 DEF Analysed, Reading, Key
  <2>3. Sent(u)'
    BY <1>2, <2>1, <2>2 DEF Sent
  <2> QED
    BY <2>3 DEF CaredFor
<1>4. CASE p # "environment" \/ ~Analysed(u)
  <2>1. p # "environment" => /\ thread'["environment"] = thread["environment"]
                             /\ held'["environment"] = held["environment"]
    BY <1>1 DEF TypeOK, WorkerTypeOK
  <2>2. p = "environment" => ~Analysed(u) /\ ~Sent(u) /\ thread["environment"] # "ended"
    BY <1>1, <1>4 DEF Sent
  <2> QED
    BY <1>1, <1>2, <2>1, <2>2
    DEF CaredFor, CompleteAndCurrent, Wanted, Analysed, Sent, Arrives
<1> QED
  BY <1>3, <1>4

LEMMA SendCares ==
  ASSUME TypeOK, NEW p \in Phases, Pass(Send(p)), NEW u \in Uris, CaredFor(u)
  PROVE  CaredFor(u)'
<1> DEFINE r == Result(p)
<1>1. /\ UNCHANGED <<pending, cancelled, open, text, shown, settings, workspace, environment>>
      /\ thread[p] = "sending" /\ channel' = Append(channel, r)
      /\ p # "environment" => /\ thread'["environment"] = thread["environment"]
                              /\ held'["environment"] = held["environment"]
  BY DEF Pass, Send, Keep, queueVars, documentVars, epochVars, editorVars, TypeOK, WorkerTypeOK
<1>2. Key(u)' = Key(u)
  BY <1>1 DEF Key
<1>3. channel \in Seq(Results(Keys, Keys)) /\ r \in Results(Keys, Keys)
  <2>1. held[p] \in Outcomes(Keys, Keys)
    BY <1>1 DEF TypeOK, WorkerTypeOK
  <2> QED
    BY <2>1 DEF Result, Results, Outcomes, TypeOK, WorkerTypeOK
<1>4. CASE p = "environment" /\ Sent(u)
  <2>1. Arrives(r, u)
    BY <1>4 DEF Sent, Result, Arrives
  <2> HIDE DEF r
  <2>2. Len(channel') \in 1 .. Len(channel') /\ channel'[Len(channel')] = r
    BY <1>1, <1>3
  <2>3. Arrives(channel[Len(channel)], u)'
    BY <1>2, <2>1, <2>2 DEF Arrives
  <2> QED
    BY <2>2, <2>3 DEF CaredFor
<1>5. CASE \E i \in 1 .. Len(channel) : Arrives(channel[i], u)
  <2>1. PICK i \in 1 .. Len(channel) : Arrives(channel[i], u)
    BY <1>5
  <2> HIDE DEF r
  <2>2. i \in 1 .. Len(channel') /\ channel'[i] = channel[i]
    BY <1>1, <1>3
  <2>3. Arrives(channel[i], u)'
    BY <1>2, <2>1, <2>2 DEF Arrives
  <2> QED
    BY <2>2, <2>3 DEF CaredFor
<1>6. CASE CompleteAndCurrent(u) \/ Wanted(u)
  BY <1>1, <1>2, <1>6 DEF CompleteAndCurrent, Wanted, CaredFor
<1>7. CASE /\ p # "environment"
           /\ Analysed(u) \/ Sent(u) \/ thread["environment"] = "ended"
  BY <1>1, <1>2, <1>7 DEF Analysed, Sent, CaredFor
<1> QED
  BY <1>1, <1>4, <1>5, <1>6, <1>7 DEF CaredFor, Analysed

(* A thread waits, gives up a cancelled analysis, or ends.                    *)
LEMMA IdleCares ==
  ASSUME TypeOK, NEW p \in Phases, NEW u \in Uris, CaredFor(u),
         Pass(Wait(p) \/ Doze(p) \/ Timeout(p) \/ SpuriousWakeup(p) \/ Abandon(p) \/ End(p))
  PROVE  CaredFor(u)'
<1>1. UNCHANGED <<pending, channel, cancelled, open, text, shown, settings, workspace, environment>>
  BY DEF Pass, Wait, Doze, Timeout, SpuriousWakeup, Abandon, End, queueVars,
         documentVars, epochVars, editorVars
<1>2. Key(u)' = Key(u)
  BY <1>1 DEF Key
<1>3. CASE Analysed(u) \/ Sent(u) \/ thread["environment"] = "ended"
  <2>1. \/ /\ thread'["environment"] = thread["environment"]
           /\ held'["environment"] = held["environment"]
        \/ thread'["environment"] = "ended"
    <3>1. /\ thread' = [thread EXCEPT ![p] = thread'[p]]
          /\ held' = [held EXCEPT ![p] = held'[p]]
      BY DEF Pass, Wait, Doze, Timeout, SpuriousWakeup, Abandon, End, Keep, TypeOK, WorkerTypeOK
    <3>2. CASE p # "environment"
      <4>1. /\ DOMAIN thread = Phases /\ DOMAIN held = Phases
            /\ thread = [q \in Phases |-> thread[q]] /\ held = [q \in Phases |-> held[q]]
            /\ "environment" \in Phases
        BY DEF TypeOK, WorkerTypeOK, Phases
      <4>2. thread'["environment"] = thread["environment"]
        BY <3>1, <3>2, <4>1
      <4>3. held'["environment"] = held["environment"]
        BY <3>1, <3>2, <4>1
      <4> QED
        BY <4>2, <4>3
    <3>3. CASE p = "environment"
      <4>1. ~Wait(p) /\ ~Doze(p) /\ ~Timeout(p) /\ ~SpuriousWakeup(p)
        BY <1>3, <3>3 DEF Wait, Doze, Timeout, SpuriousWakeup, Analysed, Sent
      <4>2. ~Abandon(p)
        BY <1>3, <3>3 DEF Abandon, Analysed, Sent, Token
      <4>3. End(p)
        BY <4>1, <4>2 DEF Pass
      <4> QED
        BY <3>3, <4>3 DEF End, Keep, TypeOK, WorkerTypeOK
    <3> QED
      BY <3>2, <3>3
  <2> QED
    BY <1>1, <1>2, <1>3, <2>1 DEF Analysed, Sent, CaredFor
<1>4. CASE \/ CompleteAndCurrent(u) \/ Wanted(u)
           \/ \E i \in 1 .. Len(channel) : Arrives(channel[i], u)
  BY <1>1, <1>2, <1>4 DEF CompleteAndCurrent, Wanted, Arrives, CaredFor
<1> QED
  BY <1>3, <1>4 DEF CaredFor

(* The result that carries the diagnostics is not dropped: it is complete, so *)
(* nothing supersedes it, and of the present key, so it is published.        *)
LEMMA ResultCares ==
  ASSUME TypeOK, FreshInv, RecordInv, [Next]_vars, DropResult \/ Publish,
         NEW u \in open, CaredFor(u)
  PROVE  CaredFor(u)'
<1> DEFINE r == Head(channel)
<1>1. /\ UNCHANGED <<pending, cancelled, thread, held, open, text, settings, workspace, environment>>
      /\ channel # <<>> /\ channel' = Tail(channel)
  BY DEF DropResult, Publish, TakeResult, queueVars, documentVars, epochVars
<1>2. Key(u)' = Key(u) /\ u \in Uris
  BY <1>1 DEF Key, TypeOK
<1>3. channel \in Seq(Results(Keys, Keys))
  BY DEF TypeOK, WorkerTypeOK
<1>4. CASE CompleteAndCurrent(u)
  <2>1. CompleteAndCurrent(u)'
    BY <1>1, <1>2, <1>4, CompleteKept
  <2> QED
    BY <2>1 DEF CaredFor
<1>5. CASE \E i \in 1 .. Len(channel) : Arrives(channel[i], u)
  <2>1. PICK i \in 1 .. Len(channel) : Arrives(channel[i], u)
    BY <1>5
  <2>2. CASE i = 1
    <3>1. r = channel[1]
      BY <1>1, <1>3
    <3>2. r.uri = u /\ r.complete /\ r.key = Key(u) /\ r.reading = Key(u)
      BY <2>1, <2>2, <3>1 DEF Arrives
    <3>3. Current(r) /\ ~Superseded(r)
      BY <3>2 DEF Current, Superseded
    <3>4. shown' = [shown EXCEPT ![r.uri] = [reading |-> r.reading, complete |-> r.complete]]
      BY <3>3 DEF DropResult, Publish
    <3> HIDE DEF r
    <3>5. shown'[u] = [reading |-> Key(u), complete |-> TRUE]
      <4>1. r.complete = TRUE
        BY <1>1, <1>3, <3>1, <3>2 DEF Results
      <4> QED
        BY <1>2, <3>2, <3>4, <4>1 DEF TypeOK
    <3>6. shown'[u] # Blank
      <4>1. DOMAIN shown'[u] = {"reading", "complete"} /\ DOMAIN Blank = {"blank"}
        BY <3>5 DEF Blank
      <4> QED
        BY <4>1
    <3>7. CompleteAndCurrent(u)'
      BY <1>1, <1>2, <3>5, <3>6 DEF CompleteAndCurrent
    <3> QED
      BY <3>7 DEF CaredFor
  <2>3. CASE i # 1
    <3>1. i - 1 \in 1 .. Len(channel') /\ channel'[i - 1] = channel[i]
      BY <1>1, <1>3, <2>3
    <3>2. Arrives(channel[i - 1], u)'
      BY <1>2, <2>1, <3>1 DEF Arrives
    <3> QED
      BY <3>1, <3>2 DEF CaredFor
  <2> QED
    BY <2>2, <2>3
<1>6. CASE Wanted(u) \/ Analysed(u) \/ Sent(u) \/ thread["environment"] = "ended"
  BY <1>1, <1>2, <1>6 DEF Wanted, Analysed, Sent, CaredFor
<1> QED
  BY <1>4, <1>5, <1>6 DEF CaredFor

LEMMA CareStep ==
  ASSUME TypeOK, FreshInv, RecordInv, BatchBound, [Next]_vars,
         NEW u \in open', u \in open => CaredFor(u)
  PROVE  CaredFor(u)' \/ \E D \in SUBSET Uris : DidChangeWorkspace(D)
<1>1. CASE SessionStep
  BY <1>1, SessionCares
<1>2. CASE ~SessionStep
  <2>1. open' = open
    BY <1>2, StepCases DEF DropResult, Publish, TakeResult, Pass, documentVars, vars
  <2>2. u \in Uris /\ CaredFor(u) /\ u \in open
    BY <2>1 DEF TypeOK
  <2>3. ASSUME NEW v \in Uris, Pass(Ripen(v))
        PROVE  CaredFor(u)'
    <3>1. /\ UNCHANGED <<channel, cancelled, thread, held, open, text, shown,
                         settings, workspace, environment>>
          /\ pending' = [pending EXCEPT ![v].ripe = TRUE]
      BY <2>3 DEF Pass, Ripen, documentVars, epochVars, editorVars
    <3>2. /\ pending'[u].wants = pending[u].wants /\ pending'[u].batch = pending[u].batch
          /\ pending'[u].snapshot = pending[u].snapshot
      BY <2>2, <3>1 DEF TypeOK, WorkerTypeOK, Entries
    <3>3. Key(u)' = Key(u)
      BY <3>1 DEF Key
    <3> QED
      BY <2>2, <3>1, <3>2, <3>3
      DEF CaredFor, CompleteAndCurrent, Wanted, Analysed, Sent, Arrives
  <2>4. CASE Pass(NotifyAll) \/ UNCHANGED vars
    <3>1. /\ UNCHANGED <<pending, channel, cancelled, held, open, text, shown,
                         settings, workspace, environment>>
          /\ thread["environment"] \in {"working", "sending", "ended"} =>
               thread'["environment"] = thread["environment"]
      BY <2>4 DEF Pass, NotifyAll, vars, workerVars, queueVars, documentVars, epochVars,
                  editorVars, Phases
    <3>2. Key(u)' = Key(u)
      BY <3>1 DEF Key
    <3> QED
      BY <2>2, <3>1, <3>2
      DEF CaredFor, CompleteAndCurrent, Wanted, Analysed, Sent, Arrives
  <2> QED
    BY <1>2, <2>2, <2>3, <2>4, StepCases, ResultCares, TakeCares, FinishCares, SendCares,
       IdleCares DEF Pass
<1> QED
  BY <1>1, <1>2

(* The kernel of the liveness property, step by step: once cared for, an open *)
(* document stays so through every handler, thread and result.               *)
THEOREM CareIsKept == Spec => OnlyFoldersForget
<1>1. TypeOK /\ FreshInv /\ RecordInv /\ BatchBound /\ [Next]_vars
        => [\A u \in open' :
              (u \in open => CaredFor(u)) =>
                CaredFor(u)' \/ \E D \in SUBSET Uris : DidChangeWorkspace(D)]_vars
  BY CareStep
<1> QED
  BY <1>1, BoundInvariant, RecordInvariant, FreshInvariant, PipelineTypeCorrect, PTL
  DEF Spec, OnlyFoldersForget

(* Of a change of the workspace folders, which schedules nothing, the next    *)
(* periodic refresh takes care.                                             *)
THEOREM RefreshCaresForAll == Spec => []RefreshMakesGood
<1>1. Init => RefreshMakesGood
  BY DEF Init, RefreshMakesGood
<1>2. TypeOK /\ FreshInv /\ RecordInv /\ BatchBound /\ RefreshMakesGood /\ [Next]_vars
        => RefreshMakesGood'
  <2> SUFFICES ASSUME TypeOK, FreshInv, RecordInv, BatchBound, RefreshMakesGood, [Next]_vars,
                      ticked' = events', NEW u \in open'
               PROVE  CaredFor(u)'
    BY DEF RefreshMakesGood
  <2>1. CASE RefreshTick
    BY <2>1, SchedulingCares
  <2>2. CASE ~RefreshTick
    <3>1. ticked \in Nat /\ events \in Nat /\ ticked <= events
      BY PipelineAssumption DEF TypeOK
    <3>2. ~NewEvent
      BY <3>1 DEF NewEvent
    <3>3. UNCHANGED boundVars /\ UNCHANGED open
      BY <2>2, <3>2, StepCases
      DEF SessionStep, DidOpen, DidChange, RejectChange, DidClose, RejectClose, EnvironmentTick,
          SelectEnvironment, DidChangeConfiguration, DidChangeWatchedFiles, ShellSession,
          DidChangeWorkspace, DropResult, Publish, TakeResult, Pass, documentVars, vars
    <3>4. CaredFor(u)
      BY <3>3 DEF boundVars, RefreshMakesGood
    <3>5. ~\E D \in SUBSET Uris : DidChangeWorkspace(D)
      BY <3>2 DEF DidChangeWorkspace
    <3> QED
      BY <3>4, <3>5, CareStep
  <2> QED
    BY <2>1, <2>2
<1> QED
  BY <1>1, <1>2, BoundInvariant, RecordInvariant, FreshInvariant, PipelineTypeCorrect, PTL DEF Spec
=============================================================================
