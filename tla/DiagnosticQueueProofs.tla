------------------------- MODULE DiagnosticQueueProofs -------------------------
(***************************************************************************)
(* DiagnosticQueue for every set of documents and every bound: types, no    *)
(* lost wakeup, tokens that tell the truth, no snapshot forgotten, and the  *)
(* implementation of DiagnosticMailbox.                                     *)
(***************************************************************************)
EXTENDS DiagnosticQueue, TLAPS

(* The steps, by name, for the case splits below.                           *)
LEMMA StepCases ==
  ASSUME [Next]_vars
  PROVE  \/ SessionUpdates /\ UNCHANGED finished
         \/ NotifyAll /\ UNCHANGED finished
         \/ Stop /\ UNCHANGED finished
         \/ Receive /\ UNCHANGED finished
         \/ \E p \in Phases, u \in Uris : Take(p, u) /\ UNCHANGED finished
         \/ \E p \in Phases :
              (Wait(p) \/ Doze(p) \/ Timeout(p) \/ SpuriousWakeup(p)) /\ UNCHANGED finished
         \/ \E p \in Phases : Abandon(p) /\ UNCHANGED finished
         \/ \E p \in Phases : Send(p) /\ UNCHANGED finished
         \/ \E p \in Phases : End(p) /\ UNCHANGED finished
         \/ \E u \in Uris : Ripen(u) /\ UNCHANGED finished
         \/ \E p \in Phases : FinishWork(p)
         \/ UNCHANGED vars
BY DEF Next, Other, ThreadStep, QueueStep

(* Updating the queue, with the parameters of the session named.            *)
LEMMA UpdateCases ==
  ASSUME SessionUpdates
  PROVE  \E U, C \in SUBSET Uris : UpdateQueue(U, C, [u \in Uris |-> Payload])
BY DEF SessionUpdates

(* What is left of an entry one phase has taken.                             *)
LEMMA TakenType ==
  ASSUME NEW S, NEW entry \in Entries(S), NEW p \in Phases
  PROVE  /\ Taken(entry, p) \in Entries(S)
         /\ Taken(entry, p).wants = entry.wants \ {p}
         /\ Taken(entry, p).wants # {} => Taken(entry, p).batch = entry.batch
<1>1. CASE entry.wants = {p}
  BY <1>1 DEF Taken, NoEntry, Entries
<1>2. CASE entry.wants # {p}
  BY <1>2 DEF Taken, Entries
<1> QED
  BY <1>1, <1>2

(* One value stands for every snapshot and every reading, so of an entry     *)
(* only the batch, the phases and the flag have to be followed.              *)
LEMMA PayloadOnly ==
  /\ NoEntry \in Entries({Payload}) /\ NoEntry.wants = {}
  /\ \A e \in Entries({Payload}) : e.snapshot = Payload
BY DEF NoEntry, Entries, Payload

LEMMA EmptyChannel == \A T : <<>> \in Seq(T)
OBVIOUS

(* What a send appends and a receive removes keeps the type of the channel.  *)
LEMMA ChannelTypes ==
  ASSUME NEW T, NEW c \in Seq(T), NEW r \in T
  PROVE  Append(c, r) \in Seq(T) /\ (c # <<>> => Tail(c) \in Seq(T))
OBVIOUS

(* The type invariant is inductive on its own. *)
THEOREM QueueTypeCorrect == Spec => []TypeOK
<1>1. Init => TypeOK
  <2> SUFFICES ASSUME Init PROVE TypeOK
    OBVIOUS
  <2>1. channel \in Seq(Results({Payload}, {Payload}))
    BY EmptyChannel DEF Init, WorkerInit
  <2>2. /\ pending \in [Uris -> Entries({Payload})]
        /\ \A u \in Uris : pending[u].wants = {}
    BY PayloadOnly DEF Init, WorkerInit
  <2>3. /\ thread \in [Phases -> {"check"}]
        /\ held \in [Phases -> {NothingHeld}]
        /\ current \in [Uris -> Nat] /\ finished \in [Phases -> [Uris -> Nat]]
        /\ cancelled = {} /\ batch \in Nat /\ notify \in BOOLEAN /\ stopped \in BOOLEAN
    BY DEF Init, WorkerInit
  <2> QED
    BY <2>1, <2>2, <2>3 DEF TypeOK, WorkerTypeOK
<1>2. TypeOK /\ [Next]_vars => TypeOK'
  <2> SUFFICES ASSUME TypeOK, [Next]_vars PROVE TypeOK'
    OBVIOUS
  <2> USE DEF TypeOK, WorkerTypeOK
  <2>1. CASE SessionUpdates /\ UNCHANGED finished
    <3>1. PICK U \in SUBSET Uris, C \in SUBSET Uris :
            UpdateQueue(U, C, [u \in Uris |-> Payload])
      BY <2>1, UpdateCases
    <3>2. [batch |-> batch + 1, snapshot |-> Payload, wants |-> Phases, ripe |-> FALSE]
            \in Entries({Payload})
      BY DEF Entries
    <3>3. pending' \in [Uris -> Entries({Payload})]
      BY <3>1, <3>2, PayloadOnly DEF UpdateQueue
    <3>4. KeptTokens(U \cup C) \subseteq Uris \X Nat
      BY DEF KeptTokens
    <3>5. batch' \in Nat /\ current' \in [Uris -> Nat] /\ notify' \in BOOLEAN
      BY <3>1 DEF UpdateQueue
    <3> QED
      BY <2>1, <3>1, <3>3, <3>4, <3>5, PayloadOnly DEF UpdateQueue
  <2>2. CASE NotifyAll /\ UNCHANGED finished
    BY <2>2 DEF NotifyAll, queueVars
  <2>3. CASE Stop /\ UNCHANGED finished
    <3>1. KeptTokens(Uris) \subseteq Uris \X Nat
      BY DEF KeptTokens
    <3>2. channel' \in Seq(Results({Payload}, {Payload}))
      BY <2>3, EmptyChannel DEF Stop
    <3> QED
      BY <2>3, <3>1, <3>2 DEF Stop
  <2>4. CASE Receive /\ UNCHANGED finished
    <3>1. channel' \in Seq(Results({Payload}, {Payload}))
      BY <2>4, ChannelTypes DEF Receive
    <3> QED
      BY <2>4, <3>1 DEF Receive, queueVars
  <2>5. ASSUME NEW p \in Phases, NEW u \in Uris, Take(p, u), UNCHANGED finished PROVE TypeOK'
    <3> DEFINE h == [uri |-> u, batch |-> pending[u].batch, snapshot |-> pending[u].snapshot]
    <3>1. h \in Tasks({Payload})
      BY PayloadOnly DEF Tasks, Entries
    <3>2. pending' \in [Uris -> Entries({Payload})]
      BY <2>5, TakenType DEF Take
    <3>3. thread' = [thread EXCEPT ![p] = "working"] /\ held' = [held EXCEPT ![p] = h]
      BY <2>5 DEF Take, Keep
    <3> HIDE DEF h
    <3> QED
      BY <2>5, <3>1, <3>2, <3>3, PayloadOnly DEF Take
  <2>6. ASSUME NEW p \in Phases, Wait(p) \/ Doze(p) \/ Timeout(p) \/ SpuriousWakeup(p),
               UNCHANGED finished
        PROVE  TypeOK'
    BY <2>6 DEF Wait, Doze, Timeout, SpuriousWakeup, queueVars
  <2>7. ASSUME NEW p \in Phases, Abandon(p) \/ End(p), UNCHANGED finished PROVE TypeOK'
    BY <2>7 DEF Abandon, End, Keep, queueVars
  <2>8. ASSUME NEW p \in Phases, Send(p), UNCHANGED finished PROVE TypeOK'
    <3>1. Result(p) \in Results({Payload}, {Payload})
      BY <2>8 DEF Send, Result, Results, Outcomes
    <3>2. channel' \in Seq(Results({Payload}, {Payload}))
      BY <2>8, <3>1, ChannelTypes DEF Send
    <3> QED
      BY <2>8, <3>2 DEF Send, Keep, queueVars
  <2>9. ASSUME NEW p \in Phases, FinishWork(p) PROVE TypeOK'
    <3>1. held[p].uri \in Uris /\ held[p].batch \in Nat
      BY <2>9 DEF FinishWork, Finish, Tasks
    <3>2. [uri |-> held[p].uri, batch |-> held[p].batch, snapshot |-> held[p].snapshot,
           reading |-> Payload] \in Outcomes({Payload}, {Payload})
      BY <2>9 DEF FinishWork, Finish, Tasks, Outcomes
    <3>3. finished' \in [Phases -> [Uris -> Nat]]
      BY <2>9, <3>1 DEF FinishWork
    <3> QED
      BY <2>9, <3>2, <3>3 DEF FinishWork, Finish, Keep, queueVars
  <2>10. ASSUME NEW u \in Uris, Ripen(u), UNCHANGED finished PROVE TypeOK'
    <3>1. pending' \in [Uris -> Entries({Payload})]
      BY <2>10 DEF Ripen, Entries
    <3> QED
      BY <2>10, <3>1, PayloadOnly DEF Ripen
  <2>11. CASE UNCHANGED vars
    BY <2>11 DEF vars, workerVars, queueVars
  <2> QED
    BY <2>1, <2>2, <2>3, <2>4, <2>5, <2>6, <2>7, <2>8, <2>9, <2>10, <2>11, StepCases
<1> QED
  BY <1>1, <1>2, PTL DEF Spec

(* No wakeup is lost between a thread's look at the queue and its wait.      *)
THEOREM WakeupsArrive == Spec => []NoLostWakeup
<1>1. Init => NoLostWakeup
  BY DEF Init, WorkerInit, NoLostWakeup
<1>2. TypeOK /\ NoLostWakeup /\ [Next]_vars => NoLostWakeup'
  <2> SUFFICES ASSUME TypeOK, NoLostWakeup, [Next]_vars,
                      ~notify', NEW p \in Phases, thread'[p] = "waiting",
                      NEW u \in Uris, p \in pending'[u].wants
               PROVE  FALSE
    BY DEF NoLostWakeup, Wanting
  <2>1. ASSUME ~notify, thread[p] = "waiting", p \in pending[u].wants PROVE FALSE
    BY <2>1 DEF NoLostWakeup, Wanting
  <2> USE DEF TypeOK, WorkerTypeOK
  <2>2. ~SessionUpdates
    <3> SUFFICES ASSUME SessionUpdates PROVE FALSE
      OBVIOUS
    <3>1. PICK U \in SUBSET Uris, C \in SUBSET Uris :
            UpdateQueue(U, C, [v \in Uris |-> Payload])
      BY UpdateCases
    <3>2. U = {}
      BY <3>1 DEF UpdateQueue
    <3>3. pending'[u].wants \subseteq pending[u].wants
      BY <3>1, <3>2 DEF UpdateQueue, NoEntry
    <3> QED
      BY <2>1, <3>1, <3>3 DEF UpdateQueue
  <2>3. ~NotifyAll /\ ~Stop
    BY DEF NotifyAll, Stop
  <2>4. ~Receive
    BY <2>1 DEF Receive, queueVars
  <2>5. ASSUME NEW q \in Phases, NEW v \in Uris, Take(q, v) PROVE FALSE
    <3>1. pending'[u].wants \subseteq pending[u].wants
      BY <2>5, TakenType DEF Take
    <3>2. thread[p] = "waiting" /\ ~notify
      BY <2>5 DEF Take, Keep
    <3> QED
      BY <2>1, <3>1, <3>2
  <2>6. ASSUME NEW q \in Phases, Wait(q) \/ Doze(q) \/ Timeout(q) \/ SpuriousWakeup(q)
        PROVE  FALSE
    <3>1. UNCHANGED <<pending, notify>> /\ (thread[p] = "waiting" \/ Wanting(p) = {})
      BY <2>6 DEF Wait, Doze, Timeout, SpuriousWakeup, queueVars
    <3> QED
      BY <2>1, <3>1 DEF Wanting
  <2>7. ASSUME NEW q \in Phases, Abandon(q) \/ Send(q) \/ End(q) \/ FinishWork(q)
        PROVE  FALSE
    BY <2>1, <2>7 DEF Abandon, Send, End, FinishWork, Finish, Keep, queueVars
  <2>8. ASSUME NEW v \in Uris, Ripen(v) PROVE FALSE
    <3>1. pending'[u].wants = pending[u].wants
      BY <2>8 DEF Ripen, Entries
    <3> QED
      BY <2>1, <2>8, <3>1 DEF Ripen
  <2>9. CASE UNCHANGED vars
    BY <2>1, <2>9 DEF vars, workerVars, queueVars
  <2> QED
    BY <2>2, <2>3, <2>4, <2>5, <2>6, <2>7, <2>8, <2>9, StepCases
<1> QED
  BY <1>1, <1>2, QueueTypeCorrect, PTL DEF Spec

-----------------------------------------------------------------------------
(* How batches, entries and tokens hang together.  An entry still wanted is   *)
(* of the document's current batch, and has been finished by no phase that   *)
(* wants it; every token of an earlier batch still in use is cancelled, and  *)
(* the current one is not before the drop.                                  *)
EntryInv(u) ==
  /\ current[u] <= batch
  /\ pending[u].wants # {} => pending[u].batch = current[u] /\ current[u] # 0
  /\ <<u, current[u]>> \in cancelled => stopped
  /\ stopped /\ current[u] # 0 => <<u, current[u]>> \in cancelled
FinishedInv(p, u) ==
  /\ finished[p][u] <= batch
  /\ p \in pending[u].wants => finished[p][u] < pending[u].batch
WorkInv(p) ==
  LET h == held[p]
  IN  /\ h.batch \in 1 .. batch
      /\ h.batch # current[h.uri] => Token(h) \in cancelled
      /\ finished[p][h.uri] < h.batch
      /\ p \in pending[h.uri].wants => h.batch < pending[h.uri].batch
BatchInv ==
  /\ cancelled \subseteq Uris \X (1 .. batch)
  /\ \A u \in Uris : EntryInv(u)
  /\ \A p \in Phases, u \in Uris : FinishedInv(p, u)
  /\ \A p \in Phases : thread[p] = "working" => WorkInv(p)

LEMMA BatchInit == Init => BatchInv
BY DEF Init, WorkerInit, BatchInv, EntryInv, FinishedInv, NoEntry, Phases

LEMMA BatchStep == TypeOK /\ BatchInv /\ [Next]_vars => BatchInv'
<1> SUFFICES ASSUME TypeOK, BatchInv, [Next]_vars PROVE BatchInv'
  OBVIOUS
<1>a. /\ cancelled \subseteq Uris \X (1 .. batch)
      /\ \A u \in Uris : EntryInv(u)
      /\ \A p \in Phases, u \in Uris : FinishedInv(p, u)
      /\ \A p \in Phases : thread[p] = "working" => WorkInv(p)
  BY DEF BatchInv
<1>b. /\ batch \in Nat /\ current \in [Uris -> Nat] /\ pending \in [Uris -> Entries({Payload})]
      /\ finished \in [Phases -> [Uris -> Nat]] /\ stopped \in BOOLEAN
      /\ \A p \in Phases : thread[p] = "working" =>
           held[p] \in Tasks({Payload}) /\ held[p].uri \in Uris /\ held[p].batch \in Nat
  BY DEF TypeOK, WorkerTypeOK, Tasks
<1>1. ASSUME SessionUpdates, UNCHANGED finished PROVE BatchInv'
  <2>1. PICK U \in SUBSET Uris, C \in SUBSET Uris :
          UpdateQueue(U, C, [u \in Uris |-> Payload])
    BY <1>1, UpdateCases
  <2>2. /\ batch' \in Nat /\ batch <= batch'
        /\ U # {} => batch' = batch + 1
        /\ UNCHANGED <<thread, held, stopped, finished>> /\ ~stopped
        /\ cancelled' = cancelled \cup KeptTokens(U \cup C)
    BY <1>1, <1>b, <2>1 DEF UpdateQueue
  <2>3. ASSUME NEW u \in Uris
        PROVE  \/ /\ u \in U /\ current'[u] = batch + 1 /\ batch' = batch + 1
                  /\ pending'[u].batch = batch + 1
               \/ /\ u \in C \ U /\ current'[u] = 0 /\ pending'[u].wants = {}
               \/ /\ u \notin U \cup C
                  /\ current'[u] = current[u] /\ pending'[u] = pending[u]
    BY <2>1, <2>2 DEF UpdateQueue, NoEntry
  <2>4. ASSUME NEW u \in Uris, NEW b \in Nat
        PROVE  <<u, b>> \in KeptTokens(U \cup C)
                 <=> u \in U \cup C /\ b = current[u] /\ b # 0
    BY DEF KeptTokens
  <2>5. cancelled' \subseteq Uris \X (1 .. batch)
    <3>1. KeptTokens(U \cup C) \subseteq Uris \X (1 .. batch)
      BY <1>a, <1>b DEF KeptTokens, EntryInv
    <3> QED
      BY <1>a, <2>2, <3>1
  <2>6. ASSUME NEW u \in Uris PROVE EntryInv(u)'
    <3>1. EntryInv(u)
      BY <1>a
    <3>2. <<u, batch + 1>> \notin cancelled' /\ <<u, 0>> \notin cancelled'
      BY <1>b, <2>5
    <3>3. u \notin U \cup C => (<<u, current[u]>> \in cancelled' <=> <<u, current[u]>> \in cancelled)
      BY <1>b, <2>2, <2>4
    <3> QED
      BY <1>b, <2>2, <2>3, <3>1, <3>2, <3>3 DEF EntryInv
  <2>7. ASSUME NEW p \in Phases, NEW u \in Uris PROVE FinishedInv(p, u)'
    <3>1. FinishedInv(p, u)
      BY <1>a
    <3> QED
      BY <1>b, <2>2, <2>3, <3>1 DEF FinishedInv
  <2>8. ASSUME NEW p \in Phases, thread'[p] = "working" PROVE WorkInv(p)'
    <3>1. WorkInv(p) /\ held[p].uri \in Uris /\ held[p].batch \in Nat
      BY <1>a, <1>b, <2>2, <2>8
    <3>2. held[p].batch # current'[held[p].uri] => Token(held[p]) \in cancelled'
      <4> SUFFICES ASSUME held[p].batch # current'[held[p].uri]
                   PROVE  Token(held[p]) \in cancelled'
        OBVIOUS
      <4>1. CASE held[p].batch # current[held[p].uri]
        BY <2>2, <3>1, <4>1 DEF WorkInv
      <4>2. CASE held[p].batch = current[held[p].uri]
        <5>1. held[p].uri \in U \cup C
          BY <2>3, <3>1, <4>2
        <5>2. held[p].batch # 0
          BY <3>1, <1>b DEF WorkInv
        <5>3. Token(held[p]) \in KeptTokens(U \cup C)
          BY <2>4, <3>1, <4>2, <5>1, <5>2 DEF Token
        <5> QED
          BY <2>2, <5>3
      <4> QED
        BY <4>1, <4>2
    <3> QED
      BY <1>b, <2>2, <2>3, <3>1, <3>2 DEF WorkInv, Token
  <2>9. cancelled' \subseteq Uris \X (1 .. batch')
    <3>1. 1 .. batch \subseteq 1 .. batch'
      BY <1>b, <2>2
    <3> QED
      BY <2>5, <3>1
  <2> QED
    BY <2>6, <2>7, <2>8, <2>9 DEF BatchInv
<1>2. ASSUME NotifyAll \/ Receive, UNCHANGED finished PROVE BatchInv'
  <2>1. /\ UNCHANGED <<pending, current, cancelled, batch, held, stopped, finished>>
        /\ \A p \in Phases : thread'[p] = "working" => thread[p] = "working"
    BY <1>2 DEF NotifyAll, Receive, queueVars
  <2> QED
    BY <1>a, <2>1 DEF BatchInv, EntryInv, FinishedInv, WorkInv, Token
<1>3. ASSUME Stop, UNCHANGED finished PROVE BatchInv'
  <2>1. /\ UNCHANGED <<pending, current, batch, held, finished>> /\ stopped'
        /\ cancelled' = cancelled \cup KeptTokens(Uris)
        /\ \A p \in Phases : thread'[p] = "working" => thread[p] = "working"
    BY <1>3 DEF Stop
  <2>2. \A u \in Uris : current[u] # 0 => <<u, current[u]>> \in KeptTokens(Uris)
    BY DEF KeptTokens
  <2>3. KeptTokens(Uris) \subseteq Uris \X (1 .. batch)
    BY <1>a, <1>b DEF KeptTokens, EntryInv
  <2>4. \A u \in Uris : EntryInv(u)'
    BY <1>a, <2>1, <2>2 DEF EntryInv
  <2>5. \A p \in Phases : thread'[p] = "working" => WorkInv(p)'
    BY <1>a, <2>1 DEF WorkInv, Token
  <2> QED
    BY <1>a, <2>1, <2>3, <2>4, <2>5 DEF BatchInv, FinishedInv
<1>4. ASSUME NEW p \in Phases, NEW u \in Uris, Take(p, u), UNCHANGED finished PROVE BatchInv'
  <2> DEFINE h == [uri |-> u, batch |-> pending[u].batch, snapshot |-> pending[u].snapshot]
  <2>1. /\ UNCHANGED <<current, cancelled, batch, stopped, finished>> /\ ~stopped
        /\ pending' = [pending EXCEPT ![u] = Taken(@, p)]
        /\ p \in pending[u].wants
        /\ thread' = [thread EXCEPT ![p] = "working"] /\ held' = [held EXCEPT ![p] = h]
    BY <1>4 DEF Take, Keep, Oldest, Wanting
  <2>2. ASSUME NEW v \in Uris
        PROVE  /\ pending'[v].wants \subseteq pending[v].wants
               /\ pending'[v].wants # {} => pending'[v].batch = pending[v].batch
    BY <1>b, <2>1, TakenType
  <2>3. p \notin pending'[u].wants
    BY <1>b, <2>1, TakenType
  <2>4. ASSUME NEW v \in Uris PROVE EntryInv(v)'
    BY <1>a, <2>1, <2>2 DEF EntryInv
  <2>5. ASSUME NEW q \in Phases, NEW v \in Uris PROVE FinishedInv(q, v)'
    BY <1>a, <2>1, <2>2 DEF FinishedInv
  <2>6. ASSUME NEW q \in Phases, thread'[q] = "working" PROVE WorkInv(q)'
    <3>1. CASE q = p
      <4>1. held'[q] = h /\ h.uri = u /\ h.batch = pending[u].batch
        BY <2>1, <3>1 DEF TypeOK, WorkerTypeOK
      <4>2. h.batch = current[u] /\ current[u] # 0 /\ current[u] <= batch
        BY <1>a, <2>1, <4>1 DEF EntryInv
      <4>3. finished[p][u] < h.batch
        BY <1>a, <2>1, <4>1 DEF FinishedInv
      <4> HIDE DEF h
      <4> QED
        BY <1>b, <2>1, <2>3, <3>1, <4>1, <4>2, <4>3 DEF WorkInv
    <3>2. CASE q # p
      <4>1. thread[q] = "working" /\ held'[q] = held[q] /\ held[q].uri \in Uris
        BY <1>b, <2>1, <2>6, <3>2 DEF TypeOK, WorkerTypeOK
      <4> QED
        BY <1>a, <2>1, <2>2, <4>1 DEF WorkInv, Token
    <3> QED
      BY <3>1, <3>2
  <2> QED
    BY <1>a, <2>1, <2>4, <2>5, <2>6 DEF BatchInv
<1>5. ASSUME NEW p \in Phases,
             \/ Wait(p) \/ Doze(p) \/ Timeout(p) \/ SpuriousWakeup(p)
             \/ Abandon(p) \/ Send(p) \/ End(p),
             UNCHANGED finished
      PROVE  BatchInv'
  <2>1. /\ UNCHANGED <<pending, current, cancelled, batch, stopped, finished>>
        /\ \A q \in Phases : thread'[q] = "working" =>
             thread[q] = "working" /\ held'[q] = held[q]
    BY <1>5 DEF Wait, Doze, Timeout, SpuriousWakeup, Abandon, Send, End, Keep,
       queueVars, TypeOK, WorkerTypeOK
  <2> QED
    BY <1>a, <2>1 DEF BatchInv, EntryInv, FinishedInv, WorkInv, Token
<1>6. ASSUME NEW u \in Uris, Ripen(u), UNCHANGED finished PROVE BatchInv'
  <2>1. /\ UNCHANGED <<current, cancelled, batch, thread, held, stopped, finished>>
        /\ \A v \in Uris : /\ pending'[v].wants = pending[v].wants
                           /\ pending'[v].batch = pending[v].batch
    BY <1>6, <1>b DEF Ripen, Entries
  <2>2. \A p \in Phases : thread'[p] = "working" => WorkInv(p)'
    BY <1>a, <1>b, <2>1 DEF WorkInv, Token
  <2> QED
    BY <1>a, <2>1, <2>2 DEF BatchInv, EntryInv, FinishedInv
<1>7. ASSUME NEW p \in Phases, FinishWork(p) PROVE BatchInv'
  <2>1. /\ UNCHANGED <<pending, current, cancelled, batch, stopped>>
        /\ thread[p] = "working" /\ Token(held[p]) \notin cancelled
        /\ finished' = [finished EXCEPT ![p][held[p].uri] = held[p].batch]
        /\ \A q \in Phases : thread'[q] = "working" =>
             q # p /\ thread[q] = "working" /\ held'[q] = held[q]
    BY <1>7 DEF FinishWork, Finish, Keep,
       queueVars, TypeOK, WorkerTypeOK
  <2>2. WorkInv(p) /\ held[p].uri \in Uris /\ held[p].batch \in Nat
    BY <1>a, <1>b, <2>1
  <2>3. ASSUME NEW q \in Phases, NEW u \in Uris PROVE FinishedInv(q, u)'
    <3>1. FinishedInv(q, u)
      BY <1>a
    <3>2. CASE q = p /\ u = held[p].uri
      <4>1. finished'[q][u] = held[p].batch
        BY <1>b, <2>1, <3>2
      <4> QED
        BY <1>b, <2>1, <2>2, <3>2, <4>1 DEF WorkInv, FinishedInv
    <3>3. CASE ~(q = p /\ u = held[p].uri)
      <4>1. finished'[q][u] = finished[q][u]
        BY <1>b, <2>1, <3>3
      <4> QED
        BY <2>1, <3>1, <4>1 DEF FinishedInv
    <3> QED
      BY <3>2, <3>3
  <2>4. ASSUME NEW q \in Phases, thread'[q] = "working" PROVE WorkInv(q)'
    <3>1. q # p /\ thread[q] = "working" /\ held'[q] = held[q] /\ WorkInv(q)
      BY <1>a, <2>1, <2>4
    <3>2. finished'[q] = finished[q]
      BY <1>b, <2>1, <3>1
    <3> QED
      BY <2>1, <3>1, <3>2 DEF WorkInv, Token
  <2> QED
    BY <1>a, <2>1, <2>3, <2>4 DEF BatchInv, EntryInv
<1>8. CASE UNCHANGED vars
  <2>1. UNCHANGED <<pending, current, cancelled, batch, thread, held, stopped, finished>>
    BY <1>8 DEF vars, workerVars, queueVars
  <2> QED
    BY <1>a, <2>1 DEF BatchInv, EntryInv, FinishedInv, WorkInv, Token
<1> QED
  BY <1>1, <1>2, <1>3, <1>4, <1>5, <1>6, <1>7, <1>8, StepCases

LEMMA BatchInvariant == Spec => []BatchInv
BY BatchInit, BatchStep, QueueTypeCorrect, PTL DEF Spec

LEMMA TokensFromBatches == TypeOK /\ BatchInv => TokensTellTheTruth
<1> SUFFICES ASSUME TypeOK, BatchInv, NEW p \in Phases, thread[p] = "working"
             PROVE  Token(held[p]) \in cancelled <=>
                      stopped \/ current[held[p].uri] # held[p].batch
  BY DEF TokensTellTheTruth
<1>1. held[p].uri \in Uris /\ held[p].batch \in Nat /\ WorkInv(p) /\ EntryInv(held[p].uri)
  BY DEF TypeOK, WorkerTypeOK, Tasks, BatchInv
<1>2. held[p].batch # 0
  BY <1>1 DEF WorkInv
<1> QED
  BY <1>1, <1>2 DEF WorkInv, EntryInv, Token

(* An analysis whose document was rescheduled or closed finds its token       *)
(* cancelled; one that is still wanted never does.                          *)
THEOREM TokensAreRight == Spec => []TokensTellTheTruth
BY TokensFromBatches, BatchInvariant, QueueTypeCorrect, PTL

-----------------------------------------------------------------------------
(* What of LatestGetsAnalysed is an invariant: the latest snapshot of a       *)
(* document is never dropped on the way to a phase that has not ended.       *)
WorksOn(p, u) == thread[p] = "working" /\ held[p].uri = u /\ held[p].batch = current[u]

InHand(p, u) == finished[p][u] = current[u] \/ p \in pending[u].wants \/ WorksOn(p, u)

NothingForgotten ==
  \A p \in Phases, u \in Uris :
    current[u] # 0 => InHand(p, u) \/ stopped \/ thread[p] = "ended"

(* The queue rests only when the work is done: a phase that waits without a  *)
(* timeout, with no notify_all on its way, has analysed the latest snapshot  *)
(* of every document.                                                       *)
RestedIsAnalysed ==
  ~notify /\ ~stopped =>
    \A p \in Phases, u \in Uris :
      thread[p] = "waiting" => current[u] \in {0, finished[p][u]}

LEMMA ForgottenStep ==
  ASSUME TypeOK, BatchInv, NothingForgotten, [Next]_vars
  PROVE  NothingForgotten'
<1> SUFFICES ASSUME NEW p \in Phases, NEW u \in Uris,
                    current'[u] # 0, ~stopped', thread'[p] # "ended"
             PROVE  InHand(p, u)'
  BY DEF NothingForgotten
<1> USE DEF TypeOK, WorkerTypeOK
<1>1. ASSUME current[u] # 0, ~stopped, thread[p] # "ended"
      PROVE  InHand(p, u)
  BY <1>1 DEF NothingForgotten
<1>2. CASE SessionUpdates /\ UNCHANGED finished
  <2>1. PICK U \in SUBSET Uris, C \in SUBSET Uris :
          UpdateQueue(U, C, [v \in Uris |-> Payload])
    BY <1>2, UpdateCases
  <2>2. /\ UNCHANGED <<thread, held, stopped, finished>>
        /\ u \in U => p \in pending'[u].wants
        /\ u \notin U => pending'[u] = pending[u] /\ current'[u] = current[u]
    BY <1>2, <2>1 DEF UpdateQueue
  <2> QED
    BY <1>1, <2>2 DEF InHand, WorksOn
<1>3. CASE (NotifyAll \/ Stop \/ Receive) /\ UNCHANGED finished
  <2>1. /\ NotifyAll \/ Receive
        /\ UNCHANGED <<pending, current, held, stopped, finished>>
        /\ thread[p] = "working" => thread'[p] = "working"
        /\ thread[p] = "ended" => thread'[p] = "ended"
    BY <1>3 DEF NotifyAll, Stop, Receive, queueVars
  <2> QED
    BY <1>1, <2>1 DEF InHand, WorksOn
<1>4. ASSUME NEW q \in Phases, NEW v \in Uris, Take(q, v), UNCHANGED finished
      PROVE  InHand(p, u)'
  <2>1. /\ UNCHANGED <<current, stopped, finished>>
        /\ q \in pending[v].wants /\ thread[q] = "check"
        /\ pending' = [pending EXCEPT ![v] = Taken(@, q)]
        /\ thread' = [thread EXCEPT ![q] = "working"]
        /\ held' = [held EXCEPT ![q] = [uri |-> v, batch |-> pending[v].batch,
                                        snapshot |-> pending[v].snapshot]]
    BY <1>4 DEF Take, Keep, Oldest, Wanting
  <2>2. InHand(p, u)
    BY <1>1, <2>1
  <2>3. CASE p = q /\ u = v
    <3>1. pending[v].batch = current[v]
      BY <2>1 DEF BatchInv, EntryInv
    <3> QED
      BY <2>1, <2>3, <3>1 DEF InHand, WorksOn
  <2>4. CASE ~(p = q /\ u = v)
    <3>1. p \in pending[u].wants => p \in pending'[u].wants
      BY <2>1, <2>4, TakenType
    <3>2. WorksOn(p, u) => WorksOn(p, u)'
      BY <2>1 DEF WorksOn
    <3> QED
      BY <2>1, <2>2, <3>1, <3>2 DEF InHand
  <2> QED
    BY <2>3, <2>4
<1>5. ASSUME NEW q \in Phases,
             Wait(q) \/ Doze(q) \/ Timeout(q) \/ SpuriousWakeup(q) \/ Send(q) \/ End(q),
             UNCHANGED finished
      PROVE  InHand(p, u)'
  <2>1. /\ UNCHANGED <<pending, current, stopped, finished>>
        /\ thread[p] # "ended"
        /\ thread[p] = "working" => thread'[p] = "working" /\ held'[p] = held[p]
    BY <1>5 DEF Wait, Doze, Timeout, SpuriousWakeup, Send, End, Keep, queueVars
  <2> QED
    BY <1>1, <2>1 DEF InHand, WorksOn
<1>6. ASSUME NEW q \in Phases, Abandon(q), UNCHANGED finished
      PROVE  InHand(p, u)'
  <2>1. /\ UNCHANGED <<pending, current, stopped, finished>>
        /\ thread[q] = "working" /\ Token(held[q]) \in cancelled
        /\ p # q => thread'[p] = thread[p] /\ held'[p] = held[p]
        /\ thread[p] # "ended"
    BY <1>6 DEF Abandon, Keep, queueVars
  <2>2. InHand(p, u)
    BY <1>1, <2>1
  <2>3. ~WorksOn(q, u)
    <3>1. held[q].batch # current[held[q].uri]
      BY <2>1, TokensFromBatches DEF TokensTellTheTruth
    <3> QED
      BY <3>1 DEF WorksOn
  <2> QED
    BY <2>1, <2>2, <2>3 DEF InHand, WorksOn
<1>7. ASSUME NEW q \in Phases, FinishWork(q)
      PROVE  InHand(p, u)'
  <2>1. /\ UNCHANGED <<pending, current, stopped>>
        /\ thread[q] = "working"
        /\ finished' = [finished EXCEPT ![q][held[q].uri] = held[q].batch]
        /\ p # q => thread'[p] = thread[p] /\ held'[p] = held[p]
        /\ thread[p] # "ended"
        /\ Token(held[q]) \notin cancelled
    BY <1>7 DEF FinishWork, Finish, Keep, queueVars
  <2>2. InHand(p, u) /\ held[q].uri \in Uris
    BY <1>1, <2>1 DEF Tasks
  <2>3. held[q].batch = current[held[q].uri]
    BY <2>1, TokensFromBatches DEF TokensTellTheTruth
  <2>4. CASE p = q /\ u = held[q].uri
    <3>1. finished'[p][u] = current'[u]
      BY <2>1, <2>2, <2>3, <2>4
    <3> QED
      BY <3>1 DEF InHand
  <2>5. CASE ~(p = q /\ u = held[q].uri)
    <3>1. finished'[p][u] = finished[p][u]
      BY <2>1, <2>2, <2>5
    <3>2. WorksOn(p, u) => WorksOn(p, u)'
      BY <2>1, <2>5 DEF WorksOn
    <3> QED
      BY <2>1, <2>2, <3>1, <3>2 DEF InHand
  <2> QED
    BY <2>4, <2>5
<1>8. ASSUME NEW v \in Uris, Ripen(v), UNCHANGED finished
      PROVE  InHand(p, u)'
  <2>1. /\ UNCHANGED <<current, thread, held, stopped, finished>>
        /\ pending'[u].wants = pending[u].wants
    BY <1>8 DEF Ripen, Entries
  <2> QED
    BY <1>1, <2>1 DEF InHand, WorksOn
<1>9. CASE UNCHANGED vars
  BY <1>1, <1>9 DEF vars, workerVars, queueVars, InHand, WorksOn
<1> QED
  BY <1>2, <1>3, <1>4, <1>5, <1>6, <1>7, <1>8, <1>9, StepCases

(* The latest snapshot of a document is analysed, waits to be, or is being    *)
(* analysed, in each phase, however scheduling, closing, cancelled tokens,   *)
(* debounce and the two threads' shared entry interleave.                    *)
THEOREM LatestIsInHand == Spec => []NothingForgotten
<1>1. Init => NothingForgotten
  BY DEF Init, WorkerInit, NothingForgotten
<1> QED
  BY <1>1, ForgottenStep, BatchInvariant, QueueTypeCorrect, PTL DEF Spec

(* A phase that sleeps for good has nothing left to analyse.                 *)
THEOREM RestMeansDone == Spec => []RestedIsAnalysed
<1>1. NoLostWakeup /\ NothingForgotten => RestedIsAnalysed
  BY DEF NoLostWakeup, NothingForgotten, RestedIsAnalysed, InHand, WorksOn, Wanting
<1> QED
  BY <1>1, WakeupsArrive, LatestIsInHand, PTL

(* What of ThreadsEnd is an invariant: once it is told to stop no thread      *)
(* sleeps, so none has to be woken again.                                   *)
StoppedIsAwake == stopped => \A p \in Phases : thread[p] \notin {"waiting", "dozing"}

(* DiagnosticWorker::drop wakes both threads after it has set the flag they   *)
(* look at before each wait, so the joins wait for none that sleeps.         *)
THEOREM NoneSleepsThroughDrop == Spec => []StoppedIsAwake
<1>1. Init => StoppedIsAwake
  BY DEF Init, WorkerInit, StoppedIsAwake
<1>2. TypeOK /\ StoppedIsAwake /\ [Next]_vars => StoppedIsAwake'
  <2> SUFFICES ASSUME TypeOK, StoppedIsAwake, [Next]_vars,
                      stopped', NEW p \in Phases, thread'[p] \in {"waiting", "dozing"}
               PROVE  FALSE
    BY DEF StoppedIsAwake
  <2> USE DEF TypeOK, WorkerTypeOK
  <2>1. CASE SessionUpdates \/ NotifyAll \/ Stop \/ Receive
    <3>1. ~SessionUpdates
      BY UpdateCases DEF UpdateQueue, StoppedIsAwake
    <3> QED
      BY <2>1, <3>1 DEF NotifyAll, Stop, Receive, StoppedIsAwake
  <2>2. ASSUME NEW q \in Phases, NEW u \in Uris, Take(q, u) \/ Ripen(u) PROVE FALSE
    BY <2>2 DEF Take, Keep, Ripen, StoppedIsAwake
  <2>3. ASSUME NEW q \in Phases,
               \/ Wait(q) \/ Doze(q) \/ Timeout(q) \/ SpuriousWakeup(q)
               \/ Abandon(q) \/ Send(q) \/ End(q) \/ FinishWork(q)
        PROVE  FALSE
    BY <2>3 DEF Wait, Doze, Timeout, SpuriousWakeup, Abandon, Send, End, FinishWork, Finish,
                Keep, StoppedIsAwake
  <2>4. CASE UNCHANGED vars
    BY <2>4 DEF vars, workerVars, StoppedIsAwake
  <2> QED
    BY <2>1, <2>2, <2>3, <2>4, StepCases DEF Phases
<1> QED
  BY <1>1, <1>2, QueueTypeCorrect, PTL DEF Spec

-----------------------------------------------------------------------------
(* The refinement mapping, by name.                                         *)
LatestOf == [u \in Uris |-> IF stopped THEN 0 ELSE current[u]]
CommittedOf ==
  [p \in Phases |-> IF thread[p] = "sending"
                      THEN [uri |-> held[p].uri, batch |-> held[p].batch]
                      ELSE [idle |-> TRUE]]

(* Every step of the worker is a step of the mailbox, or none.              *)
LEMMA MailboxStep == TypeOK /\ BatchInv /\ [Next]_vars => [Mailbox!Next]_(Mailbox!mailboxVars)
<1> SUFFICES ASSUME TypeOK, BatchInv, [Next]_vars
             PROVE  Mailbox!Next \/ UNCHANGED <<LatestOf, batch, finished, CommittedOf>>
  BY DEF Mailbox!mailboxVars, LatestOf, CommittedOf
<1>1. ASSUME UNCHANGED <<current, stopped, batch, finished, thread, held>>
      PROVE  UNCHANGED <<LatestOf, batch, finished, CommittedOf>>
  BY <1>1 DEF LatestOf, CommittedOf
<1>2. ASSUME UNCHANGED held,
             \A p \in Phases : (thread'[p] = "sending") <=> (thread[p] = "sending")
      PROVE  CommittedOf' = CommittedOf
  BY <1>2 DEF CommittedOf
<1>3. ASSUME SessionUpdates, UNCHANGED finished PROVE Mailbox!Next
  <2>1. PICK U \in SUBSET Uris, C \in SUBSET Uris :
          UpdateQueue(U, C, [u \in Uris |-> Payload])
    BY <1>3, UpdateCases
  <2>2. CommittedOf' = CommittedOf
    BY <1>2, <2>1 DEF UpdateQueue
  <2>3. ~stopped /\ ~stopped'
    BY <2>1 DEF UpdateQueue
  <2>4. batch' = IF U = {} THEN batch ELSE batch + 1
    BY <2>1 DEF UpdateQueue
  <2>5. LatestOf' = [u \in Uris |->
                       IF u \in U THEN batch + 1 ELSE IF u \in C THEN 0 ELSE LatestOf[u]]
    BY <2>1, <2>3 DEF UpdateQueue, LatestOf
  <2>6. Mailbox!Update(U, C)
    BY <1>3, <2>2, <2>4, <2>5 DEF Mailbox!Update, LatestOf, CommittedOf
  <2> QED
    BY <2>6 DEF Mailbox!Next
<1>4. ASSUME NotifyAll, UNCHANGED finished
      PROVE  UNCHANGED <<LatestOf, batch, finished, CommittedOf>>
  <2>1. UNCHANGED <<current, stopped, batch, held>>
    BY <1>4 DEF NotifyAll, queueVars
  <2>2. \A p \in Phases : (thread'[p] = "sending") <=> (thread[p] = "sending")
    BY <1>4 DEF NotifyAll
  <2> QED
    BY <1>2, <1>4, <2>1, <2>2 DEF LatestOf
<1>5. ASSUME Stop, UNCHANGED finished PROVE Mailbox!Next
  <2>1. UNCHANGED <<current, batch, held>> /\ stopped'
    BY <1>5 DEF Stop
  <2>2. \A p \in Phases : (thread'[p] = "sending") <=> (thread[p] = "sending")
    BY <1>5 DEF Stop
  <2>3. LatestOf' = [u \in Uris |-> 0] /\ CommittedOf' = CommittedOf
    BY <1>2, <2>1, <2>2 DEF LatestOf
  <2>4. Mailbox!Close
    BY <1>5, <2>1, <2>3 DEF Mailbox!Close, LatestOf, CommittedOf
  <2> QED
    BY <2>4 DEF Mailbox!Next
<1>6. ASSUME Receive \/ \E u \in Uris : Ripen(u), UNCHANGED finished
      PROVE  UNCHANGED <<LatestOf, batch, finished, CommittedOf>>
  BY <1>1, <1>6 DEF Receive, Ripen, queueVars
<1>7. ASSUME NEW p \in Phases,
             \/ Wait(p) \/ Doze(p) \/ Timeout(p) \/ SpuriousWakeup(p) \/ Abandon(p)
             \/ \E u \in Uris : Take(p, u),
             UNCHANGED finished
      PROVE  UNCHANGED <<LatestOf, batch, finished, CommittedOf>>
  <2>1. /\ UNCHANGED <<current, stopped, batch>>
        /\ thread[p] # "sending" /\ thread'[p] # "sending"
        /\ \A q \in Phases \ {p} : thread'[q] = thread[q] /\ held'[q] = held[q]
    BY <1>7 DEF Wait, Doze, Timeout, SpuriousWakeup, Abandon, Take, Keep,
       queueVars, TypeOK, WorkerTypeOK
  <2>2. CommittedOf' = CommittedOf
    BY <2>1 DEF CommittedOf
  <2> QED
    BY <1>7, <2>1, <2>2 DEF LatestOf
<1>8. ASSUME NEW p \in Phases, Send(p) \/ End(p), UNCHANGED finished
      PROVE  Mailbox!Next \/ UNCHANGED <<LatestOf, batch, finished, CommittedOf>>
  <2>1. /\ UNCHANGED <<current, stopped, batch>> /\ thread'[p] # "sending"
        /\ \A q \in Phases \ {p} : thread'[q] = thread[q] /\ held'[q] = held[q]
    BY <1>8 DEF Send, End, Keep,
       queueVars, TypeOK, WorkerTypeOK
  <2>2. LatestOf' = LatestOf
    BY <2>1 DEF LatestOf
  <2>3. CASE thread[p] = "sending"
    <3>1. CommittedOf' = [CommittedOf EXCEPT ![p] = [idle |-> TRUE]]
      BY <2>1 DEF CommittedOf
    <3>2. CommittedOf[p] # [idle |-> TRUE]
      <4>1. CommittedOf[p] = [uri |-> held[p].uri, batch |-> held[p].batch]
        BY <2>3 DEF CommittedOf
      <4>2. DOMAIN CommittedOf[p] = {"uri", "batch"}
        BY <4>1
      <4>3. DOMAIN [idle |-> TRUE] = {"idle"}
        OBVIOUS
      <4> QED
        BY <4>2, <4>3
    <3>3. Mailbox!Emit(p)
      BY <1>8, <2>1, <2>2, <3>1, <3>2
         DEF Mailbox!Emit, Mailbox!Nothing, LatestOf, CommittedOf
    <3> QED
      BY <3>3 DEF Mailbox!Next
  <2>4. CASE thread[p] # "sending"
    <3>1. CommittedOf' = CommittedOf
      BY <2>1, <2>4 DEF CommittedOf
    <3> QED
      BY <1>8, <2>1, <2>2, <3>1
  <2> QED
    BY <2>3, <2>4
<1>9. ASSUME NEW p \in Phases, FinishWork(p) PROVE Mailbox!Next
  <2>0. PICK u \in Uris, b \in Nat : u = held[p].uri /\ b = held[p].batch
    BY <1>9 DEF FinishWork, Finish, TypeOK, WorkerTypeOK, Tasks
  <2>1. /\ UNCHANGED <<current, stopped, batch>>
        /\ thread[p] = "working" /\ Token(held[p]) \notin cancelled
        /\ finished' = [finished EXCEPT ![p][u] = b]
        /\ thread' = [thread EXCEPT ![p] = "sending"]
        /\ held'[p].uri = u /\ held'[p].batch = b
        /\ \A q \in Phases \ {p} : held'[q] = held[q]
    BY <1>9, <2>0 DEF FinishWork, Finish, Keep,
       queueVars, TypeOK, WorkerTypeOK
  <2>2. WorkInv(p)
    BY <2>1 DEF BatchInv
  <2>3. ~stopped /\ current[u] = b
    BY <2>0, <2>1, TokensFromBatches DEF TokensTellTheTruth
  <2>4. b # 0 /\ finished[p][u] < b
    BY <2>0, <2>2, <1>9 DEF WorkInv, TypeOK, WorkerTypeOK
  <2>5. LatestOf' = LatestOf /\ LatestOf[u] = b
    BY <2>1, <2>3 DEF LatestOf
  <2>6. CommittedOf' = [CommittedOf EXCEPT ![p] = [uri |-> u, batch |-> b]]
    BY <2>1 DEF CommittedOf, TypeOK, WorkerTypeOK
  <2>7. CommittedOf[p] = [idle |-> TRUE]
    BY <2>1 DEF CommittedOf
  <2>8. Mailbox!Commit(p, u)
    BY <2>1, <2>4, <2>5, <2>6, <2>7
       DEF Mailbox!Commit, Mailbox!Nothing, LatestOf, CommittedOf
  <2> QED
    BY <2>8 DEF Mailbox!Next
<1>10. CASE UNCHANGED vars
  BY <1>1, <1>10 DEF vars, workerVars, queueVars
<1> QED
  BY <1>3, <1>4, <1>5, <1>6, <1>7, <1>8, <1>9, <1>10, StepCases

LEMMA MailboxInit == Init => Mailbox!Init
BY DEF Init, WorkerInit, Mailbox!Init, Mailbox!Nothing

(* The queue, its tokens, its condition variable and its debounce keep the   *)
(* promise of DiagnosticMailbox.                                            *)
THEOREM WorkerIsMailbox == Spec => ImplementsMailbox
BY MailboxInit, MailboxStep, BatchInvariant, QueueTypeCorrect, PTL
   DEF Spec, ImplementsMailbox, Mailbox!Spec
=============================================================================
