-------------------------- MODULE DiagnosticWorker ---------------------------
(***************************************************************************)
(* The diagnostic worker of crates/shucked-lsp/src/server/                 *)
(* diagnostic_worker.rs: a queue of one entry per document behind a mutex  *)
(* and a condition variable, and two threads.  The syntax thread answers   *)
(* at once; the environment thread waits until the entry is due, 400 ms    *)
(* after it was scheduled.  Scheduling a document again replaces its entry *)
(* and cancels the token of the work in progress; closing it cancels too.  *)
(*                                                                         *)
(* Time: every entry is due the same delay after it was scheduled, so due  *)
(* times are ordered like the batches the entries belong to, and an entry  *)
(* is `ripe` once its due time has passed.  A batch is one call of         *)
(* schedule or of schedule_all; documents of one batch are due together    *)
(* and the threads may take them in any order.                             *)
(***************************************************************************)
EXTENDS Naturals, Sequences

CONSTANTS
  Uris,      \* documents
  Capacity,  \* bound of the main-loop channel the results go to
  MayPanic   \* can an analysis panic? (nothing in the thread catches it)

ASSUME WorkerAssumption == Capacity \in Nat \ {0} /\ MayPanic \in BOOLEAN

Phases == {"syntax", "environment"}

VARIABLES
  pending,   \* Queue.pending: one entry per document
  current,   \* Queue.cancellations: the batch of the token kept; 0: none
  cancelled, \* the tokens, as <<uri, batch>>, that have been cancelled
  batch,     \* batches scheduled so far
  thread,    \* where each thread is
  held,      \* the snapshot it works on, with its document and batch
  channel,   \* results queued for the main loop
  notify,    \* a schedule has unlocked and not yet called notify_all
  stopped    \* Queue.stopped

queueVars == <<pending, current, cancelled, batch>>
workerVars == <<queueVars, thread, held, channel, notify, stopped>>

(* `wants` are the phases still to run.  An entry that wants none is one the *)
(* map does not hold.                                                       *)
NoEntry == [batch |-> 0, snapshot |-> [none |-> TRUE], wants |-> {}, ripe |-> FALSE]
NothingHeld == [idle |-> TRUE]
Token(h) == <<h.uri, h.batch>>

WorkerInit ==
  /\ pending = [u \in Uris |-> NoEntry]
  /\ current = [u \in Uris |-> 0]
  /\ cancelled = {}
  /\ batch = 0
  /\ thread = [p \in Phases |-> "check"]
  /\ held = [p \in Phases |-> NothingHeld]
  /\ channel = <<>>
  /\ notify = FALSE
  /\ stopped = FALSE

-----------------------------------------------------------------------------
(* The session's calls, all from the main thread.                          *)

(* Mutant: nobody cancels the token an insertion or a removal gives back.    *)
KeptTokensForgotten(U) == {}

KeptTokens(U) == {<<u, current[u]>> : u \in {v \in U : current[v] # 0}}

(* Queue::cancel for the documents of C and Queue::schedule for those of U,  *)
(* with the snapshot of each.  A cancelled entry goes; a scheduled one is    *)
(* replaced, due time and flags included; either way the token that was kept *)
(* is cancelled.  schedule calls notify_all once it has released the lock.  *)
UpdateQueue(U, C, snapshot) ==
  /\ ~notify
  /\ ~stopped
  /\ batch' = IF U = {} THEN batch ELSE batch + 1
  /\ pending' = [u \in Uris |->
                   IF u \in U
                     THEN [batch |-> batch + 1, snapshot |-> snapshot[u],
                           wants |-> Phases, ripe |-> FALSE]
                     ELSE IF u \in C THEN NoEntry ELSE pending[u]]
  /\ current' = [u \in Uris |->
                   IF u \in U THEN batch + 1 ELSE IF u \in C THEN 0 ELSE current[u]]
  /\ cancelled' = cancelled \cup KeptTokens(U \cup C)
  /\ notify' = (U # {})
  /\ UNCHANGED <<thread, held, channel, stopped>>

(* Mutant: notify_one.                                                      *)
NotifyOne ==
  /\ notify
  /\ notify' = FALSE
  /\ LET asleep == {p \in Phases : thread[p] \in {"waiting", "dozing"}}
     IN  IF asleep = {} THEN UNCHANGED thread
         ELSE \E p \in asleep : thread' = [thread EXCEPT ![p] = "check"]
  /\ UNCHANGED <<queueVars, held, channel, stopped>>

NotifyAll ==
  /\ notify
  /\ notify' = FALSE
  /\ thread' = [p \in Phases |->
                  IF thread[p] \in {"waiting", "dozing"} THEN "check" ELSE thread[p]]
  /\ UNCHANGED <<queueVars, held, channel, stopped>>

(* Mutant: the threads are told to stop, and not woken.                     *)
StopSilently ==
  /\ ~notify
  /\ ~stopped
  /\ stopped' = TRUE
  /\ cancelled' = cancelled \cup KeptTokens(Uris)
  /\ channel' = <<>>
  /\ UNCHANGED <<pending, current, batch, thread, held, notify>>

(* DiagnosticWorker::drop, up to the joins.  Server drops the receiver of   *)
(* the channel first.                                                       *)
Stop ==
  /\ ~notify
  /\ ~stopped
  /\ stopped' = TRUE
  /\ cancelled' = cancelled \cup KeptTokens(Uris)
  /\ thread' = [p \in Phases |->
                  IF thread[p] \in {"waiting", "dozing"} THEN "check" ELSE thread[p]]
  /\ channel' = <<>>
  /\ UNCHANGED <<pending, current, batch, held, notify>>

-----------------------------------------------------------------------------
(* A thread.                                                               *)

Wanting(p) == {u \in Uris : p \in pending[u].wants}
Oldest(U) == {u \in U : \A v \in U : pending[u].batch <= pending[v].batch}

Keep(p, at, h) ==
  /\ thread' = [thread EXCEPT ![p] = at]
  /\ held' = [held EXCEPT ![p] = h]

(* Mutants: the phase is not recorded as taken; the entry goes with the first *)
(* phase that takes it.                                                     *)
TakenKeepsPhase(entry, p) == entry
TakenDropsEntry(entry, p) == NoEntry

(* What is left of an entry whose phase p has been taken: one that wants no   *)
(* other phase is removed.                                                  *)
Taken(entry, p) ==
  IF entry.wants = {p} THEN NoEntry ELSE [entry EXCEPT !.wants = @ \ {p}]

(* Queue::next finds the entry due first.                                   *)
Take(p, u) ==
  /\ thread[p] = "check"
  /\ ~stopped
  /\ u \in Oldest(Wanting(p))
  /\ p = "environment" => pending[u].ripe
  /\ Keep(p, "working",
          [uri |-> u, batch |-> pending[u].batch, snapshot |-> pending[u].snapshot])
  /\ pending' = [pending EXCEPT ![u] = Taken(@, p)]
  /\ UNCHANGED <<current, cancelled, batch, channel, notify, stopped>>

(* Nothing wants this phase: wait.  The lock is given up as the wait begins. *)
Wait(p) ==
  /\ thread[p] = "check"
  /\ ~stopped
  /\ Wanting(p) = {}
  /\ thread' = [thread EXCEPT ![p] = "waiting"]
  /\ UNCHANGED <<queueVars, held, channel, notify, stopped>>

(* The entry due first is not due yet: wait with a timeout.                 *)
Doze(p) ==
  /\ thread[p] = "check"
  /\ ~stopped
  /\ p = "environment"
  /\ \E u \in Oldest(Wanting(p)) : ~pending[u].ripe
  /\ thread' = [thread EXCEPT ![p] = "dozing"]
  /\ UNCHANGED <<queueVars, held, channel, notify, stopped>>

Timeout(p) ==
  /\ thread[p] = "dozing"
  /\ \E u \in Wanting(p) : pending[u].ripe
  /\ thread' = [thread EXCEPT ![p] = "check"]
  /\ UNCHANGED <<queueVars, held, channel, notify, stopped>>

(* A condition variable may wake without a reason.                          *)
SpuriousWakeup(p) ==
  /\ thread[p] \in {"waiting", "dozing"}
  /\ thread' = [thread EXCEPT ![p] = "check"]
  /\ UNCHANGED <<queueVars, held, channel, notify, stopped>>

(* The token was cancelled before or while the analysis ran: no result.     *)
Abandon(p) ==
  /\ thread[p] = "working"
  /\ Token(held[p]) \in cancelled
  /\ Keep(p, "check", NothingHeld)
  /\ UNCHANGED <<queueVars, channel, notify, stopped>>

(* Mutant: the thread sends without having put its result together.         *)
FinishWithoutResult(p, reading) ==
  /\ thread[p] = "working"
  /\ Token(held[p]) \notin cancelled
  /\ thread' = [thread EXCEPT ![p] = "sending"]
  /\ UNCHANGED <<queueVars, held, channel, notify, stopped>>

(* The analysis is complete and its token has just been found live.  What    *)
(* it read of the session's live state while it ran is `reading`.  (A        *)
(* reading before a cancellation need not be kept apart: the token is looked *)
(* at afterwards, and no result comes of it.)                               *)
Finish(p, reading) ==
  /\ thread[p] = "working"
  /\ Token(held[p]) \notin cancelled
  /\ Keep(p, "sending", [uri |-> held[p].uri, batch |-> held[p].batch,
                         snapshot |-> held[p].snapshot, reading |-> reading])
  /\ UNCHANGED <<queueVars, channel, notify, stopped>>

Result(p) == [uri |-> held[p].uri, key |-> held[p].snapshot,
              reading |-> held[p].reading, complete |-> p = "environment"]

(* queue_diagnostics: blocks while the channel is full.                     *)
Send(p) ==
  /\ thread[p] = "sending"
  /\ ~stopped
  /\ Len(channel) < Capacity
  /\ channel' = Append(channel, Result(p))
  /\ Keep(p, "check", NothingHeld)
  /\ UNCHANGED <<queueVars, notify, stopped>>

(* The thread ends: it is told to, or its send fails, or the analysis       *)
(* panics.                                                                 *)
End(p) ==
  /\ \/ thread[p] \in {"check", "sending"} /\ stopped
     \/ thread[p] = "working" /\ MayPanic
  /\ Keep(p, "ended", NothingHeld)
  /\ UNCHANGED <<queueVars, channel, notify, stopped>>

(* The due time of the oldest entry passes.                                 *)
Ripen(u) ==
  /\ u \in Oldest({v \in Uris : pending[v].wants # {} /\ ~pending[v].ripe})
  /\ pending' = [pending EXCEPT ![u].ripe = TRUE]
  /\ UNCHANGED <<current, cancelled, batch, thread, held, channel, notify, stopped>>

-----------------------------------------------------------------------------
QueueStep(p) == Wait(p) \/ Doze(p) \/ Timeout(p) \/ \E u \in Uris : Take(p, u)

(* What a thread does besides Finish, whose reading a composition chooses.   *)
ThreadStep(p) ==
  QueueStep(p) \/ SpuriousWakeup(p) \/ Abandon(p) \/ Send(p) \/ End(p)

(* Types, for snapshots of the set S and readings of the set R.             *)
Entries(S) ==
  [batch : Nat, snapshot : S \cup {NoEntry.snapshot}, wants : SUBSET Phases, ripe : BOOLEAN]
Tasks(S) == [uri : Uris, batch : Nat, snapshot : S]
Outcomes(S, R) == [uri : Uris, batch : Nat, snapshot : S, reading : R]
Results(S, R) == [uri : Uris, key : S, reading : R, complete : BOOLEAN]

WorkerTypeOK(S, R) ==
  /\ pending \in [Uris -> Entries(S)]
  /\ \A u \in Uris : pending[u].wants # {} => pending[u].snapshot \in S
  /\ current \in [Uris -> Nat]
  /\ cancelled \in SUBSET (Uris \X Nat)
  /\ batch \in Nat
  /\ thread \in [Phases -> {"check", "waiting", "dozing", "working", "sending", "ended"}]
  /\ held \in [Phases -> Tasks(S) \cup Outcomes(S, R) \cup {NothingHeld}]
  /\ \A p \in Phases :
       /\ thread[p] = "working" => held[p] \in Tasks(S)
       /\ thread[p] = "sending" => held[p] \in Outcomes(S, R)
  /\ channel \in Seq(Results(S, R))
  /\ notify \in BOOLEAN
  /\ stopped \in BOOLEAN

(* No wakeup is lost: a thread that waits without a timeout, with no         *)
(* notify_all on its way, has nothing to do.                                *)
NoLostWakeup ==
  ~notify => \A p \in Phases : thread[p] = "waiting" => Wanting(p) = {}

(* A thread works for nobody only when it can know: if the analysis it runs  *)
(* has been superseded or its document closed, its token says so; and a      *)
(* token that is still kept is live, so wanted work is not thrown away.     *)
TokensTellTheTruth ==
  \A p \in Phases :
    thread[p] = "working" =>
      Token(held[p]) \in cancelled <=> stopped \/ current[held[p].uri] # held[p].batch
=============================================================================
