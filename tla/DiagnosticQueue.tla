--------------------------- MODULE DiagnosticQueue ---------------------------
(***************************************************************************)
(* The diagnostic worker on its own: DiagnosticWorker under a session that  *)
(* schedules and closes documents as it likes, a main loop that receives    *)
(* the results, and a drop at any moment.  It implements DiagnosticMailbox. *)
(***************************************************************************)
EXTENDS DiagnosticWorker

CONSTANT MaxBatches \* bound: how many batches the session schedules

ASSUME BatchesAssumption == MaxBatches \in Nat

VARIABLE finished \* history: per phase and document, the batch last finished

vars == <<workerVars, finished>>

(* The worker looks into no snapshot: one value stands for all of them.     *)
Payload == [none |-> TRUE]

Init ==
  /\ WorkerInit
  /\ finished = [p \in Phases |-> [u \in Uris |-> 0]]

SessionUpdates ==
  \E U, C \in SUBSET Uris :
    /\ batch < MaxBatches
    /\ U \cap C = {}
    /\ U # {} \/ \E u \in C : current[u] # 0
    /\ UpdateQueue(U, C, [u \in Uris |-> Payload])

(* The main loop takes a result; what it does with it is DiagnosticPipeline. *)
Receive ==
  /\ ~notify
  /\ channel # <<>>
  /\ channel' = Tail(channel)
  /\ UNCHANGED <<queueVars, thread, held, notify, stopped>>

FinishWork(p) ==
  /\ Finish(p, Payload)
  /\ finished' = [finished EXCEPT ![p][held[p].uri] = held[p].batch]

Other ==
  \/ SessionUpdates
  \/ NotifyAll
  \/ Stop
  \/ Receive
  \/ \E p \in Phases : ThreadStep(p)
  \/ \E u \in Uris : Ripen(u)

Next ==
  \/ Other /\ UNCHANGED finished
  \/ \E p \in Phases : FinishWork(p)

Spec == Init /\ [][Next]_vars

(* Threads are scheduled, analyses end, time passes, and the main thread     *)
(* gets from schedule to notify_all and back to its channel.  Nobody owes a  *)
(* spurious wakeup, a panic, a new batch or a drop.                         *)
Quietly(A) == A /\ UNCHANGED finished

Fairness ==
  /\ WF_vars(Quietly(NotifyAll))
  /\ WF_vars(Quietly(Receive))
  /\ \A p \in Phases :
       /\ WF_vars(Quietly(QueueStep(p)))
       /\ WF_vars(Quietly(Abandon(p)) \/ FinishWork(p))
       /\ WF_vars(Quietly(Send(p)))
       /\ WF_vars(Quietly(stopped /\ End(p)))
  /\ \A u \in Uris : WF_vars(Quietly(Ripen(u)))

FairSpec == Spec /\ Fairness

-----------------------------------------------------------------------------
(* Types: every variable holds what its declaration says. *)
TypeOK ==
  /\ WorkerTypeOK({Payload}, {Payload})
  /\ finished \in [Phases -> [Uris -> Nat]]

(* The mailbox the worker implements: each phase commits to a snapshot only  *)
(* while it is the latest of a document that is open, and only once; one     *)
(* late result per phase is all that can follow an update or a close.       *)
Mailbox == INSTANCE DiagnosticMailbox WITH
  latest <- [u \in Uris |-> IF stopped THEN 0 ELSE current[u]],
  newest <- batch,
  done <- finished,
  committed <- [p \in Phases |->
                  IF thread[p] = "sending"
                    THEN [uri |-> held[p].uri, batch |-> held[p].batch]
                    ELSE [idle |-> TRUE]]

ImplementsMailbox == Mailbox!Spec

(* A snapshot that stays the latest of its document is analysed by both      *)
(* phases, whatever else is scheduled, cancelled or abandoned meanwhile, and *)
(* though the other phase may have panicked; only a panic of its own ends a  *)
(* phase.                                                                   *)
LatestGetsAnalysed ==
  \A p \in Phases, u \in Uris :
    []<>(stopped \/ thread[p] = "ended" \/ current[u] = 0 \/ finished[p][u] = current[u])

(* The joins of DiagnosticWorker::drop return: both threads end, from a wait *)
(* without a timeout as well as from a blocked send.                        *)
ThreadsEnd == stopped ~> \A p \in Phases : thread[p] = "ended"
=============================================================================
