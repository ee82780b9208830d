-------------------------- MODULE DiagnosticMailbox --------------------------
(***************************************************************************)
(* What the diagnostic worker of crates/shucked-lsp promises the session,   *)
(* whatever its queue, its debounce, its cancellation tokens and its        *)
(* condition variable do: a mailbox that keeps the latest snapshot of each  *)
(* document and works on each of them once per phase.                       *)
(*                                                                         *)
(* A phase commits to a document only while the snapshot it worked on is    *)
(* the latest one and has not been withdrawn, and it commits to a snapshot  *)
(* at most once.  Only what a phase had committed to when the document was  *)
(* rescheduled or closed can still come out late: one result per phase.     *)
(***************************************************************************)
EXTENDS Naturals

CONSTANTS Uris, Phases

VARIABLES
  latest,    \* the batch of the latest snapshot of a document; 0: not wanted
  newest,    \* batches handed out so far
  done,      \* per phase and document, the batch last committed to
  committed  \* what a phase has committed to and not yet handed out

mailboxVars == <<latest, newest, done, committed>>

Nothing == [idle |-> TRUE]

Init ==
  /\ latest = [u \in Uris |-> 0]
  /\ newest = 0
  /\ done = [p \in Phases |-> [u \in Uris |-> 0]]
  /\ committed = [p \in Phases |-> Nothing]

(* The session closes the documents in C and schedules those in U.         *)
Update(U, C) ==
  /\ newest' = IF U = {} THEN newest ELSE newest + 1
  /\ latest' = [u \in Uris |->
                  IF u \in U THEN newest + 1 ELSE IF u \in C THEN 0 ELSE latest[u]]
  /\ UNCHANGED <<done, committed>>

(* Phase p has the result of the latest snapshot of u.                     *)
Commit(p, u) ==
  /\ committed[p] = Nothing
  /\ latest[u] # 0
  /\ done[p][u] < latest[u]
  /\ done' = [done EXCEPT ![p][u] = latest[u]]
  /\ committed' = [committed EXCEPT ![p] = [uri |-> u, batch |-> latest[u]]]
  /\ UNCHANGED <<latest, newest>>

(* It hands the result out; or the receiver is gone and it is lost.        *)
Emit(p) ==
  /\ committed[p] # Nothing
  /\ committed' = [committed EXCEPT ![p] = Nothing]
  /\ UNCHANGED <<latest, newest, done>>

(* The worker is dropped: nothing is wanted any more.                      *)
Close ==
  /\ latest' = [u \in Uris |-> 0]
  /\ UNCHANGED <<newest, done, committed>>

Next ==
  \/ \E U, C \in SUBSET Uris : Update(U, C)
  \/ \E p \in Phases : Emit(p) \/ \E u \in Uris : Commit(p, u)
  \/ Close

Spec == Init /\ [][Next]_mailboxVars
=============================================================================
