-------------------------- MODULE RequestLoopProofs --------------------------
(***************************************************************************)
(* RequestLoop for every set of ids and threads and every capacity of the   *)
(* channel: types, at most one reply per request and, once the loop is at   *)
(* rest, exactly one, refusals exactly for the requests that came after     *)
(* `shutdown`, and the permanence of a main loop that blocks on its own     *)
(* channel.                                                                 *)
(***************************************************************************)
EXTENDS RequestLoop, TLAPS

-----------------------------------------------------------------------------
(* What Append and Tail do to the elements of a sequence: the facts the      *)
(* proofs about the main-loop channel and the job queues rest on.            *)
LEMMA EmptySequence == ASSUME NEW S PROVE <<>> \in Seq(S)
  OBVIOUS

LEMMA AppendType ==
  ASSUME NEW S, NEW s \in Seq(S), NEW e \in S
  PROVE  Append(s, e) \in Seq(S)
  OBVIOUS

LEMMA AppendElements ==
  ASSUME NEW S, NEW s \in Seq(S), NEW e \in S
  PROVE  /\ \A i \in 1 .. Len(s) : i \in 1 .. Len(Append(s, e)) /\ Append(s, e)[i] = s[i]
         /\ \E i \in 1 .. Len(Append(s, e)) : Append(s, e)[i] = e
         /\ \A i \in 1 .. Len(Append(s, e)) :
              Append(s, e)[i] = e \/ (i \in 1 .. Len(s) /\ Append(s, e)[i] = s[i])
  OBVIOUS

LEMMA TailElements ==
  ASSUME NEW S, NEW s \in Seq(S), s # <<>>
  PROVE  /\ 1 \in 1 .. Len(s) /\ Head(s) = s[1]
         /\ \A i \in 1 .. Len(Tail(s)) :
              i + 1 \in 1 .. Len(s) /\ Tail(s)[i] = s[i + 1]
         /\ \A i \in 1 .. Len(s) :
              s[i] = Head(s) \/ \E j \in 1 .. Len(Tail(s)) : Tail(s)[j] = s[i]
<1>1. Len(s) \in Nat \ {0} /\ Len(Tail(s)) = Len(s) - 1
  OBVIOUS
<1>2. ASSUME NEW i \in 1 .. Len(s), i # 1
      PROVE  i - 1 \in 1 .. Len(Tail(s)) /\ Tail(s)[i - 1] = s[i]
  BY <1>1, <1>2
<1> QED
  BY <1>1, <1>2

(* Each disjunct of Next, by name, for the case splits below.               *)
LEMMA NextCases ==
  ASSUME Next
  PROVE  \/ \E id \in Ids : RefuseRequest(id)
         \/ \E id \in Ids : RunSyncRequest(id)
         \/ \E id \in Ids : RunShutdown(id)
         \/ \E id \in Ids, pool \in Pools, rechecks \in BOOLEAN :
              DispatchBackground(id, pool, rechecks)
         \/ \E id \in Ids : Cancel(id)
         \/ Exit
         \/ ClientLeaves
         \/ SeeDisconnect
         \/ CompleteRequest
         \/ IgnoreResponse
         \/ HandleOther
         \/ FinishSend
         \/ \E t \in Threads : TakeJob(t)
         \/ \E t \in Threads : FinishJob(t)
         \/ \E t \in Threads : SendResult(t)
         \/ \E t \in Threads : EndThread(t)
         \/ \E p \in Producers : ProducerStep(p)
         \/ DropReceiver
         \/ DropSession
BY DEF Next, ReceiveRequest, HandleEvent, PoolStep

(* The type invariant is inductive on its own. *)
THEOREM TypeCorrect == Spec => []TypeOK
<1>1. Init => TypeOK
  <2> SUFFICES ASSUME Init PROVE TypeOK
    OBVIOUS
  <2>1. channel \in Seq(Events)
    BY EmptySequence DEF Init
  <2>2. jobs \in [Pools -> Seq(Jobs)]
    BY EmptySequence DEF Init
  <2>3. replies \in [Ids -> Seq(Kinds)]
    BY EmptySequence DEF Init
  <2>4. tokens \in [Ids -> {"none", "live", "cancelled"}]
    BY DEF Init
  <2> QED
    <3>1. /\ thread \in [Threads -> {"idle", "running", "sending", "done"}]
          /\ \A t \in Threads : thread[t] \in {"running", "sending"} => job[t] \in Jobs
          /\ job \in [Threads -> Jobs \cup {NoJob}]
          /\ producer \in [Producers -> {"idle", "posting", "done"}]
      BY DEF Init
    <3>2. posts \in 0 .. MaxPosts
      BY PostsAssumption DEF Init
    <3> QED
      BY <2>1, <2>2, <2>3, <2>4, <3>1, <3>2 DEF Init, TypeOK
<1>2. TypeOK /\ [Next]_vars => TypeOK'
  <2> SUFFICES ASSUME TypeOK, [Next]_vars PROVE TypeOK'
    OBVIOUS
  <2> USE PostsAssumption DEF TypeOK
  <2>1. ASSUME NEW id \in Ids, RefuseRequest(id) PROVE TypeOK'
    BY <2>1 DEF RefuseRequest, Register, RespondFromMain, Response, NoEvent, Responses,
                poolVars, producerVars
  <2>2. ASSUME NEW id \in Ids, RunSyncRequest(id) PROVE TypeOK'
    BY <2>2 DEF RunSyncRequest, Register, RespondFromMain, Response, NoEvent, Responses,
                poolVars, producerVars
  <2>3. ASSUME NEW id \in Ids, RunShutdown(id) PROVE TypeOK'
    BY <2>3 DEF RunShutdown, Register, RespondFromMain, Response, NoEvent, Responses,
                poolVars, producerVars
  <2>4. ASSUME NEW id \in Ids, NEW pool \in Pools, NEW rechecks \in BOOLEAN,
               DispatchBackground(id, pool, rechecks)
        PROVE  TypeOK'
    <3>1. [id |-> id, rechecks |-> rechecks] \in Jobs
      BY DEF Jobs
    <3>2. jobs' \in [Pools -> Seq(Jobs)]
      BY <2>4, <3>1 DEF DispatchBackground
    <3>3. tokens' \in [Ids -> {"none", "live", "cancelled"}]
      BY <2>4 DEF DispatchBackground
    <3> QED
      BY <2>4, <3>2, <3>3 DEF DispatchBackground, Register, producerVars
  <2>5. ASSUME NEW id \in Ids, Cancel(id) PROVE TypeOK'
    <3>1. replies' \in [Ids -> Seq(Kinds)]
      BY <2>5 DEF Cancel, Kinds
    <3> QED
      BY <2>5, <3>1 DEF Cancel, poolVars, producerVars
  <2>6. CASE Exit
    BY <2>6 DEF Exit, requestVars, poolVars, producerVars
  <2>7. CASE ClientLeaves
    BY <2>7 DEF ClientLeaves, requestVars, poolVars, producerVars
  <2>8. CASE SeeDisconnect
    BY <2>8 DEF SeeDisconnect, requestVars, poolVars, producerVars
  <2>9. CASE CompleteRequest
    <3>1. channel' \in Seq(Events) /\ Head(channel) \in Events
      BY <2>9 DEF CompleteRequest, TakeEvent
    <3>2. Head(channel).id \in Ids /\ Head(channel).kind \in Kinds
      BY <2>9, <3>1 DEF CompleteRequest, Events, Other, Responses, Kinds
    <3>3. replies' \in [Ids -> Seq(Kinds)]
      <4>1. CASE clientGone
        BY <2>9, <4>1 DEF CompleteRequest
      <4>2. CASE ~clientGone
        <5> DEFINE h == Head(channel)
        <5>1. replies' = [replies EXCEPT ![h.id] = Append(@, h.kind)]
          BY <2>9, <4>2 DEF CompleteRequest
        <5>2. replies[h.id] \in Seq(Kinds)
          BY <3>2
        <5>3. Append(replies[h.id], h.kind) \in Seq(Kinds)
          BY <3>2, <5>2, AppendType
        <5> HIDE DEF h
        <5> QED
          BY <5>1, <5>3
      <4> QED
        BY <4>1, <4>2
    <3>4. main' \in {"select", "broken"}
      BY <2>9 DEF CompleteRequest, TakeEvent
    <3> QED
      BY <2>9, <3>1, <3>3, <3>4 DEF CompleteRequest, TakeEvent, poolVars, producerVars
  <2>10. CASE IgnoreResponse
    BY <2>10 DEF IgnoreResponse, TakeEvent, poolVars, producerVars
  <2>11. CASE HandleOther
    BY <2>11 DEF HandleOther, TakeEvent, poolVars, producerVars
  <2>12. CASE FinishSend
    BY <2>12 DEF FinishSend, requestVars, poolVars, producerVars, Events, NoEvent
  <2>13. ASSUME NEW t \in Threads, TakeJob(t) PROVE TypeOK'
    <3>1. PoolOf(t) \in Pools
      BY DEF PoolOf, Pools
    <3>2. Head(jobs[PoolOf(t)]) \in Jobs /\ jobs' \in [Pools -> Seq(Jobs)]
      BY <2>13, <3>1 DEF TakeJob
    <3> QED
      BY <2>13, <3>2 DEF TakeJob, Hold, requestVars, producerVars
  <2>14. ASSUME NEW t \in Threads, FinishJob(t) PROVE TypeOK'
    BY <2>14 DEF FinishJob, Hold, Rest, requestVars, producerVars
  <2>15. ASSUME NEW t \in Threads, SendResult(t) PROVE TypeOK'
    <3>1. job[t].id \in Ids
      BY <2>15 DEF SendResult, Jobs
    <3>2. Response(job[t].id, "answer") \in Events
      BY <3>1 DEF Response, Events, Responses
    <3>3. channel' \in Seq(Events)
      <4>1. Append(channel, Response(job[t].id, "answer")) \in Seq(Events)
        BY <3>2, AppendType
      <4> QED
        BY <2>15, <4>1 DEF SendResult
    <3> QED
      BY <2>15, <3>3 DEF SendResult, Hold, Rest, requestVars, producerVars
  <2>16. ASSUME NEW t \in Threads, EndThread(t) PROVE TypeOK'
    BY <2>16 DEF EndThread, Hold, requestVars, producerVars
  <2>17. ASSUME NEW p \in Producers, ProducerStep(p) PROVE TypeOK'
    <3>1. Other \in Events
      BY DEF Events
    <3>2. CASE BeginPost(p)
      BY <3>2 DEF BeginPost, requestVars, poolVars
    <3>3. CASE FinishPost(p)
      <4>1. channel' \in Seq(Events)
        <5>1. Append(channel, Other) \in Seq(Events)
          BY <3>1, AppendType
        <5> QED
          BY <3>3, <5>1 DEF FinishPost
      <4>2. producer' \in [Producers -> {"idle", "posting", "done"}]
        BY <3>3 DEF FinishPost
      <4> QED
        BY <3>3, <4>1, <4>2 DEF FinishPost, requestVars, poolVars
    <3>4. CASE EndProducer(p)
      BY <3>4 DEF EndProducer, requestVars, poolVars
    <3> QED
      BY <2>17, <3>2, <3>3, <3>4 DEF ProducerStep
  <2>18. CASE DropReceiver
    BY <2>18, EmptySequence DEF DropReceiver, requestVars, poolVars, producerVars
  <2>19. CASE DropSession
    BY <2>19 DEF DropSession, requestVars, poolVars
  <2>20. CASE UNCHANGED vars
    BY <2>20 DEF vars, requestVars, poolVars, producerVars
  <2> QED
    BY <2>1, <2>2, <2>3, <2>4, <2>5, <2>6, <2>7, <2>8, <2>9, <2>10, <2>11, <2>12, <2>13,
       <2>14, <2>15, <2>16, <2>17, <2>18, <2>19, <2>20, NextCases
<1> QED
  BY <1>1, <1>2, PTL DEF Spec

(* Only these steps touch what is known of a request.                       *)
LEMMA RequestSteps ==
  ASSUME [Next]_vars
  PROVE  \/ \E id \in Ids : RefuseRequest(id)
         \/ \E id \in Ids : RunSyncRequest(id)
         \/ \E id \in Ids : RunShutdown(id)
         \/ \E id \in Ids, pool \in Pools, rechecks \in BOOLEAN :
              DispatchBackground(id, pool, rechecks)
         \/ \E id \in Ids : Cancel(id)
         \/ CompleteRequest
         \/ UNCHANGED requestVars
<1>1. CASE UNCHANGED vars
  BY <1>1 DEF vars, requestVars
<1>2. CASE Next
  <2>1. CASE IgnoreResponse
    BY <2>1 DEF IgnoreResponse, TakeEvent, requestVars
  <2>2. CASE HandleOther
    BY <2>2 DEF HandleOther, TakeEvent, requestVars
  <2>3. ASSUME NEW p \in Producers, ProducerStep(p) PROVE UNCHANGED requestVars
    BY <2>3 DEF ProducerStep, BeginPost, FinishPost, EndProducer, requestVars
  <2>4. ASSUME NEW t \in Threads, TakeJob(t) \/ FinishJob(t) \/ SendResult(t) \/ EndThread(t)
        PROVE  UNCHANGED requestVars
    BY <2>4 DEF TakeJob, FinishJob, SendResult, EndThread, requestVars
  <2>5. CASE Exit \/ ClientLeaves \/ SeeDisconnect \/ FinishSend \/ DropReceiver \/ DropSession
    BY <2>5 DEF Exit, ClientLeaves, SeeDisconnect, FinishSend, DropReceiver, DropSession,
                requestVars
  <2> QED
    BY <1>2, <2>1, <2>2, <2>3, <2>4, <2>5, NextCases
<1> QED
  BY <1>1, <1>2

-----------------------------------------------------------------------------
(* Who may still be answered: the invariant under AtMostOneReply.  A request *)
(* has no reply before it arrives, nor while its entry is in the queue.      *)
Unanswered == \A id \in Ids : id \in pending \/ id \notin received => replies[id] = <<>>
ReplyInv == pending \subseteq received /\ Unanswered /\ AtMostOneReply

(* Receiving a request, whatever is then done with it, answers nobody.      *)
LEMMA RegisterKeepsReplies ==
  ASSUME TypeOK, ReplyInv, NEW id \in Ids, Register(id), UNCHANGED replies
  PROVE  ReplyInv'
BY DEF TypeOK, ReplyInv, Unanswered, AtMostOneReply, Register

(* Removing the entry of a pending request entitles to one reply.           *)
LEMMA OneReply ==
  ASSUME TypeOK, ReplyInv, NEW id \in pending, NEW kind \in Kinds,
         pending' = pending \ {id}, UNCHANGED received,
         \/ UNCHANGED replies
         \/ replies' = [replies EXCEPT ![id] = Append(@, kind)]
  PROVE  ReplyInv'
<1> USE DEF TypeOK, ReplyInv, Unanswered
<1>1. id \in Ids /\ replies[id] = <<>>
  OBVIOUS
<1>2. CASE UNCHANGED replies
  BY <1>2 DEF AtMostOneReply
<1>3. CASE replies' = [replies EXCEPT ![id] = Append(@, kind)]
  <2>1. Len(Append(replies[id], kind)) = 1
    BY <1>1
  <2>2. AtMostOneReply'
    BY <1>1, <1>3, <2>1 DEF AtMostOneReply
  <2> QED
    BY <1>1, <1>3, <2>2
<1> QED
  BY <1>2, <1>3

LEMMA ReplyStep == TypeOK /\ ReplyInv /\ [Next]_vars => ReplyInv'
<1> SUFFICES ASSUME TypeOK, ReplyInv, [Next]_vars PROVE ReplyInv'
  OBVIOUS
<1>1. ASSUME NEW id \in Ids, RefuseRequest(id) \/ RunSyncRequest(id) \/ RunShutdown(id)
      PROVE  ReplyInv'
  BY <1>1, RegisterKeepsReplies DEF RefuseRequest, RunSyncRequest, RunShutdown
<1>2. ASSUME NEW id \in Ids, NEW pool \in Pools, NEW rechecks \in BOOLEAN,
             DispatchBackground(id, pool, rechecks)
      PROVE  ReplyInv'
  BY <1>2, RegisterKeepsReplies DEF DispatchBackground
<1>3. ASSUME NEW id \in Ids, Cancel(id) PROVE ReplyInv'
  <2>1. \/ UNCHANGED replies
        \/ replies' = [replies EXCEPT ![id] = Append(@, "cancelled")]
    BY <1>3 DEF Cancel, TypeOK
  <2> QED
    BY <1>3, <2>1, OneReply DEF Cancel, Kinds
<1>4. CASE CompleteRequest
  <2>1. Head(channel).kind \in Kinds
    BY <1>4 DEF CompleteRequest, TakeEvent, TypeOK, Events, Other, Responses, Kinds
  <2>2. \/ UNCHANGED replies
        \/ replies' = [replies EXCEPT ![Head(channel).id] = Append(@, Head(channel).kind)]
    BY <1>4 DEF CompleteRequest
  <2> QED
    BY <1>4, <2>1, <2>2, OneReply DEF CompleteRequest, TakeEvent
<1>5. CASE UNCHANGED requestVars
  BY <1>5 DEF requestVars, ReplyInv, Unanswered, AtMostOneReply
<1> QED
  BY <1>1, <1>2, <1>3, <1>4, <1>5, RequestSteps

LEMMA ReplyInvariant == Spec => []ReplyInv
<1>1. Init => ReplyInv
  BY DEF Init, ReplyInv, Unanswered, AtMostOneReply
<1> QED
  BY <1>1, ReplyStep, TypeCorrect, PTL DEF Spec

(* No request is answered twice.                                            *)
THEOREM NoSecondReply == Spec => []AtMostOneReply
<1>1. ReplyInv => AtMostOneReply
  BY DEF ReplyInv
<1> QED
  BY <1>1, ReplyInvariant, PTL

-----------------------------------------------------------------------------
(* A main loop blocked on its own channel stays so: whoever could make room  *)
(* is the main loop itself, and other senders have to wait too.             *)
THEOREM SelfBlockPersists == Spec => SelfBlockIsForever
<1>1. SelfBlocked /\ [Next]_vars => SelfBlocked'
  <2> SUFFICES ASSUME SelfBlocked, [Next]_vars PROVE SelfBlocked'
    OBVIOUS
  <2> USE DEF SelfBlocked, Full
  <2>1. ASSUME NEW id \in Ids,
               RefuseRequest(id) \/ RunSyncRequest(id) \/ RunShutdown(id) \/ Cancel(id)
        PROVE  SelfBlocked'
    BY <2>1 DEF RefuseRequest, RunSyncRequest, RunShutdown, Cancel, Register
  <2>2. ASSUME NEW id \in Ids, NEW pool \in Pools, NEW rechecks \in BOOLEAN,
               DispatchBackground(id, pool, rechecks)
        PROVE  SelfBlocked'
    BY <2>2 DEF DispatchBackground, Register
  <2>3. CASE CompleteRequest \/ IgnoreResponse \/ HandleOther
    BY <2>3 DEF CompleteRequest, IgnoreResponse, HandleOther, TakeEvent
  <2>4. CASE Exit \/ SeeDisconnect \/ FinishSend
    BY <2>4 DEF Exit, SeeDisconnect, FinishSend
  <2>5. CASE DropReceiver \/ DropSession
    BY <2>5 DEF DropReceiver, DropSession, LoopOver
  <2>6. CASE ClientLeaves
    BY <2>6 DEF ClientLeaves
  <2>7. ASSUME NEW t \in Threads, TakeJob(t) \/ FinishJob(t) \/ SendResult(t) \/ EndThread(t)
        PROVE  SelfBlocked'
    BY <2>7 DEF TakeJob, FinishJob, SendResult, EndThread
  <2>8. ASSUME NEW p \in Producers, ProducerStep(p) PROVE SelfBlocked'
    BY <2>8 DEF ProducerStep, BeginPost, FinishPost, EndProducer
  <2>9. CASE UNCHANGED vars
    BY <2>9 DEF vars
  <2> QED
    BY <2>1, <2>2, <2>3, <2>4, <2>5, <2>6, <2>7, <2>8, <2>9, NextCases
<1> QED
  BY <1>1, PTL DEF Spec, SelfBlockIsForever

-----------------------------------------------------------------------------
(* What is on its way says the right thing: a refusal only for a request that *)
(* came after the shutdown, and work only for one that came before.         *)
Fits(e, arrived, refused) ==
  e.type = "response" => e.id \in arrived /\ (e.kind = "refused" <=> e.id \in refused)
Admitted(j, arrived, refused) == j.id \in arrived \ refused
Busy(t) == thread[t] \in {"running", "sending"}

KindInv ==
  /\ \A i \in 1 .. Len(channel) : Fits(channel[i], received, late)
  /\ Fits(sending, received, late)
  /\ \A p \in Pools : \A i \in 1 .. Len(jobs[p]) : Admitted(jobs[p][i], received, late)
  /\ \A t \in Threads : Busy(t) => Admitted(job[t], received, late)
  /\ RefusedExactlyWhenLate

(* A request of its own does not change what was on its way before.         *)
LEMMA RegisterKeepsKinds ==
  ASSUME TypeOK, ReplyInv, KindInv, NEW id \in Ids, Register(id),
         UNCHANGED <<channel, replies, thread, job>>
  PROVE  /\ \A i \in 1 .. Len(channel') : Fits(channel'[i], received', late')
         /\ \A p \in Pools : \A i \in 1 .. Len(jobs[p]) : Admitted(jobs[p][i], received', late')
         /\ (\A t \in Threads : Busy(t) => Admitted(job[t], received, late))'
         /\ RefusedExactlyWhenLate'
<1>1. /\ received' = received \cup {id} /\ id \notin received /\ replies[id] = <<>>
      /\ late' = late \/ late' = late \cup {id}
  BY DEF Register, ReplyInv, Unanswered
<1>2. ASSUME NEW e, Fits(e, received, late) PROVE Fits(e, received', late')
  BY <1>1, <1>2 DEF Fits
<1>3. ASSUME NEW j, Admitted(j, received, late) PROVE Admitted(j, received', late')
  BY <1>1, <1>3 DEF Admitted
<1>4. RefusedExactlyWhenLate'
  <2> SUFFICES ASSUME NEW other \in Ids, NEW i \in 1 .. Len(replies[other])
               PROVE  /\ replies[other][i] = "refused" => other \in late'
                      /\ replies[other][i] = "answer" => other \notin late'
    BY DEF RefusedExactlyWhenLate
  <2>1. other # id
    BY <1>1
  <2> QED
    BY <1>1, <2>1 DEF KindInv, RefusedExactlyWhenLate
<1> QED
  BY <1>2, <1>3, <1>4 DEF KindInv, Busy

(* A reply of the right kind keeps RefusedExactlyWhenLate.                  *)
LEMMA ReplyOfKind ==
  ASSUME TypeOK, RefusedExactlyWhenLate, NEW id \in Ids, NEW kind \in Kinds,
         kind = "refused" => id \in late,
         kind = "answer" => id \notin late,
         UNCHANGED late,
         \/ UNCHANGED replies
         \/ replies' = [replies EXCEPT ![id] = Append(@, kind)]
  PROVE  RefusedExactlyWhenLate'
<1>1. CASE UNCHANGED replies
  BY <1>1 DEF RefusedExactlyWhenLate
<1>2. CASE replies' = [replies EXCEPT ![id] = Append(@, kind)]
  <2> SUFFICES ASSUME NEW other \in Ids, NEW i \in 1 .. Len(replies'[other])
               PROVE  /\ replies'[other][i] = "refused" => other \in late
                      /\ replies'[other][i] = "answer" => other \notin late
    BY DEF RefusedExactlyWhenLate
  <2>1. CASE other = id
    <3>1. replies[id] \in Seq(Kinds) /\ replies'[id] = Append(replies[id], kind)
      BY <1>2 DEF TypeOK
    <3>2. replies'[id][i] = kind \/ (i \in 1 .. Len(replies[id]) /\ replies'[id][i] = replies[id][i])
      BY <2>1, <3>1, AppendElements
    <3> QED
      BY <2>1, <3>2 DEF RefusedExactlyWhenLate
  <2>2. CASE other # id
    BY <1>2, <2>2 DEF TypeOK, RefusedExactlyWhenLate
  <2> QED
    BY <2>1, <2>2
<1> QED
  BY <1>1, <1>2

(* A send appends one fitting event.                                        *)
LEMMA AppendFits ==
  ASSUME TypeOK, KindInv, NEW e \in Events, Fits(e, received, late),
         channel' = Append(channel, e)
  PROVE  \A i \in 1 .. Len(channel') : Fits(channel'[i], received, late)
<1>1. channel \in Seq(Events)
  BY DEF TypeOK
<1> QED
  BY <1>1, AppendElements DEF KindInv

(* The invariant is inductive over the types and the replies given so far.  *)
LEMMA KindStep == TypeOK /\ ReplyInv /\ KindInv /\ [Next]_vars => KindInv'
<1> SUFFICES ASSUME TypeOK, ReplyInv, KindInv, [Next]_vars PROVE KindInv'
  OBVIOUS
<1>1. ASSUME NEW id \in Ids, RefuseRequest(id) PROVE KindInv'
  <2>1. Fits(sending', received', late') /\ UNCHANGED <<channel, replies, thread, job, jobs>>
    BY <1>1 DEF RefuseRequest, Register, RespondFromMain, Response, Fits, poolVars
  <2> QED
    BY <1>1, <2>1, RegisterKeepsKinds DEF RefuseRequest, KindInv
<1>2. ASSUME NEW id \in Ids, RunSyncRequest(id) \/ RunShutdown(id) PROVE KindInv'
  <2>1. /\ Register(id) /\ UNCHANGED <<channel, replies, thread, job, jobs, late>>
        /\ sending' = Response(id, "answer")
    BY <1>2 DEF RunSyncRequest, RunShutdown, RespondFromMain, Register, poolVars
  <2>2. Fits(sending', received', late')
    BY <2>1 DEF Register, Response, Fits, TypeOK
  <2> QED
    BY <2>1, <2>2, RegisterKeepsKinds DEF KindInv
<1>3. ASSUME NEW id \in Ids, NEW pool \in Pools, NEW rechecks \in BOOLEAN,
             DispatchBackground(id, pool, rechecks)
      PROVE  KindInv'
  <2> DEFINE j == [id |-> id, rechecks |-> rechecks]
  <2>1. Register(id) /\ UNCHANGED <<channel, replies, thread, job, late, sending>>
    BY <1>3 DEF DispatchBackground, Register
  <2>2. Admitted(j, received', late') /\ j \in Jobs
    BY <2>1 DEF Register, Admitted, TypeOK, Jobs
  <2>3. Fits(sending', received', late')
    BY <2>1 DEF Register, KindInv, Fits, TypeOK
  <2>4. jobs' = [jobs EXCEPT ![pool] = Append(@, j)]
    BY <1>3 DEF DispatchBackground
  <2>5. ASSUME NEW p \in Pools, NEW i \in 1 .. Len(jobs'[p])
        PROVE  Admitted(jobs'[p][i], received', late')
    <3>1. jobs[p] \in Seq(Jobs)
      BY DEF TypeOK
    <3>2. CASE p = pool
      <4>1. jobs'[p] = Append(jobs[p], j)
        BY <2>4, <3>2 DEF TypeOK
      <4>2. jobs'[p][i] = j \/ (i \in 1 .. Len(jobs[p]) /\ jobs'[p][i] = jobs[p][i])
        BY <2>2, <3>1, <4>1, AppendElements
      <4> HIDE DEF j
      <4> QED
        BY <2>1, <2>2, <4>2, RegisterKeepsKinds
    <3>3. CASE p # pool
      <4>1. jobs'[p] = jobs[p]
        BY <2>4, <3>3 DEF TypeOK
      <4> QED
        BY <2>1, <4>1, RegisterKeepsKinds
    <3> QED
      BY <3>2, <3>3
  <2> QED
    BY <2>1, <2>3, <2>5, RegisterKeepsKinds DEF KindInv
<1>4. ASSUME NEW id \in Ids, Cancel(id) PROVE KindInv'
  <2>1. RefusedExactlyWhenLate'
    <3>1. \/ UNCHANGED replies
          \/ replies' = [replies EXCEPT ![id] = Append(@, "cancelled")]
      BY <1>4 DEF Cancel, TypeOK
    <3> QED
      BY <1>4, <3>1, ReplyOfKind DEF Cancel, Kinds, KindInv
  <2> QED
    BY <1>4, <2>1 DEF Cancel, KindInv, Busy, poolVars
<1>5. CASE CompleteRequest \/ IgnoreResponse \/ HandleOther
  <2>1. TakeEvent
    BY <1>5 DEF CompleteRequest, IgnoreResponse, HandleOther
  <2>2. /\ UNCHANGED <<sending, received, late, jobs, thread, job>>
        /\ channel' = Tail(channel) /\ channel # <<>> /\ channel \in Seq(Events)
    BY <2>1 DEF TakeEvent, poolVars, TypeOK
  <2>3. \A i \in 1 .. Len(channel') : Fits(channel'[i], received', late')
    BY <2>2, TailElements DEF KindInv
  <2>4. RefusedExactlyWhenLate'
    <3>1. CASE CompleteRequest
      <4> DEFINE h == Head(channel)
      <4>1. h = channel[1] /\ h \in Events /\ Fits(h, received, late)
        BY <2>2, TailElements DEF KindInv
      <4>2. h.type = "response"
        BY <3>1 DEF CompleteRequest
      <4>3. h.id \in Ids /\ h.kind \in Kinds
        BY <4>1, <4>2 DEF Events, Other, Responses, Kinds
      <4>4. \/ UNCHANGED replies
            \/ replies' = [replies EXCEPT ![h.id] = Append(@, h.kind)]
        BY <3>1 DEF CompleteRequest
      <4>5. (h.kind = "refused" => h.id \in late) /\ (h.kind = "answer" => h.id \notin late)
        BY <4>1, <4>2 DEF Fits
      <4> HIDE DEF h
      <4> QED
        BY <2>2, <4>3, <4>4, <4>5, ReplyOfKind DEF KindInv
    <3>2. CASE IgnoreResponse \/ HandleOther
      BY <2>2, <3>2 DEF IgnoreResponse, HandleOther, KindInv, RefusedExactlyWhenLate
    <3> QED
      BY <1>5, <3>1, <3>2
  <2> QED
    BY <2>2, <2>3, <2>4 DEF KindInv, Busy
<1>6. CASE FinishSend
  <2>1. sending \in Events /\ channel' = Append(channel, sending)
    BY <1>6 DEF FinishSend, TypeOK, Events
  <2>2. /\ UNCHANGED <<received, late, replies, jobs, thread, job>>
        /\ sending' = NoEvent
    BY <1>6 DEF FinishSend, requestVars, poolVars
  <2>3. \A i \in 1 .. Len(channel') : Fits(channel'[i], received', late')
    BY <2>1, <2>2, AppendFits DEF KindInv
  <2>4. Fits(sending', received', late')
    BY <2>2 DEF Fits, NoEvent
  <2> QED
    BY <2>2, <2>3, <2>4 DEF KindInv, Busy, RefusedExactlyWhenLate
<1>7. ASSUME NEW t \in Threads, TakeJob(t) PROVE KindInv'
  <2> DEFINE p == PoolOf(t)
             next == Head(jobs[p])
  <2>1. p \in Pools /\ jobs[p] \in Seq(Jobs) /\ jobs[p] # <<>>
    BY <1>7 DEF TakeJob, TypeOK, Pools, PoolOf
  <2>2. Admitted(next, received, late)
    BY <2>1, TailElements DEF KindInv
  <2>3. /\ jobs' = [jobs EXCEPT ![p] = Tail(@)]
        /\ \/ UNCHANGED <<thread, job>>
           \/ /\ thread' = [thread EXCEPT ![t] = "running"]
              /\ job' = [job EXCEPT ![t] = next]
        /\ UNCHANGED <<channel, sending, received, late, replies>>
    BY <1>7 DEF TakeJob, Hold, requestVars
  <2>4. ASSUME NEW q \in Pools, NEW i \in 1 .. Len(jobs'[q])
        PROVE  Admitted(jobs'[q][i], received, late)
    <3>1. CASE q = p
      <4>1. jobs'[q] = Tail(jobs[q])
        BY <2>3, <3>1 DEF TypeOK
      <4> QED
        BY <2>1, <3>1, <4>1, TailElements DEF KindInv
    <3>2. CASE q # p
      <4>1. jobs'[q] = jobs[q]
        BY <2>3, <3>2 DEF TypeOK
      <4> QED
        BY <4>1 DEF KindInv
    <3> QED
      BY <3>1, <3>2
  <2>5. ASSUME NEW u \in Threads, Busy(u)' PROVE Admitted(job'[u], received, late)
    <3> HIDE DEF next
    <3> QED
      BY <2>2, <2>3, <2>5 DEF KindInv, Busy, TypeOK
  <2> QED
    BY <2>3, <2>4, <2>5 DEF KindInv, RefusedExactlyWhenLate
<1>8. ASSUME NEW t \in Threads, FinishJob(t) \/ SendResult(t) \/ EndThread(t)
      PROVE  KindInv'
  <2>1. UNCHANGED <<sending, received, late, replies, jobs>>
    BY <1>8 DEF FinishJob, SendResult, EndThread, requestVars
  <2>2. ASSUME NEW u \in Threads, Busy(u)' PROVE Admitted(job'[u], received, late)
    <3>1. Busy(u) /\ job'[u] = job[u]
      BY <1>8, <2>2 DEF FinishJob, SendResult, EndThread, Hold, Rest, Busy, TypeOK
    <3> QED
      BY <3>1 DEF KindInv
  <2>3. \A i \in 1 .. Len(channel') : Fits(channel'[i], received, late)
    <3>1. CASE UNCHANGED channel
      BY <3>1 DEF KindInv
    <3>2. CASE SendResult(t) /\ channel' # channel
      <4> DEFINE e == Response(job[t].id, "answer")
      <4>1. channel' = Append(channel, e) /\ Busy(t)
        BY <3>2 DEF SendResult, Busy
      <4>2. job[t] \in Jobs /\ Admitted(job[t], received, late)
        BY <4>1 DEF Busy, TypeOK, KindInv
      <4>3. e \in Events /\ Fits(e, received, late)
        BY <4>2 DEF Jobs, Response, Responses, Events, Fits, Admitted
      <4> HIDE DEF e
      <4> QED
        BY <4>1, <4>3, AppendFits
    <3> QED
      BY <1>8, <3>1, <3>2 DEF FinishJob, EndThread
  <2> QED
    BY <2>1, <2>2, <2>3 DEF KindInv, RefusedExactlyWhenLate
<1>9. ASSUME NEW p \in Producers, ProducerStep(p) PROVE KindInv'
  <2>1. UNCHANGED <<sending, received, late, replies, jobs, thread, job>>
    BY <1>9 DEF ProducerStep, BeginPost, FinishPost, EndProducer, requestVars, poolVars
  <2>2. UNCHANGED channel \/ channel' = Append(channel, Other)
    BY <1>9 DEF ProducerStep, BeginPost, FinishPost, EndProducer
  <2>3. Other \in Events /\ Fits(Other, received, late)
    BY DEF Events, Other, Fits
  <2>4. \A i \in 1 .. Len(channel') : Fits(channel'[i], received, late)
    BY <2>2, <2>3, AppendFits DEF KindInv
  <2> QED
    BY <2>1, <2>4 DEF KindInv, Busy, RefusedExactlyWhenLate
<1>10. CASE Exit \/ ClientLeaves \/ SeeDisconnect \/ DropSession \/ UNCHANGED vars
  <2>1. UNCHANGED <<channel, sending, received, late, replies, jobs, thread, job>>
    BY <1>10 DEF Exit, ClientLeaves, SeeDisconnect, DropSession, vars, requestVars, poolVars
  <2> QED
    BY <2>1 DEF KindInv, Busy, RefusedExactlyWhenLate
<1>11. CASE DropReceiver
  <2>1. channel' = <<>> /\ UNCHANGED <<sending, received, late, replies, jobs, thread, job>>
    BY <1>11 DEF DropReceiver, requestVars, poolVars
  <2> QED
    BY <2>1 DEF KindInv, Busy, RefusedExactlyWhenLate
<1> QED
  BY <1>1, <1>2, <1>3, <1>4, <1>5, <1>6, <1>7, <1>8, <1>9, <1>10, <1>11, NextCases

(* A reply says what happened: refused exactly when it came too late.        *)
THEOREM RefusalsAreRight == Spec => []RefusedExactlyWhenLate
<1>1. Init => KindInv
  <2> SUFFICES ASSUME Init PROVE KindInv
    OBVIOUS
  <2>1. \A p \in Pools : jobs[p] = <<>>
    BY DEF Init
  <2>2. \A t \in Threads : ~Busy(t)
    BY DEF Init, Busy
  <2>3. \A id \in Ids : replies[id] = <<>>
    BY DEF Init
  <2> QED
    BY <2>1, <2>2, <2>3 DEF Init, KindInv, Fits, NoEvent, RefusedExactlyWhenLate
<1>2. KindInv => RefusedExactlyWhenLate
  BY DEF KindInv
<1> QED
  BY <1>1, <1>2, KindStep, TypeCorrect, ReplyInvariant, PTL DEF Spec

-----------------------------------------------------------------------------
(* A token is cancelled only for a request whose entry is gone, and a token   *)
(* exists only for a request that arrived: so the job or the result that is  *)
(* dropped for its token is owed to nobody.                                 *)
TokenInv ==
  \A id \in Ids :
    /\ tokens[id] = "cancelled" => id \notin pending
    /\ id \notin received => tokens[id] = "none"

LEMMA TokenStep == TypeOK /\ TokenInv /\ [Next]_vars => TokenInv'
<1> SUFFICES ASSUME TypeOK, TokenInv, [Next]_vars PROVE TokenInv'
  OBVIOUS
<1> USE DEF TypeOK, TokenInv
<1>1. ASSUME NEW id \in Ids, RefuseRequest(id) \/ RunSyncRequest(id) \/ RunShutdown(id)
      PROVE  TokenInv'
  BY <1>1 DEF RefuseRequest, RunSyncRequest, RunShutdown, Register
<1>2. ASSUME NEW id \in Ids, NEW pool \in Pools, NEW rechecks \in BOOLEAN,
             DispatchBackground(id, pool, rechecks)
      PROVE  TokenInv'
  BY <1>2 DEF DispatchBackground, Register
<1>3. ASSUME NEW id \in Ids, Cancel(id) PROVE TokenInv'
  <2>1. /\ received' = received /\ pending' = pending \ {id}
        /\ tokens' = [tokens EXCEPT ![id] = IF @ = "live" THEN "cancelled" ELSE @]
    BY <1>3 DEF Cancel
  <2> QED
    BY <2>1
<1>4. CASE CompleteRequest
  BY <1>4 DEF CompleteRequest, TakeEvent
<1>5. CASE UNCHANGED requestVars
  BY <1>5 DEF requestVars
<1> QED
  BY <1>1, <1>2, <1>3, <1>4, <1>5, RequestSteps

(* Where the work for `id` is: the disjuncts of NoLostRequest.               *)
InHand(id) == Queued(id) \/ Running(id) \/ Answering(id)

LEMMA LostStep == TypeOK /\ TokenInv /\ NoLostRequest /\ [Next]_vars => NoLostRequest'
<1> SUFFICES ASSUME TypeOK, TokenInv, NoLostRequest, [Next]_vars,
                    receiver', NEW id \in pending'
             PROVE  InHand(id)'
  BY DEF NoLostRequest, InHand
<1>1. ASSUME receiver, id \in pending PROVE InHand(id)
  BY <1>1 DEF NoLostRequest, InHand
<1>2. ASSUME NEW x \in Ids, RefuseRequest(x) \/ RunSyncRequest(x) \/ RunShutdown(x)
      PROVE  InHand(id)'
  <2>1. /\ UNCHANGED <<channel, receiver, jobs, thread, job>>
        /\ \E kind \in {"refused", "answer"} : sending' = Response(x, kind)
        /\ pending' = pending \cup {x} /\ main = "select"
    BY <1>2 DEF RefuseRequest, RunSyncRequest, RunShutdown, Register, RespondFromMain, poolVars
  <2>2. CASE id = x
    BY <2>1, <2>2 DEF InHand, Answering, Response
  <2>3. CASE id # x
    <3>1. InHand(id) /\ sending.type # "response"
      BY <1>1, <2>1, <2>3 DEF TypeOK, NoEvent
    <3> QED
      BY <2>1, <3>1 DEF InHand, Queued, Running, Answering
  <2> QED
    BY <2>2, <2>3
<1>3. ASSUME NEW x \in Ids, NEW pool \in Pools, NEW rechecks \in BOOLEAN,
             DispatchBackground(x, pool, rechecks)
      PROVE  InHand(id)'
  <2> DEFINE j == [id |-> x, rechecks |-> rechecks]
  <2>1. /\ UNCHANGED <<channel, sending, receiver, thread, job>>
        /\ jobs' = [jobs EXCEPT ![pool] = Append(@, j)]
        /\ pending' = pending \cup {x}
    BY <1>3 DEF DispatchBackground, Register
  <2>2. j \in Jobs /\ jobs[pool] \in Seq(Jobs) /\ jobs'[pool] = Append(jobs[pool], j)
    BY <2>1 DEF Jobs, TypeOK
  <2>3. CASE id = x
    <3>1. \E i \in 1 .. Len(jobs'[pool]) : jobs'[pool][i] = j
      BY <2>2, AppendElements
    <3> QED
      BY <2>3, <3>1 DEF InHand, Queued
  <2>4. CASE id # x /\ Queued(id)
    <3>1. PICK p \in Pools : \E i \in 1 .. Len(jobs[p]) : jobs[p][i].id = id
      BY <2>4 DEF Queued
    <3>2. CASE p = pool
      <4> HIDE DEF j
      <4>1. \E i \in 1 .. Len(jobs'[pool]) : jobs'[pool][i].id = id
        BY <2>2, <3>1, <3>2, AppendElements
      <4> QED
        BY <4>1 DEF InHand, Queued
    <3>3. CASE p # pool
      <4>1. jobs'[p] = jobs[p]
        BY <2>1, <3>3 DEF TypeOK
      <4> QED
        BY <3>1, <4>1 DEF InHand, Queued
    <3> QED
      BY <3>2, <3>3
  <2>5. CASE id # x /\ ~Queued(id)
    <3>1. Running(id) \/ Answering(id)
      BY <1>1, <2>1, <2>5 DEF InHand
    <3> QED
      BY <2>1, <3>1 DEF InHand, Running, Answering
  <2> QED
    BY <2>3, <2>4, <2>5
<1>4. ASSUME NEW x \in Ids, Cancel(x) PROVE InHand(id)'
  <2>1. UNCHANGED <<channel, sending, receiver, jobs, thread, job>> /\ id \in pending
    BY <1>4 DEF Cancel, poolVars
  <2> QED
    BY <1>1, <2>1 DEF InHand, Queued, Running, Answering
<1>5. CASE CompleteRequest \/ IgnoreResponse \/ HandleOther
  <2>1. TakeEvent /\ id \in pending
    BY <1>5 DEF CompleteRequest, IgnoreResponse, HandleOther
  <2>2. /\ UNCHANGED <<sending, receiver, jobs, thread, job>>
        /\ channel' = Tail(channel) /\ channel # <<>> /\ channel \in Seq(Events)
    BY <2>1 DEF TakeEvent, poolVars, TypeOK
  <2>3. Head(channel).type = "response" => Head(channel).id # id
    BY <1>5, <2>1 DEF CompleteRequest, IgnoreResponse, HandleOther
  <2>4. ASSUME NEW i \in 1 .. Len(channel), channel[i].type = "response", channel[i].id = id
        PROVE  Answering(id)'
    <3>1. \E k \in 1 .. Len(channel') : channel'[k] = channel[i]
      BY <2>2, <2>3, <2>4, TailElements
    <3> QED
      BY <2>4, <3>1 DEF Answering
  <2> QED
    BY <1>1, <2>1, <2>2, <2>4 DEF InHand, Queued, Running, Answering
<1>6. CASE FinishSend
  <2>1. /\ channel' = Append(channel, sending) /\ sending \in Events
        /\ channel \in Seq(Events)
        /\ UNCHANGED <<receiver, jobs, thread, job>> /\ id \in pending
    BY <1>6 DEF FinishSend, TypeOK, Events, requestVars, poolVars
  <2>2. Answering(id) => Answering(id)'
    BY <2>1, AppendElements DEF Answering
  <2> QED
    BY <1>1, <2>1, <2>2 DEF InHand, Queued, Running
<1>7. ASSUME NEW t \in Threads, TakeJob(t) PROVE InHand(id)'
  <2> DEFINE p == PoolOf(t)
             next == Head(jobs[p])
  <2>1. p \in Pools /\ jobs[p] \in Seq(Jobs) /\ jobs[p] # <<>>
    BY <1>7 DEF TakeJob, TypeOK, Pools, PoolOf
  <2>2. /\ UNCHANGED <<channel, sending, receiver>> /\ id \in pending /\ id \in Ids
        /\ thread[t] = "idle"
        /\ jobs' = [jobs EXCEPT ![p] = Tail(@)]
    BY <1>7 DEF TakeJob, requestVars, TypeOK
  <2>3. \/ tokens[next.id] = "cancelled" /\ UNCHANGED <<thread, job>>
        \/ /\ thread' = [thread EXCEPT ![t] = "running"]
           /\ job' = [job EXCEPT ![t] = next]
    BY <1>7 DEF TakeJob, Hold
  <2>4. CASE Queued(id)
    <3>1. PICK q \in Pools : \E i \in 1 .. Len(jobs[q]) : jobs[q][i].id = id
      BY <2>4 DEF Queued
    <3>2. CASE q # p
      <4>1. jobs'[q] = jobs[q]
        BY <2>2, <3>2 DEF TypeOK
      <4> QED
        BY <3>1, <4>1 DEF InHand, Queued
    <3>3. CASE q = p /\ next.id = id
      <4>1. thread'[t] = "running" /\ job'[t] = next
        BY <2>2, <2>3, <3>3 DEF TokenInv, TypeOK
      <4> QED
        BY <3>3, <4>1 DEF InHand, Running
    <3>4. CASE q = p /\ next.id # id
      <4>1. \E i \in 1 .. Len(Tail(jobs[p])) : Tail(jobs[p])[i].id = id
        BY <2>1, <3>1, <3>4, TailElements
      <4>2. jobs'[p] = Tail(jobs[p])
        BY <2>1, <2>2 DEF TypeOK
      <4> QED
        BY <2>1, <4>1, <4>2 DEF InHand, Queued
    <3> QED
      BY <3>2, <3>3, <3>4
  <2>5. CASE Running(id)
    <3>1. PICK u \in Threads : thread[u] \in {"running", "sending"} /\ job[u].id = id
      BY <2>5 DEF Running
    <3>2. thread'[u] = thread[u] /\ job'[u] = job[u]
      BY <2>2, <2>3, <3>1 DEF TypeOK
    <3> QED
      BY <3>1, <3>2 DEF InHand, Running
  <2>6. CASE Answering(id)
    BY <2>2, <2>6 DEF InHand, Answering
  <2> QED
    BY <1>1, <2>2, <2>4, <2>5, <2>6 DEF InHand
<1>8. ASSUME NEW t \in Threads, FinishJob(t) PROVE InHand(id)'
  <2>1. UNCHANGED <<channel, sending, receiver, jobs>> /\ id \in pending /\ id \in Ids
    BY <1>8 DEF FinishJob, requestVars, TypeOK
  <2>2. CASE Running(id)
    <3>1. PICK u \in Threads : thread[u] \in {"running", "sending"} /\ job[u].id = id
      BY <2>2 DEF Running
    <3>2. u = t => tokens[job[t].id] # "cancelled"
      BY <2>1, <3>1 DEF TokenInv
    <3>3. thread'[u] \in {"running", "sending"} /\ job'[u] = job[u]
      BY <1>8, <3>1, <3>2 DEF FinishJob, Hold, Rest, TypeOK
    <3> QED
      BY <3>1, <3>3 DEF InHand, Running
  <2> QED
    BY <1>1, <2>1, <2>2 DEF InHand, Queued, Answering
<1>9. ASSUME NEW t \in Threads, SendResult(t) PROVE InHand(id)'
  <2> DEFINE e == Response(job[t].id, "answer")
  <2>1. /\ UNCHANGED <<sending, jobs>> /\ id \in pending /\ receiver
        /\ thread[t] = "sending" /\ channel' = Append(channel, e)
    BY <1>9 DEF SendResult, requestVars
  <2>2. e \in Events /\ channel \in Seq(Events)
    BY <2>1 DEF TypeOK, Jobs, Response, Responses, Events
  <2>3. CASE Running(id)
    <3>1. PICK u \in Threads : thread[u] \in {"running", "sending"} /\ job[u].id = id
      BY <2>3 DEF Running
    <3>2. CASE u = t
      <4>1. \E i \in 1 .. Len(channel') : channel'[i] = e
        BY <2>1, <2>2, AppendElements
      <4>2. e.type = "response" /\ e.id = id
        BY <3>1, <3>2 DEF Response
      <4> HIDE DEF e
      <4> QED
        BY <4>1, <4>2 DEF InHand, Answering
    <3>3. CASE u # t
      <4>1. thread'[u] = thread[u] /\ job'[u] = job[u]
        BY <1>9, <3>3 DEF SendResult, Hold, Rest, TypeOK
      <4> QED
        BY <3>1, <4>1 DEF InHand, Running
    <3> QED
      BY <3>2, <3>3
  <2>4. CASE Answering(id)
    <3> HIDE DEF e
    <3>1. Answering(id)'
      BY <2>1, <2>2, <2>4, AppendElements DEF Answering
    <3> QED
      BY <3>1 DEF InHand
  <2> QED
    BY <1>1, <2>1, <2>3, <2>4 DEF InHand, Queued
<1>10. ASSUME NEW t \in Threads, EndThread(t) PROVE InHand(id)'
  <2>1. /\ UNCHANGED <<channel, sending, receiver, jobs>> /\ id \in pending
        /\ thread[t] = "idle"
        /\ thread' = [thread EXCEPT ![t] = "done"] /\ job' = [job EXCEPT ![t] = NoJob]
    BY <1>10 DEF EndThread, Hold, requestVars
  <2>2. Running(id) => Running(id)'
    BY <2>1 DEF Running, TypeOK
  <2> QED
    BY <1>1, <2>1, <2>2 DEF InHand, Queued, Answering
<1>11. ASSUME NEW p \in Producers, ProducerStep(p) PROVE InHand(id)'
  <2>1. /\ UNCHANGED <<sending, receiver, jobs, thread, job>> /\ id \in pending
        /\ UNCHANGED channel \/ channel' = Append(channel, Other)
    BY <1>11 DEF ProducerStep, BeginPost, FinishPost, EndProducer, requestVars, poolVars
  <2>2. Other \in Events /\ channel \in Seq(Events)
    BY DEF Events, TypeOK
  <2>3. Answering(id) => Answering(id)'
    <3>1. CASE UNCHANGED channel
      BY <2>1, <3>1 DEF Answering
    <3>2. CASE channel' = Append(channel, Other)
      <4>1. \A i \in 1 .. Len(channel) : i \in 1 .. Len(channel') /\ channel'[i] = channel[i]
        BY <2>2, <3>2, AppendElements
      <4> QED
        BY <2>1, <4>1 DEF Answering
    <3> QED
      BY <2>1, <3>1, <3>2
  <2> QED
    BY <1>1, <2>1, <2>3 DEF InHand, Queued, Running
<1>12. CASE Exit \/ ClientLeaves \/ SeeDisconnect \/ DropSession \/ UNCHANGED vars
  <2>1. UNCHANGED <<channel, sending, receiver, jobs, thread, job, pending>>
    BY <1>12 DEF Exit, ClientLeaves, SeeDisconnect, DropSession, vars, requestVars, poolVars
  <2> QED
    BY <1>1, <2>1 DEF InHand, Queued, Running, Answering
<1>13. ~DropReceiver
  BY DEF DropReceiver
<1> QED
  BY <1>2, <1>3, <1>4, <1>5, <1>6, <1>7, <1>8, <1>9, <1>10, <1>11, <1>12, <1>13, NextCases

(* While the loop can answer, no request is forgotten, whichever way its     *)
(* cancellation crosses its job or its response.                            *)
THEOREM RequestsAreKept == Spec => []NoLostRequest
<1>1. Init => TokenInv /\ NoLostRequest
  BY DEF Init, TokenInv, NoLostRequest
<1> QED
  BY <1>1, LostStep, TokenStep, TypeCorrect, PTL DEF Spec
-----------------------------------------------------------------------------
(* No entry goes without its reply: as long as the client is there, a request *)
(* is pending or answered, so nothing takes its entry without writing.       *)
Accounted ==
  ~clientGone =>
    \A id \in received : id \in pending \/ \E kind \in Kinds : replies[id] = <<kind>>

(* The part of EveryRequestAnswered that is an invariant: when the main loop  *)
(* and the pools have nothing left to do, every request that ever came has   *)
(* its one reply.                                                           *)
QuietIsAnswered ==
  /\ receiver /\ ~clientGone /\ main = "select" /\ channel = <<>>
  /\ \A p \in Pools : jobs[p] = <<>>
  /\ \A t \in Threads : thread[t] \in {"idle", "done"}
  => \A id \in received : Len(replies[id]) = 1

(* Who takes an entry away answers, with the client there to hear it.        *)
LEMMA AccountedAfterReply ==
  ASSUME TypeOK, ReplyInv, Accounted, NEW id \in pending, NEW kind \in Kinds,
         pending' = pending \ {id}, UNCHANGED <<received, clientGone>>,
         ~clientGone => replies' = [replies EXCEPT ![id] = Append(@, kind)]
  PROVE  Accounted'
<1> SUFFICES ASSUME ~clientGone, NEW x \in received
             PROVE  x \in pending' \/ \E k \in Kinds : replies'[x] = <<k>>
  BY DEF Accounted
<1>1. x \in Ids /\ id \in Ids /\ replies[id] = <<>>
  BY DEF TypeOK, ReplyInv, Unanswered
<1>2. CASE x = id
  <2>1. replies'[x] = Append(<<>>, kind)
    BY <1>1, <1>2 DEF TypeOK
  <2>2. Append(<<>>, kind) = <<kind>>
    OBVIOUS
  <2> QED
    BY <2>1, <2>2
<1>3. CASE x # id
  BY <1>1, <1>3 DEF TypeOK, Accounted
<1> QED
  BY <1>2, <1>3

LEMMA AccountedStep == TypeOK /\ ReplyInv /\ Accounted /\ [Next]_vars => Accounted'
<1> SUFFICES ASSUME TypeOK, ReplyInv, Accounted, [Next]_vars PROVE Accounted'
  OBVIOUS
<1>1. ASSUME NEW id \in Ids, RefuseRequest(id) \/ RunSyncRequest(id) \/ RunShutdown(id)
      PROVE  Accounted'
  BY <1>1 DEF RefuseRequest, RunSyncRequest, RunShutdown, Register, Accounted
<1>2. ASSUME NEW id \in Ids, NEW pool \in Pools, NEW rechecks \in BOOLEAN,
             DispatchBackground(id, pool, rechecks)
      PROVE  Accounted'
  BY <1>2 DEF DispatchBackground, Register, Accounted
<1>3. ASSUME NEW id \in Ids, Cancel(id) PROVE Accounted'
  <2>1. ~clientGone => replies' = [replies EXCEPT ![id] = Append(@, "cancelled")]
    BY <1>3 DEF Cancel, TypeOK
  <2> QED
    BY <1>3, <2>1, AccountedAfterReply DEF Cancel, Kinds
<1>4. CASE CompleteRequest
  <2>1. Head(channel).kind \in Kinds
    BY <1>4 DEF CompleteRequest, TakeEvent, TypeOK, Events, Other, Responses, Kinds
  <2>2. ~clientGone =>
          replies' = [replies EXCEPT ![Head(channel).id] = Append(@, Head(channel).kind)]
    BY <1>4 DEF CompleteRequest
  <2> QED
    BY <1>4, <2>1, <2>2, AccountedAfterReply DEF CompleteRequest, TakeEvent
<1>5. CASE UNCHANGED requestVars
  <2>1. clientGone => clientGone'
    BY NextCases
    DEF vars, RefuseRequest, RunSyncRequest, RunShutdown, DispatchBackground, Cancel, Exit,
        ClientLeaves, SeeDisconnect, CompleteRequest, IgnoreResponse, HandleOther, TakeEvent,
        FinishSend, TakeJob, FinishJob, SendResult, EndThread, ProducerStep, BeginPost,
        FinishPost, EndProducer, DropReceiver, DropSession
  <2> QED
    BY <1>5, <2>1 DEF requestVars, Accounted
<1> QED
  BY <1>1, <1>2, <1>3, <1>4, <1>5, RequestSteps

(* No entry is taken without a reply, however cancellation, response and     *)
(* shutdown cross.                                                          *)
THEOREM EntriesAreAccounted == Spec => []Accounted
<1>1. Init => Accounted
  BY DEF Init, Accounted
<1> QED
  BY <1>1, AccountedStep, ReplyInvariant, TypeCorrect, PTL DEF Spec

(* At rest every request has exactly one reply.                             *)
THEOREM QuietLoopHasAnswered == Spec => []QuietIsAnswered
<1>1. TypeOK /\ NoLostRequest /\ Accounted => QuietIsAnswered
  <2> SUFFICES ASSUME TypeOK, NoLostRequest, Accounted,
                      receiver, ~clientGone, main = "select", channel = <<>>,
                      \A p \in Pools : jobs[p] = <<>>,
                      \A t \in Threads : thread[t] \in {"idle", "done"},
                      NEW id \in received
               PROVE  Len(replies[id]) = 1
    BY DEF QuietIsAnswered
  <2>1. Len(channel) = 0 /\ \A p \in Pools : Len(jobs[p]) = 0
    OBVIOUS
  <2>2. sending.type # "response"
    BY DEF TypeOK, NoEvent
  <2>3. ~Queued(id) /\ ~Running(id) /\ ~Answering(id)
    BY <2>1, <2>2 DEF Queued, Running, Answering
  <2>4. id \notin pending
    BY <2>3 DEF NoLostRequest
  <2>5. PICK kind \in Kinds : replies[id] = <<kind>>
    BY <2>4 DEF Accounted
  <2> QED
    BY <2>5
<1> QED
  BY <1>1, EntriesAreAccounted, RequestsAreKept, TypeCorrect, PTL
=============================================================================
