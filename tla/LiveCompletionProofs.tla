------------------------- MODULE LiveCompletionProofs -------------------------
(***************************************************************************)
(* LiveCompletion for every set of callers and every capacity of the        *)
(* channel: types, one reply per question, no handler that outlives it, and *)
(* no question left with the client that nobody will settle.               *)
(***************************************************************************)
EXTENDS LiveCompletion, TLAPS

(* Each disjunct of Next, by name, for the case splits below.               *)
LEMMA NextCases ==
  ASSUME Next
  PROVE  \/ \E c \in Callers : Ask(c)
         \/ \E c \in Callers : Queue(c)
         \/ \E c \in Callers : Check(c)
         \/ \E c \in Callers : Listen(c)
         \/ \E c \in Callers : GiveUp(c)
         \/ \E c \in Callers : Expire(c)
         \/ \E c \in Callers : CancelToken(c)
         \/ \E c \in Callers : Decline(c)
         \/ \E c \in Callers : Forward(c)
         \/ \E c \in Callers : Withdraw(c)
         \/ \E c \in Callers : WithdrawNothing(c)
         \/ \E c \in Callers, usable \in BOOLEAN : Accept(c, usable)
         \/ \E c \in Callers : IgnoreAnswer(c)
         \/ SessionMoves
         \/ ClientLeaves
         \/ LoopEnds
         \/ DropReceiver
         \/ DropSession
BY DEF Next, CallerStep, HandleEvent, HandleAnswer

(* A send adds the event at the end and respects the bound.                 *)
LEMMA Posting ==
  ASSUME TypeOK, NEW event \in Events, Post(event)
  PROVE  /\ channel' \in Seq(Events)
         /\ Len(channel') = Len(channel) + 1
         /\ Len(channel') <= Capacity
         /\ \A i \in 1 .. Len(channel) : channel'[i] = channel[i]
         /\ channel'[Len(channel')] = event
BY CapacityAssumption DEF TypeOK, Post, Full

(* A receive takes the first event.                                         *)
LEMMA Taking ==
  ASSUME TypeOK, NEW event \in Events, TakeEvent(event)
  PROVE  /\ channel' \in Seq(Events)
         /\ Len(channel') = Len(channel) - 1
         /\ Len(channel) \in Nat \ {0}
         /\ channel[1] = event
         /\ \A i \in 1 .. Len(channel') : channel'[i] = channel[i + 1]
BY DEF TypeOK, TakeEvent

LEMMA EmptyChannel == <<>> \in Seq(Events) /\ Len(<<>>) <= Capacity
<1>1. Len(<<>>) = 0 /\ \A S : <<>> \in Seq(S)
  OBVIOUS
<1> QED
  BY <1>1, CapacityAssumption

LEMMA EventTypes == \A c \in Callers : Start(c) \in Events /\ Cancel(c) \in Events
BY DEF Start, Cancel, Events

(* Events are told apart by their kind and their question.                  *)
LEMMA EventsDiffer ==
  ASSUME NEW c \in Callers, NEW d \in Callers
  PROVE  /\ Start(c) = Start(d) <=> c = d
         /\ Cancel(c) = Cancel(d) <=> c = d
         /\ Start(c) # Cancel(d)
<1>1. Start(c).of = c /\ Start(d).of = d /\ Cancel(c).of = c /\ Cancel(d).of = d
  BY DEF Start, Cancel
<1>2. Start(c).type = "start" /\ Cancel(d).type = "cancel"
  BY DEF Start, Cancel
<1> QED
  BY <1>1, <1>2

(* The type invariant is inductive on its own. *)
THEOREM CompletionTypeCorrect == Spec => []TypeOK
<1>1. Init => TypeOK
  <2> SUFFICES ASSUME Init PROVE TypeOK
    OBVIOUS
  <2>1. channel \in Seq(Events) /\ Len(channel) <= Capacity
    BY EmptyChannel DEF Init
  <2>2. /\ caller \in [Callers -> {"idle", "queueing", "waiting", "listening", "cancelling", "done"}]
        /\ snapshot \in [Callers -> Nat]
        /\ reply \in [Callers -> {"empty", "some", "none"}]
        /\ result \in [Callers -> {"some", "none"}]
    BY DEF Init
  <2> QED
    BY <2>1, <2>2 DEF Init, TypeOK
<1>2. TypeOK /\ [Next]_vars => TypeOK'
  <2> SUFFICES ASSUME TypeOK, [Next]_vars PROVE TypeOK'
    OBVIOUS
  <2>1. ASSUME NEW c \in Callers, Ask(c) PROVE TypeOK'
    <3>1. PICK s \in 0 .. session : snapshot' = [snapshot EXCEPT ![c] = s]
      BY <2>1 DEF Ask
    <3> QED
      BY <2>1, <3>1 DEF Ask, GoTo, TypeOK, timeVars, channelVars, clientVars
  <2>2. ASSUME NEW c \in Callers, Queue(c) PROVE TypeOK'
    <3>1. channel' \in Seq(Events) /\ Len(channel') <= Capacity
      BY <2>2, Posting, EventTypes DEF Queue, TypeOK
    <3> QED
      BY <2>2, <3>1 DEF Queue, GoTo, TypeOK, timeVars, clientVars
  <2>3. ASSUME NEW c \in Callers, Check(c) PROVE TypeOK'
    BY <2>3 DEF Check, GoTo, TypeOK, timeVars, channelVars, clientVars
  <2>4. ASSUME NEW c \in Callers, Listen(c) PROVE TypeOK'
    <3>1. caller' \in [Callers -> {"idle", "queueing", "waiting", "listening", "cancelling", "done"}]
      BY <2>4 DEF Listen, GoTo, TypeOK
    <3>2. reply' \in [Callers -> {"empty", "some", "none"}] /\ result' \in [Callers -> {"some", "none"}]
      BY <2>4 DEF Listen, TypeOK
    <3> QED
      BY <2>4, <3>1, <3>2 DEF Listen, TypeOK, timeVars, channelVars, clientVars
  <2>5. ASSUME NEW c \in Callers, GiveUp(c) PROVE TypeOK'
    <3>1. channel' \in Seq(Events) /\ Len(channel') <= Capacity
      BY <2>5, Posting, EventTypes DEF GiveUp, TypeOK
    <3> QED
      BY <2>5, <3>1 DEF GiveUp, GoTo, TypeOK, timeVars, clientVars
  <2>6. ASSUME NEW c \in Callers, Expire(c) \/ CancelToken(c) PROVE TypeOK'
    BY <2>6 DEF Expire, CancelToken, TypeOK, callerVars, channelVars, clientVars
  <2>7. ASSUME NEW c \in Callers,
               Decline(c) \/ Forward(c) \/ Withdraw(c) \/ WithdrawNothing(c)
        PROVE  TypeOK'
    <3>1. TakeEvent(Start(c)) \/ TakeEvent(Cancel(c))
      BY <2>7 DEF Decline, Forward, Withdraw, WithdrawNothing
    <3>2. channel' \in Seq(Events) /\ Len(channel') <= Capacity
      BY <3>1, Taking, EventTypes, CapacityAssumption DEF TypeOK
    <3>3. UNCHANGED <<callerVars, timeVars, receiver, session, clientGone>>
      BY <3>1 DEF TakeEvent
    <3>4. /\ reply' \in [Callers -> {"empty", "some", "none"}]
          /\ loop' \in {"running", "ended", "broken"}
          /\ handlers' \subseteq Callers /\ open' \subseteq Callers /\ told' \subseteq Callers
      BY <2>7 DEF Decline, Forward, Withdraw, WithdrawNothing, Reply, TypeOK
    <3> QED
      BY <3>2, <3>3, <3>4 DEF TypeOK, callerVars, timeVars
  <2>8. ASSUME NEW c \in Callers, NEW usable \in BOOLEAN, Accept(c, usable) PROVE TypeOK'
    <3>1. reply' \in [Callers -> {"empty", "some", "none"}]
      BY <2>8 DEF Accept, Reply, TypeOK
    <3> QED
      BY <2>8, <3>1 DEF Accept, ReceiveAnswer, TypeOK, callerVars, timeVars, channelVars
  <2>9. ASSUME NEW c \in Callers, IgnoreAnswer(c) PROVE TypeOK'
    BY <2>9 DEF IgnoreAnswer, ReceiveAnswer, TypeOK, callerVars, timeVars, channelVars
  <2>10. CASE SessionMoves \/ ClientLeaves \/ LoopEnds
    <3>1. CASE SessionMoves
      BY <3>1 DEF SessionMoves, TypeOK, callerVars, timeVars, channelVars, clientVars
    <3>2. CASE ClientLeaves
      BY <3>2 DEF ClientLeaves, TypeOK, callerVars, timeVars, channelVars
    <3>3. CASE LoopEnds
      BY <3>3 DEF LoopEnds, TypeOK, callerVars, timeVars, channelVars, clientVars
    <3> QED
      BY <2>10, <3>1, <3>2, <3>3
  <2>11. CASE DropReceiver
    BY <2>11, EmptyChannel
    DEF DropReceiver, TypeOK, callerVars, timeVars, clientVars
  <2>12. CASE DropSession
    BY <2>12 DEF DropSession, TypeOK, callerVars, timeVars, channelVars, clientVars
  <2>13. CASE UNCHANGED vars
    BY <2>13 DEF vars, TypeOK, callerVars, timeVars, channelVars, clientVars
  <2> QED
    BY <2>1, <2>2, <2>3, <2>4, <2>5, <2>6, <2>7, <2>8, <2>9, <2>10, <2>11, <2>12, <2>13,
       NextCases
<1> QED
  BY <1>1, <1>2, PTL DEF Spec

-----------------------------------------------------------------------------
(* What holds of each question on its way.  Before it is queued nobody else   *)
(* knows of it; it is in the channel at most once; and a question in the    *)
(* channel or in the table has its caller, or its cancellation is behind it. *)
Attended(c) == caller[c] \in {"waiting", "listening", "cancelling"}
Before(i, event) == \E j \in 1 .. Len(channel) : i < j /\ channel[j] = event

Unknown(c) == caller[c] \in {"idle", "queueing"} => ~SenderAlive(c) /\ reply[c] = "empty"
QueuedOnce(c) ==
  \A i, j \in 1 .. Len(channel) : channel[i] = Start(c) /\ channel[j] = Start(c) => i = j
Answerable(c) ==
  /\ SenderAlive(c) => reply[c] = "empty"
  /\ ~(Posted(Start(c)) /\ c \in handlers)
Followed(c) ==
  \A i \in 1 .. Len(channel) :
    channel[i] = Start(c) => Attended(c) \/ Before(i, Cancel(c))
Kept(c) == receiver /\ c \in handlers => Attended(c) \/ Posted(Cancel(c))
QuestionInv(c) == Unknown(c) /\ QueuedOnce(c) /\ Answerable(c) /\ Followed(c) /\ Kept(c)
LifeInv == (~receiver => channel = <<>>) /\ \A c \in Callers : QuestionInv(c)

LEMMA LifeInit == Init => LifeInv
BY DEF Init, LifeInv, QuestionInv, Unknown, QueuedOnce, Answerable, Followed, Kept,
       SenderAlive, Posted

(* Posting an event of another question, or the cancellation of this one,    *)
(* leaves its starts where they are.                                        *)
LEMMA PostingKeepsStarts ==
  ASSUME TypeOK, NEW c \in Callers, NEW event \in Events, Post(event), event # Start(c)
  PROVE  /\ \A i \in 1 .. Len(channel') :
              channel'[i] = Start(c) => i \in 1 .. Len(channel) /\ channel[i] = Start(c)
         /\ Posted(Start(c))' <=> Posted(Start(c))
         /\ Posted(Cancel(c)) => Posted(Cancel(c))'
         /\ \A i \in 1 .. Len(channel) : Before(i, Cancel(c)) => Before(i, Cancel(c))'
<1>1. Len(channel) \in Nat
  BY DEF TypeOK
<1> QED
  BY <1>1, Posting DEF Posted, Before

(* Receiving an event moves the others one place to the front.              *)
LEMMA TakingShifts ==
  ASSUME TypeOK, NEW c \in Callers, NEW event \in Events, TakeEvent(event)
  PROVE  /\ \A i \in 1 .. Len(channel') :
              i + 1 \in 1 .. Len(channel) /\ channel'[i] = channel[i + 1]
         /\ Posted(Start(c))' => Posted(Start(c))
         /\ event # Cancel(c) => (Posted(Cancel(c)) => Posted(Cancel(c))')
         /\ \A i \in 1 .. Len(channel') :
              Before(i + 1, Cancel(c)) => Before(i, Cancel(c))'
         /\ Before(1, Cancel(c)) => Posted(Cancel(c))'
<1>1. Len(channel) \in Nat \ {0} /\ Len(channel') = Len(channel) - 1
  BY Taking
<1>2. \A i \in 1 .. Len(channel') : i + 1 \in 1 .. Len(channel) /\ channel'[i] = channel[i + 1]
  BY <1>1, Taking
<1>3. \A j \in 1 .. Len(channel) :
        j = 1 \/ (j - 1 \in 1 .. Len(channel') /\ channel'[j - 1] = channel[j])
  BY <1>1, <1>2
<1>4. Posted(Start(c))' => Posted(Start(c))
  BY <1>2 DEF Posted
<1>5. ASSUME event # Cancel(c), Posted(Cancel(c)) PROVE Posted(Cancel(c))'
  <2>1. PICK j \in 1 .. Len(channel) : channel[j] = Cancel(c)
    BY <1>5 DEF Posted
  <2>2. j # 1
    BY <1>5, <2>1, Taking
  <2> QED
    BY <1>3, <2>1, <2>2 DEF Posted
<1>6. ASSUME NEW i \in 1 .. Len(channel'), Before(i + 1, Cancel(c))
      PROVE  Before(i, Cancel(c))'
  <2>1. PICK j \in 1 .. Len(channel) : i + 1 < j /\ channel[j] = Cancel(c)
    BY <1>6 DEF Before
  <2>2. j - 1 \in 1 .. Len(channel') /\ channel'[j - 1] = Cancel(c) /\ i < j - 1
    BY <1>1, <1>3, <2>1
  <2> QED
    BY <2>2 DEF Before
<1>7. ASSUME Before(1, Cancel(c)) PROVE Posted(Cancel(c))'
  <2>1. PICK j \in 1 .. Len(channel) : 1 < j /\ channel[j] = Cancel(c)
    BY <1>7 DEF Before
  <2> QED
    BY <1>1, <1>3, <2>1 DEF Posted
<1> QED
  BY <1>2, <1>4, <1>5, <1>6, <1>7

(* A step of the caller that leaves the channel alone.                      *)
LEMMA CallerSteps ==
  ASSUME TypeOK, LifeInv, NEW c \in Callers,
         Ask(c) \/ Check(c) \/ Listen(c) \/ Expire(c) \/ CancelToken(c)
  PROVE  LifeInv'
<1>1. UNCHANGED <<channel, receiver, handlers>>
  BY DEF Ask, Check, Listen, Expire, CancelToken, channelVars
<1>2. \A d \in Callers : d # c => caller'[d] = caller[d] /\ reply'[d] = reply[d]
  BY DEF Ask, Check, Listen, Expire, CancelToken, GoTo, TypeOK, callerVars
<1>3. \/ caller'[c] = caller[c] /\ reply'[c] = reply[c]
      \/ caller[c] = "idle" /\ caller'[c] = "queueing" /\ reply'[c] = reply[c]
      \/ Attended(c) /\ Attended(c)' /\ reply'[c] = reply[c]
      \/ reply[c] # "empty" /\ caller'[c] = "done" /\ reply'[c] = "empty"
  BY DEF Ask, Check, Listen, Expire, CancelToken, GoTo, TypeOK, callerVars, Attended
<1>4. ASSUME NEW d \in Callers PROVE QuestionInv(d)'
  <2>1. QuestionInv(d)
    BY DEF LifeInv
  <2>2. /\ SenderAlive(d)' <=> SenderAlive(d)
        /\ \A e \in Events : Posted(e)' <=> Posted(e)
        /\ \A i \in 1 .. Len(channel) : Before(i, Cancel(d))' <=> Before(i, Cancel(d))
    BY <1>1 DEF SenderAlive, Posted, Before
  <2>3. Attended(d) /\ SenderAlive(d) => Attended(d)'
    BY <1>2, <1>3, <2>1 DEF QuestionInv, Answerable, Attended
  <2>4. QueuedOnce(d)'
    BY <1>1, <2>1 DEF QuestionInv, QueuedOnce
  <2>5. Followed(d)'
    BY <1>1, <2>1, <2>2, <2>3 DEF QuestionInv, Followed, SenderAlive, Posted
  <2>6. Kept(d)'
    BY <1>1, <2>1, <2>2, <2>3, EventTypes DEF QuestionInv, Kept, SenderAlive
  <2>7. Unknown(d)'
    BY <1>2, <1>3, <2>1, <2>2 DEF QuestionInv, Unknown, Attended
  <2>8. Answerable(d)'
    BY <1>1, <1>2, <1>3, <2>1, <2>2, EventTypes DEF QuestionInv, Answerable
  <2> QED
    BY <2>4, <2>5, <2>6, <2>7, <2>8 DEF QuestionInv
<1> QED
  BY <1>1, <1>4 DEF LifeInv

(* The question enters the channel, known to nobody but its caller before.  *)
LEMMA QueueStep ==
  ASSUME TypeOK, LifeInv, NEW c \in Callers, Queue(c)
  PROVE  LifeInv'
<1>1. /\ UNCHANGED <<receiver, handlers, reply>>
      /\ caller[c] = "queueing"
      /\ \A d \in Callers : d # c => caller'[d] = caller[d]
  BY DEF Queue, GoTo, TypeOK
<1>2. Unknown(c) /\ ~SenderAlive(c) /\ reply[c] = "empty"
  BY <1>1 DEF LifeInv, QuestionInv, Unknown
<1>3. CASE receiver
  <2>1. Post(Start(c)) /\ caller'[c] = "waiting"
    BY <1>3 DEF Queue, GoTo, TypeOK
  <2>2. ASSUME NEW d \in Callers, d # c PROVE QuestionInv(d)'
    <3>1. QuestionInv(d) /\ caller'[d] = caller[d]
      BY <1>1, <2>2 DEF LifeInv
    <3>2. /\ \A i \in 1 .. Len(channel') :
               channel'[i] = Start(d) => i \in 1 .. Len(channel) /\ channel[i] = Start(d)
          /\ Posted(Start(d))' <=> Posted(Start(d))
          /\ Posted(Cancel(d)) => Posted(Cancel(d))'
          /\ \A i \in 1 .. Len(channel) : Before(i, Cancel(d)) => Before(i, Cancel(d))'
      BY <2>1, <2>2, PostingKeepsStarts, EventTypes, EventsDiffer
    <3> QED
      BY <1>1, <3>1, <3>2
      DEF QuestionInv, Unknown, QueuedOnce, Answerable, Followed, Kept, Attended, SenderAlive
  <2>3. QuestionInv(c)'
    <3>1. /\ Len(channel) \in Nat /\ Len(channel') = Len(channel) + 1
          /\ \A i \in 1 .. Len(channel) : channel'[i] = channel[i] /\ channel[i] # Start(c)
      BY <1>2, <2>1, Posting, EventTypes DEF TypeOK, SenderAlive, Posted
    <3>2. QueuedOnce(c)'
      BY <3>1 DEF QueuedOnce
    <3>3. c \notin handlers' /\ reply'[c] = "empty" /\ Attended(c)'
      BY <1>1, <1>2, <2>1 DEF SenderAlive, Attended
    <3> QED
      BY <2>1, <3>2, <3>3 DEF QuestionInv, Unknown, Answerable, Followed, Kept
  <2> QED
    BY <1>1, <1>3, <2>2, <2>3 DEF LifeInv
<1>4. CASE ~receiver
  <2>1. UNCHANGED channel /\ channel = <<>> /\ caller'[c] = "done"
    BY <1>4 DEF Queue, GoTo, TypeOK, LifeInv
  <2>2. ASSUME NEW d \in Callers PROVE QuestionInv(d)'
    <3>1. QuestionInv(d)
      BY DEF LifeInv
    <3> QED
      BY <1>1, <1>4, <2>1, <3>1
      DEF QuestionInv, Unknown, QueuedOnce, Answerable, Followed, Kept, Attended, SenderAlive,
          Posted
  <2> QED
    BY <1>1, <2>1, <2>2 DEF LifeInv
<1> QED
  BY <1>3, <1>4

(* A call that gives up leaves its cancellation in its place.               *)
LEMMA GiveUpStep ==
  ASSUME TypeOK, LifeInv, NEW c \in Callers, GiveUp(c)
  PROVE  LifeInv'
<1>1. /\ UNCHANGED <<receiver, handlers, reply>>
      /\ caller'[c] = "done"
      /\ \A d \in Callers : d # c => caller'[d] = caller[d]
  BY DEF GiveUp, GoTo, TypeOK
<1>2. CASE receiver
  <2>1. Post(Cancel(c))
    BY <1>2 DEF GiveUp
  <2>2. ASSUME NEW d \in Callers PROVE QuestionInv(d)'
    <3>1. QuestionInv(d)
      BY DEF LifeInv
    <3>2. /\ \A i \in 1 .. Len(channel') :
               channel'[i] = Start(d) => i \in 1 .. Len(channel) /\ channel[i] = Start(d)
          /\ Posted(Start(d))' <=> Posted(Start(d))
          /\ Posted(Cancel(d)) => Posted(Cancel(d))'
          /\ \A i \in 1 .. Len(channel) : Before(i, Cancel(d)) => Before(i, Cancel(d))'
      BY <2>1, PostingKeepsStarts, EventTypes, EventsDiffer
    <3>3. /\ Posted(Cancel(c))'
          /\ \A i \in 1 .. Len(channel) : Before(i, Cancel(c))'
      <4>1. Len(channel) \in Nat /\ Len(channel') = Len(channel) + 1
            /\ channel'[Len(channel')] = Cancel(c)
        BY <2>1, Posting, EventTypes DEF TypeOK
      <4> QED
        BY <4>1 DEF Posted, Before
    <3>4. Attended(d) => Attended(d)' \/ d = c
      BY <1>1 DEF Attended
    <3>5. Followed(d)'
      BY <3>1, <3>2, <3>3, <3>4 DEF QuestionInv, Followed
    <3>6. Kept(d)'
      BY <1>1, <3>1, <3>2, <3>3, <3>4 DEF QuestionInv, Kept
    <3>7. QueuedOnce(d)'
      BY <3>1, <3>2 DEF QuestionInv, QueuedOnce
    <3>8. Unknown(d)' /\ Answerable(d)'
      BY <1>1, <3>1, <3>2 DEF QuestionInv, Unknown, Answerable, SenderAlive
    <3> QED
      BY <3>5, <3>6, <3>7, <3>8 DEF QuestionInv
  <2> QED
    BY <1>1, <1>2, <2>2 DEF LifeInv
<1>3. CASE ~receiver
  <2>1. UNCHANGED channel /\ channel = <<>>
    BY <1>3 DEF GiveUp, LifeInv
  <2>2. ASSUME NEW d \in Callers PROVE QuestionInv(d)'
    <3>1. QuestionInv(d)
      BY DEF LifeInv
    <3> QED
      BY <1>1, <1>3, <2>1, <3>1
      DEF QuestionInv, Unknown, QueuedOnce, Answerable, Followed, Kept, Attended, SenderAlive,
          Posted
  <2> QED
    BY <1>1, <2>1, <2>2 DEF LifeInv
<1> QED
  BY <1>2, <1>3

(* Receiving an event keeps what is known of every question but its own, and *)
(* of its own what concerns the order of the channel.                       *)
LEMMA TakingKeeps ==
  ASSUME TypeOK, LifeInv, NEW c \in Callers, NEW event \in {Start(c), Cancel(c)},
         TakeEvent(event), NEW d \in Callers
  PROVE  /\ QueuedOnce(d)' /\ Followed(d)'
         /\ d # c /\ (d \in handlers' <=> d \in handlers) /\ reply'[d] = reply[d]
              => QuestionInv(d)'
<1>1. QuestionInv(d)
  BY DEF LifeInv
<1>2. /\ \A i \in 1 .. Len(channel') :
           i + 1 \in 1 .. Len(channel) /\ channel'[i] = channel[i + 1]
      /\ Posted(Start(d))' => Posted(Start(d))
      /\ event # Cancel(d) => (Posted(Cancel(d)) => Posted(Cancel(d))')
      /\ \A i \in 1 .. Len(channel') : Before(i + 1, Cancel(d)) => Before(i, Cancel(d))'
  BY TakingShifts, EventTypes
<1>3. UNCHANGED <<caller, receiver>>
  BY DEF TakeEvent, callerVars
<1>4. QueuedOnce(d)'
  <2> SUFFICES ASSUME NEW i \in 1 .. Len(channel'), NEW j \in 1 .. Len(channel'),
                      channel'[i] = Start(d), channel'[j] = Start(d)
               PROVE  i = j
    BY DEF QueuedOnce
  <2>1. i + 1 = j + 1
    BY <1>1, <1>2 DEF QuestionInv, QueuedOnce
  <2>2. i \in Nat /\ j \in Nat
    OBVIOUS
  <2> QED
    BY <2>1, <2>2
<1>5. Followed(d)'
  <2> SUFFICES ASSUME NEW i \in 1 .. Len(channel'), channel'[i] = Start(d)
               PROVE  Attended(d)' \/ Before(i, Cancel(d))'
    BY DEF Followed
  <2>1. Attended(d) \/ Before(i + 1, Cancel(d))
    BY <1>1, <1>2 DEF QuestionInv, Followed
  <2> QED
    BY <1>2, <1>3, <2>1 DEF Attended
<1>6. ASSUME d # c, d \in handlers' <=> d \in handlers, reply'[d] = reply[d]
      PROVE  Unknown(d)' /\ Answerable(d)' /\ Kept(d)'
  <2>1. event # Cancel(d)
    BY <1>6, EventsDiffer
  <2>2. SenderAlive(d)' => SenderAlive(d)
    BY <1>2, <1>6 DEF SenderAlive
  <2>3. Unknown(d)' /\ Answerable(d)'
    BY <1>1, <1>2, <1>3, <1>6, <2>2 DEF QuestionInv, Unknown, Answerable
  <2>4. Kept(d)'
    BY <1>1, <1>2, <1>3, <1>6, <2>1 DEF QuestionInv, Kept, Attended
  <2> QED
    BY <2>3, <2>4
<1> QED
  BY <1>4, <1>5, <1>6 DEF QuestionInv

(* `start` takes the question out of the channel for good: it is declined,   *)
(* or its handler takes its place.                                          *)
LEMMA StartStep ==
  ASSUME TypeOK, LifeInv, NEW c \in Callers, Decline(c) \/ Forward(c)
  PROVE  LifeInv'
<1>1. TakeEvent(Start(c))
  BY DEF Decline, Forward
<1>2. UNCHANGED <<caller, receiver>> /\ receiver
  <2>1. UNCHANGED <<caller, receiver>> /\ channel # <<>>
    BY <1>1 DEF TakeEvent, callerVars
  <2> QED
    BY <2>1 DEF LifeInv, TypeOK
<1>3. /\ \A d \in Callers \ {c} : (d \in handlers' <=> d \in handlers) /\ reply'[d] = reply[d]
      /\ \/ handlers' = handlers
         \/ c \in handlers' /\ reply'[c] = reply[c]
  BY DEF Decline, Forward, Reply, TypeOK
<1>4. channel[1] = Start(c) /\ 1 \in 1 .. Len(channel)
  BY <1>1, Taking, EventTypes
<1>5. QuestionInv(c) /\ Posted(Start(c)) /\ c \notin handlers /\ reply[c] = "empty"
  BY <1>4 DEF LifeInv, QuestionInv, Answerable, SenderAlive, Posted
<1>6. ~Posted(Start(c))'
  <2> SUFFICES ASSUME NEW i \in 1 .. Len(channel'), channel'[i] = Start(c) PROVE FALSE
    BY DEF Posted
  <2>1. i + 1 \in 1 .. Len(channel) /\ channel[i + 1] = Start(c)
    BY <1>1, TakingShifts, EventTypes
  <2>2. i + 1 = 1
    BY <1>4, <1>5, <2>1 DEF QuestionInv, QueuedOnce
  <2> QED
    BY <2>2
<1>7. Attended(c) \/ Posted(Cancel(c))'
  <2>1. Attended(c) \/ Before(1, Cancel(c))
    BY <1>4, <1>5 DEF QuestionInv, Followed
  <2> QED
    BY <1>1, <2>1, TakingShifts, EventTypes
<1>8. QuestionInv(c)'
  <2>1. caller[c] \notin {"idle", "queueing"}
    BY <1>5 DEF QuestionInv, Unknown, SenderAlive
  <2>2. Unknown(c)' /\ Kept(c)'
    BY <1>2, <1>7, <2>1 DEF Unknown, Kept, Attended
  <2>3. Answerable(c)'
    BY <1>3, <1>5, <1>6 DEF Answerable, SenderAlive
  <2> QED
    BY <1>1, <2>2, <2>3, TakingKeeps DEF QuestionInv
<1>9. ASSUME NEW d \in Callers, d # c PROVE QuestionInv(d)'
  BY <1>1, <1>3, <1>9, TakingKeeps
<1> QED
  BY <1>2, <1>8, <1>9 DEF LifeInv

(* The cancellation removes the handler it finds.                           *)
LEMMA CancelStep ==
  ASSUME TypeOK, LifeInv, NEW c \in Callers, Withdraw(c) \/ WithdrawNothing(c)
  PROVE  LifeInv'
<1>1. TakeEvent(Cancel(c))
  BY DEF Withdraw, WithdrawNothing
<1>2. UNCHANGED <<caller, receiver, reply>> /\ receiver
  <2>1. UNCHANGED <<caller, receiver, reply>> /\ channel # <<>>
    BY <1>1 DEF TakeEvent, callerVars, Withdraw, WithdrawNothing
  <2> QED
    BY <2>1 DEF LifeInv, TypeOK
<1>3. handlers' = handlers \ {c}
  BY DEF Withdraw, WithdrawNothing
<1>4. ASSUME NEW d \in Callers, d # c PROVE QuestionInv(d)'
  BY <1>1, <1>2, <1>3, <1>4, TakingKeeps
<1>5. QuestionInv(c)'
  <2>1. SenderAlive(c)' => SenderAlive(c)
    BY <1>1, <1>3, TakingShifts, EventTypes DEF SenderAlive
  <2>2. QuestionInv(c)
    BY DEF LifeInv
  <2>3. Unknown(c)' /\ Answerable(c)' /\ Kept(c)'
    BY <1>2, <1>3, <2>1, <2>2 DEF QuestionInv, Unknown, Answerable, Kept
  <2> QED
    BY <1>1, <2>3, TakingKeeps DEF QuestionInv
<1> QED
  BY <1>2, <1>4, <1>5 DEF LifeInv

(* The other steps leave the channel alone and take handlers away at most,   *)
(* or empty the channel for good.                                           *)
LEMMA OtherSteps ==
  ASSUME TypeOK, LifeInv,
         \/ \E c \in Callers, usable \in BOOLEAN : Accept(c, usable)
         \/ \E c \in Callers : IgnoreAnswer(c)
         \/ SessionMoves \/ ClientLeaves \/ LoopEnds \/ DropReceiver \/ DropSession
         \/ UNCHANGED vars
  PROVE  LifeInv'
<1>1. ASSUME NEW c \in Callers, NEW usable \in BOOLEAN, Accept(c, usable) PROVE LifeInv'
  <2>1. /\ UNCHANGED <<caller, receiver, channel>> /\ c \in handlers
        /\ handlers' = handlers \ {c}
        /\ \A d \in Callers \ {c} : reply'[d] = reply[d]
    BY <1>1 DEF Accept, ReceiveAnswer, Reply, callerVars, channelVars, TypeOK
  <2>2. ASSUME NEW d \in Callers PROVE QuestionInv(d)'
    <3>1. QuestionInv(d)
      BY DEF LifeInv
    <3>2. /\ \A e \in Events : Posted(e)' <=> Posted(e)
          /\ \A i \in 1 .. Len(channel) : Before(i, Cancel(d))' <=> Before(i, Cancel(d))
          /\ Attended(d)' <=> Attended(d)
      BY <2>1 DEF Posted, Before, Attended
    <3>3. QueuedOnce(d)' /\ Followed(d)' /\ Kept(d)'
      BY <2>1, <3>1, <3>2, EventTypes DEF QuestionInv, QueuedOnce, Followed, Kept
    <3>4. Unknown(d)' /\ Answerable(d)'
      <4>1. CASE d = c
        <5>1. ~SenderAlive(c)'
          BY <2>1, <3>1, <3>2, <4>1, EventTypes DEF QuestionInv, Answerable, SenderAlive
        <5>2. caller[c] \notin {"idle", "queueing"}
          BY <2>1, <3>1, <4>1 DEF QuestionInv, Unknown, SenderAlive
        <5> QED
          BY <2>1, <4>1, <5>1, <5>2 DEF Unknown, Answerable, SenderAlive
      <4>2. CASE d # c
        BY <2>1, <3>1, <3>2, <4>2, EventTypes DEF QuestionInv, Unknown, Answerable, SenderAlive
      <4> QED
        BY <4>1, <4>2
    <3> QED
      BY <3>3, <3>4 DEF QuestionInv
  <2> QED
    BY <2>1, <2>2 DEF LifeInv
<1>2. ASSUME UNCHANGED <<caller, reply>>,
             \/ UNCHANGED <<receiver, channel, handlers>>
             \/ UNCHANGED <<receiver, channel>> /\ ~receiver /\ handlers' = {}
             \/ ~receiver' /\ channel' = <<>> /\ UNCHANGED handlers
      PROVE  LifeInv'
  <2>1. ASSUME NEW d \in Callers PROVE QuestionInv(d)'
    <3>1. QuestionInv(d)
      BY DEF LifeInv
    <3> QED
      BY <1>2, <3>1
      DEF QuestionInv, Unknown, QueuedOnce, Answerable, Followed, Kept, Attended, SenderAlive,
          Posted, Before
  <2> QED
    BY <1>2, <2>1 DEF LifeInv
<1>3. ASSUME NEW c \in Callers, IgnoreAnswer(c) PROVE LifeInv'
  BY <1>2, <1>3 DEF IgnoreAnswer, ReceiveAnswer, callerVars, channelVars
<1>4. CASE SessionMoves \/ ClientLeaves \/ LoopEnds
  BY <1>2, <1>4 DEF SessionMoves, ClientLeaves, LoopEnds, callerVars, channelVars
<1>5. CASE DropReceiver
  BY <1>2, <1>5 DEF DropReceiver, callerVars
<1>6. CASE DropSession
  BY <1>2, <1>6 DEF DropSession, callerVars, channelVars
<1>7. CASE UNCHANGED vars
  BY <1>2, <1>7 DEF vars, callerVars, channelVars
<1> QED
  BY <1>1, <1>3, <1>4, <1>5, <1>6, <1>7

LEMMA LifeInvariant == Spec => []LifeInv
<1>1. TypeOK /\ LifeInv /\ [Next]_vars => LifeInv'
  BY NextCases, CallerSteps, QueueStep, GiveUpStep, StartStep, CancelStep, OtherSteps
<1> QED
  BY <1>1, LifeInit, CompletionTypeCorrect, PTL DEF Spec

(* No question is answered twice, and the main thread never waits for a       *)
(* reply slot.                                                              *)
THEOREM SlotsStayFree == Spec => []OneReply
<1>1. LifeInv => OneReply
  BY DEF LifeInv, QuestionInv, Answerable, OneReply
<1> QED
  BY <1>1, LifeInvariant, PTL

(* No response handler outlives its question.                               *)
THEOREM HandlersAreRemoved == Spec => []NoHandlerLeak
<1>1. TypeOK /\ LifeInv => NoHandlerLeak
  BY DEF TypeOK, LifeInv, QuestionInv, Kept, Attended, NoHandlerLeak
<1> QED
  BY <1>1, LifeInvariant, CompletionTypeCorrect, PTL

-----------------------------------------------------------------------------
(* A question in the table is one the client has, as long as the loop runs.   *)
OpenInv == loop = "running" => handlers \subseteq open

(* The client is told to drop only what it has and has not answered.        *)
THEOREM OnlyOpenAreWithdrawn == Spec => OnlyOpenWithdrawn
<1>1. Init => OpenInv
  BY DEF Init, OpenInv
<1>2. TypeOK /\ OpenInv /\ [Next]_vars => OpenInv' /\ told' \ told \subseteq open
  <2> SUFFICES ASSUME TypeOK, OpenInv, [Next]_vars
               PROVE  OpenInv' /\ told' \ told \subseteq open
    OBVIOUS
  <2>1. ASSUME NEW c \in Callers,
               \/ Ask(c) \/ Queue(c) \/ Check(c) \/ Listen(c) \/ GiveUp(c)
               \/ Expire(c) \/ CancelToken(c)
        PROVE  UNCHANGED <<loop, handlers, open, told>>
    BY <2>1 DEF Ask, Queue, Check, Listen, GiveUp, Expire, CancelToken, clientVars
  <2>2. ASSUME NEW c \in Callers,
               Decline(c) \/ Forward(c) \/ Withdraw(c) \/ WithdrawNothing(c)
        PROVE  OpenInv' /\ told' \ told \subseteq open
    BY <2>2 DEF Decline, Forward, Withdraw, WithdrawNothing, TakeEvent, OpenInv
  <2>3. ASSUME NEW c \in Callers, NEW usable \in BOOLEAN, Accept(c, usable)
        PROVE  OpenInv' /\ told' \ told \subseteq open
    BY <2>3 DEF Accept, ReceiveAnswer, OpenInv
  <2>4. ASSUME NEW c \in Callers, IgnoreAnswer(c)
        PROVE  OpenInv' /\ told' \ told \subseteq open
    BY <2>4 DEF IgnoreAnswer, ReceiveAnswer, OpenInv
  <2>5. CASE SessionMoves \/ ClientLeaves \/ LoopEnds \/ DropReceiver \/ DropSession
    BY <2>5 DEF SessionMoves, ClientLeaves, LoopEnds, DropReceiver, DropSession, OpenInv,
                clientVars
  <2>6. CASE UNCHANGED vars
    BY <2>6 DEF vars, clientVars, OpenInv
  <2> QED
    BY <2>1, <2>2, <2>3, <2>4, <2>5, <2>6, NextCases DEF OpenInv
<1> QED
  BY <1>1, <1>2, CompletionTypeCorrect, PTL DEF Spec, OnlyOpenWithdrawn

-----------------------------------------------------------------------------
(* Candidates are accepted only while the question is current.               *)
THEOREM OnlyCurrentAreAccepted == Spec => OnlyCurrentAccepted
<1>1. ASSUME TypeOK, [Next]_vars, NEW c \in Callers, reply[c] # "some", reply'[c] = "some"
      PROVE  Current(c)
  <2>1. ASSUME NEW d \in Callers,
               \/ Ask(d) \/ Queue(d) \/ Check(d) \/ Listen(d) \/ GiveUp(d)
               \/ Expire(d) \/ CancelToken(d) \/ IgnoreAnswer(d)
        PROVE  FALSE
    BY <1>1, <2>1 DEF TypeOK, Ask, Queue, Check, Listen, GiveUp, Expire, CancelToken,
                      IgnoreAnswer
  <2>2. ASSUME NEW d \in Callers,
               Decline(d) \/ Forward(d) \/ Withdraw(d) \/ WithdrawNothing(d)
        PROVE  FALSE
    BY <1>1, <2>2 DEF TypeOK, Decline, Forward, Withdraw, WithdrawNothing, Reply
  <2>3. ASSUME NEW d \in Callers, NEW usable \in BOOLEAN, Accept(d, usable)
        PROVE  Current(c)
    BY <1>1, <2>3 DEF TypeOK, Accept, Reply
  <2>4. ~(SessionMoves \/ ClientLeaves \/ LoopEnds \/ DropReceiver \/ DropSession)
    BY <1>1 DEF SessionMoves, ClientLeaves, LoopEnds, DropReceiver, DropSession
  <2>5. ~UNCHANGED vars
    BY <1>1 DEF vars
  <2> QED
    BY <1>1, <2>1, <2>2, <2>3, <2>4, <2>5, NextCases
<1>2. ASSUME TypeOK, [Next]_vars, NEW c \in Callers,
             session # snapshot[c] \/ c \in expired \/ c \in cancelled, reply[c] # "some"
      PROVE  reply'[c] # "some"
  BY <1>1, <1>2 DEF Current
<1>3. TypeOK /\ [Next]_vars =>
        [\A c \in Callers :
           (session # snapshot[c] \/ c \in expired \/ c \in cancelled) /\ reply[c] # "some"
             => reply'[c] # "some"]_vars
  BY <1>2
<1> QED
  BY <1>3, CompletionTypeCorrect, PTL DEF Spec, OnlyCurrentAccepted
-----------------------------------------------------------------------------
(* The part of EveryQuestionSettled that is an invariant.  A question the     *)
(* client was sent, and neither answered nor was told to drop, is one whose *)
(* handler is registered, and somebody will settle it: its call, which still *)
(* waits for the answer or its deadline, or a cancellation in the channel.   *)
SomebodySettles ==
  loop = "running" =>
    \A c \in open \ told :
      /\ c \in handlers
      /\ \/ caller[c] \in {"waiting", "listening", "cancelling"}
         \/ Posted(Cancel(c))

(* So when no call is under way and the channel is empty, the client works    *)
(* for nobody: it has answered every question or was told to drop it.        *)
RestIsSettled ==
  /\ loop = "running"
  /\ channel = <<>>
  /\ \A c \in Callers : caller[c] \in {"idle", "done"}
  => open \subseteq told

TableInv == loop = "running" => receiver /\ open \ told \subseteq handlers

(* While the loop runs, a question leaves the table only with its answer or   *)
(* with the word to the client.                                             *)
LEMMA TableInvariant == Spec => []TableInv
<1>1. Init => TableInv
  BY DEF Init, TableInv
<1>2. TypeOK /\ TableInv /\ [Next]_vars => TableInv'
  <2> SUFFICES ASSUME TypeOK, TableInv, [Next]_vars PROVE TableInv'
    OBVIOUS
  <2>1. ASSUME NEW c \in Callers,
               \/ Ask(c) \/ Queue(c) \/ Check(c) \/ Listen(c) \/ GiveUp(c)
               \/ Expire(c) \/ CancelToken(c)
        PROVE  UNCHANGED <<loop, receiver, handlers, open, told>>
    BY <2>1 DEF Ask, Queue, Check, Listen, GiveUp, Expire, CancelToken, clientVars, channelVars
  <2>2. ASSUME NEW c \in Callers,
               Decline(c) \/ Forward(c) \/ Withdraw(c) \/ WithdrawNothing(c)
        PROVE  TableInv'
    BY <2>2 DEF Decline, Forward, Withdraw, WithdrawNothing, TakeEvent, TableInv
  <2>3. ASSUME NEW c \in Callers,
               (\E usable \in BOOLEAN : Accept(c, usable)) \/ IgnoreAnswer(c)
        PROVE  TableInv'
    BY <2>3 DEF Accept, IgnoreAnswer, ReceiveAnswer, TableInv, channelVars
  <2>4. CASE SessionMoves \/ ClientLeaves \/ LoopEnds \/ DropReceiver \/ DropSession
    BY <2>4 DEF SessionMoves, ClientLeaves, LoopEnds, LoopOver, DropReceiver, DropSession,
                TableInv, clientVars, channelVars
  <2>5. CASE UNCHANGED vars
    BY <2>5 DEF vars, clientVars, channelVars, TableInv
  <2> QED
    BY <2>1, <2>2, <2>3, <2>4, <2>5, NextCases DEF TableInv
<1> QED
  BY <1>1, <1>2, CompletionTypeCorrect, PTL DEF Spec

(* No question is left with the client without somebody who will settle it.  *)
THEOREM QuestionsAreLookedAfter == Spec => []SomebodySettles
<1>1. TableInv /\ NoHandlerLeak => SomebodySettles
  BY DEF TableInv, NoHandlerLeak, SomebodySettles
<1> QED
  BY <1>1, TableInvariant, HandlersAreRemoved, PTL

(* At rest the client works for nobody.                                      *)
THEOREM RestLeavesNothing == Spec => []RestIsSettled
<1>1. TypeOK /\ SomebodySettles => RestIsSettled
  <2> SUFFICES ASSUME TypeOK, SomebodySettles, loop = "running", channel = <<>>,
                      \A c \in Callers : caller[c] \in {"idle", "done"},
                      NEW c \in open \ told
               PROVE  FALSE
    BY DEF RestIsSettled
  <2>1. c \in Callers /\ caller[c] \in {"idle", "done"}
    BY DEF TypeOK
  <2>2. Posted(Cancel(c))
    BY <2>1 DEF SomebodySettles
  <2>3. Len(channel) = 0
    OBVIOUS
  <2> QED
    BY <2>2, <2>3 DEF Posted
<1> QED
  BY <1>1, QuestionsAreLookedAfter, CompletionTypeCorrect, PTL
=============================================================================
