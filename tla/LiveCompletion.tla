--------------------------- MODULE LiveCompletion ---------------------------
(***************************************************************************)
(* Live completion: a background thread of the completion service asks the *)
(* client, through the main loop, for candidates of the shell session that *)
(* the user has attached (server/live_completion.rs, session/client.rs,    *)
(* the Outgoing half of session/request_queue.rs, server/main_loop.rs).    *)
(*                                                                         *)
(* Only the main loop may talk to the client, so one question crosses four *)
(* places: the caller, the bounded main-loop channel, the table of response *)
(* handlers, and the client.  The caller waits on a reply slot of its own, *)
(* with a deadline and a cancellation token, and neither the main loop nor *)
(* the client is obliged to be in time.                                    *)
(*                                                                         *)
(* A question is named by its caller: the code numbers them afresh.        *)
(***************************************************************************)
EXTENDS Naturals, Sequences

CONSTANTS
  Callers,   \* calls of `request`, one question each
  Capacity,  \* bound of the main-loop channel (32 in the code)
  MaxMoves   \* bound: how often the session changes

ASSUME CapacityAssumption == Capacity \in Nat \ {0}
ASSUME MovesAssumption == MaxMoves \in Nat

VARIABLES
  caller,     \* where each call of `request` is
  snapshot,   \* the state of the session it was made for
  expired,    \* questions whose deadline has passed
  cancelled,  \* questions whose token is cancelled
  reply,      \* the reply slot of each question, of capacity one
  result,     \* what each call returned
  channel,    \* the bounded main-loop channel
  receiver,   \* is its receiver still there?
  loop,       \* the main loop: running, ended or broken by a failed write
  handlers,   \* keys of Outgoing.response_handlers
  session,    \* the state of the session, as a counter of its changes
  clientGone, \* the client has closed its end of the connection
  open,       \* questions the client was sent and whose answer has not come
  told        \* questions the client was told to drop

callerVars == <<caller, snapshot, result>>
timeVars == <<expired, cancelled>>
channelVars == <<channel, receiver>>
clientVars == <<clientGone, open, told>>
vars == <<callerVars, timeVars, reply, channelVars, loop, handlers, session, clientVars>>

Start(c) == [type |-> "start", of |-> c]
Cancel(c) == [type |-> "cancel", of |-> c]
Events == [type : {"start", "cancel"}, of : Callers]

Posted(event) == \E i \in 1 .. Len(channel) : channel[i] = event
Full == Len(channel) >= Capacity
LoopOver == loop # "running"

(* Pending::current.  The session counter stands for all it compares: text  *)
(* and version of the document, settings epoch, environment generation and  *)
(* the attached shell session, each change of which raises the generation.  *)
Current(c) ==
  /\ c \notin expired
  /\ c \notin cancelled
  /\ session = snapshot[c]

(* The sender of c's reply is dropped with whatever holds it.               *)
SenderAlive(c) == Posted(Start(c)) \/ c \in handlers

Init ==
  /\ caller = [c \in Callers |-> "idle"]
  /\ snapshot = [c \in Callers |-> 0]
  /\ expired = {}
  /\ cancelled = {}
  /\ reply = [c \in Callers |-> "empty"]
  /\ result = [c \in Callers |-> "none"]
  /\ channel = <<>>
  /\ receiver = TRUE
  /\ loop = "running"
  /\ handlers = {}
  /\ session = 0
  /\ clientGone = FALSE
  /\ open = {}
  /\ told = {}

-----------------------------------------------------------------------------
(* The caller, a thread of the completion service.                         *)

GoTo(c, place) == caller' = [caller EXCEPT ![c] = place]

(* `request` starts its deadline.  Its snapshot was taken on the main thread *)
(* before the job was queued, so the session may have moved on since.       *)
Ask(c) ==
  /\ caller[c] = "idle"
  /\ GoTo(c, "queueing")
  /\ \E s \in 0 .. session : snapshot' = [snapshot EXCEPT ![c] = s]
  /\ UNCHANGED <<result, timeVars, reply, channelVars, loop, handlers, session, clientVars>>

(* Mutant: the channel takes any number of events.                          *)
PostUnbounded(event) == channel' = Append(channel, event)

(* A send waits for room.                                                   *)
Post(event) == ~Full /\ channel' = Append(channel, event)

(* queue_live_completion; without a receiver the call returns None.  The    *)
(* deadline is not looked at while the send is blocked.                     *)
Queue(c) ==
  /\ caller[c] = "queueing"
  /\ IF receiver
       THEN Post(Start(c)) /\ GoTo(c, "waiting")
       ELSE GoTo(c, "done") /\ UNCHANGED channel
  /\ UNCHANGED <<snapshot, result, timeVars, reply, receiver, loop, handlers, session,
                 clientVars>>

(* Mutant: a call that gives up returns at once, without the cancellation.  *)
CheckReturns(c) ==
  /\ caller[c] = "waiting"
  /\ GoTo(c, IF c \in expired \cup cancelled THEN "done" ELSE "listening")
  /\ UNCHANGED <<snapshot, result, timeVars, reply, channelVars, loop, handlers, session,
                 clientVars>>

(* Mutant: only the token is looked at, not the deadline.                   *)
CheckToken(c) ==
  /\ caller[c] = "waiting"
  /\ GoTo(c, IF c \in cancelled THEN "cancelling" ELSE "listening")
  /\ UNCHANGED <<snapshot, result, timeVars, reply, channelVars, loop, handlers, session,
                 clientVars>>

(* The head of the loop: give up or listen for another ten milliseconds.    *)
Check(c) ==
  /\ caller[c] = "waiting"
  /\ GoTo(c, IF c \in expired \cup cancelled THEN "cancelling" ELSE "listening")
  /\ UNCHANGED <<snapshot, result, timeVars, reply, channelVars, loop, handlers, session,
                 clientVars>>

(* recv_timeout: the reply, which may come after the deadline has passed,   *)
(* or the end of its sender, or neither in time.                            *)
Listen(c) ==
  /\ caller[c] = "listening"
  /\ IF reply[c] # "empty"
       THEN /\ GoTo(c, "done")
            /\ result' = [result EXCEPT ![c] = reply[c]]
            /\ reply' = [reply EXCEPT ![c] = "empty"]
       ELSE /\ GoTo(c, IF SenderAlive(c) THEN "waiting" ELSE "cancelling")
            /\ UNCHANGED <<result, reply>>
  /\ UNCHANGED <<snapshot, timeVars, channelVars, loop, handlers, session, clientVars>>

(* cancel_live_completion, whose failure is ignored; the call returns None. *)
GiveUp(c) ==
  /\ caller[c] = "cancelling"
  /\ IF receiver THEN Post(Cancel(c)) ELSE UNCHANGED channel
  /\ GoTo(c, "done")
  /\ UNCHANGED <<snapshot, result, timeVars, reply, receiver, loop, handlers, session,
                 clientVars>>

(* The 1500 milliseconds pass; the completion request is cancelled.         *)
Expire(c) ==
  /\ caller[c] \notin {"idle", "done"}
  /\ c \notin expired
  /\ expired' = expired \cup {c}
  /\ UNCHANGED <<callerVars, cancelled, reply, channelVars, loop, handlers, session,
                 clientVars>>

CancelToken(c) ==
  /\ caller[c] # "done"
  /\ c \notin cancelled
  /\ cancelled' = cancelled \cup {c}
  /\ UNCHANGED <<callerVars, expired, reply, channelVars, loop, handlers, session,
                 clientVars>>

-----------------------------------------------------------------------------
(* The main loop.                                                          *)

(* Pending.reply.send is ignored once the call has returned; until then it   *)
(* would block on a slot that is taken.                                     *)
Reply(c, what) ==
  /\ caller[c] = "done" \/ reply[c] = "empty"
  /\ reply' = [reply EXCEPT ![c] = IF caller[c] = "done" THEN @ ELSE what]

TakeEvent(event) ==
  /\ loop = "running"
  /\ channel # <<>>
  /\ Head(channel) = event
  /\ channel' = Tail(channel)
  /\ UNCHANGED <<callerVars, timeVars, receiver, session, clientGone>>

(* `start` of a question that is no longer current: None.                    *)
Decline(c) ==
  /\ TakeEvent(Start(c))
  /\ ~Current(c)
  /\ Reply(c, "none")
  /\ UNCHANGED <<loop, handlers, open, told>>

(* `start`: the handler is registered, and then the question is written; a   *)
(* failed write ends the loop with an error.                                *)
Forward(c) ==
  /\ TakeEvent(Start(c))
  /\ Current(c)
  /\ handlers' = handlers \cup {c}
  /\ IF clientGone
       THEN loop' = "broken" /\ UNCHANGED open
       ELSE open' = open \cup {c} /\ UNCHANGED loop
  /\ UNCHANGED <<reply, told>>

(* Mutant: the client is not told.                                          *)
WithdrawSilently(c) ==
  /\ TakeEvent(Cancel(c))
  /\ c \in handlers
  /\ handlers' = handlers \ {c}
  /\ UNCHANGED <<loop, told, reply, open>>

(* CancelLiveCompletion while the question is open: its handler goes, and     *)
(* its reply sender with it, and the client is told.                        *)
Withdraw(c) ==
  /\ TakeEvent(Cancel(c))
  /\ c \in handlers
  /\ handlers' = handlers \ {c}
  /\ IF clientGone
       THEN loop' = "broken" /\ UNCHANGED told
       ELSE told' = told \cup {c} /\ UNCHANGED loop
  /\ UNCHANGED <<reply, open>>

(* Mutant: the client is told of questions it has answered, too.            *)
WithdrawAgain(c) ==
  /\ TakeEvent(Cancel(c))
  /\ c \notin handlers
  /\ told' = told \cup {c}
  /\ UNCHANGED <<reply, loop, handlers, open>>

(* CancelLiveCompletion of a question that was answered or declined.        *)
WithdrawNothing(c) ==
  /\ TakeEvent(Cancel(c))
  /\ c \notin handlers
  /\ UNCHANGED <<reply, loop, handlers, open, told>>

ReceiveAnswer(c) ==
  /\ loop = "running"
  /\ c \in open
  /\ open' = open \ {c}
  /\ UNCHANGED <<callerVars, timeVars, channelVars, loop, session, clientGone, told>>

(* Mutant: the answer is not checked against the session any more.           *)
AcceptUnchecked(c, usable) ==
  /\ ReceiveAnswer(c)
  /\ c \in handlers
  /\ handlers' = handlers \ {c}
  /\ Reply(c, IF usable THEN "some" ELSE "none")

(* Mutant: the handler stays registered.                                    *)
AcceptKeepsHandler(c, usable) ==
  /\ ReceiveAnswer(c)
  /\ c \in handlers
  /\ Reply(c, IF Current(c) /\ usable THEN "some" ELSE "none")
  /\ UNCHANGED handlers

(* The client's answer, used up by its handler.  It may be an error, or      *)
(* break the limits on candidates: then it is not usable.                   *)
Accept(c, usable) ==
  /\ ReceiveAnswer(c)
  /\ c \in handlers
  /\ handlers' = handlers \ {c}
  /\ Reply(c, IF Current(c) /\ usable THEN "some" ELSE "none")

(* An answer that crossed the cancellation: unexpected, and only logged.     *)
IgnoreAnswer(c) ==
  /\ ReceiveAnswer(c)
  /\ c \notin handlers
  /\ UNCHANGED <<reply, handlers>>

(* Anything that changes the session: an edit, a setting, the shell session.  *)
SessionMoves ==
  /\ session < MaxMoves
  /\ session' = session + 1
  /\ UNCHANGED <<callerVars, timeVars, reply, channelVars, loop, handlers, clientVars>>

ClientLeaves ==
  /\ ~clientGone
  /\ clientGone' = TRUE
  /\ UNCHANGED <<callerVars, timeVars, reply, channelVars, loop, handlers, session, open, told>>

(* `exit`, a closed connection, or an error elsewhere.                      *)
LoopEnds ==
  /\ loop = "running"
  /\ loop' = "ended"
  /\ UNCHANGED <<callerVars, timeVars, reply, channelVars, handlers, session, clientVars>>

(* Server is dropped: the receiver first, with every event in the channel,   *)
(* then the session with its handlers.                                      *)
DropReceiver ==
  /\ LoopOver
  /\ receiver
  /\ receiver' = FALSE
  /\ channel' = <<>>
  /\ UNCHANGED <<callerVars, timeVars, reply, loop, handlers, session, clientVars>>

DropSession ==
  /\ ~receiver
  /\ handlers # {}
  /\ handlers' = {}
  /\ UNCHANGED <<callerVars, timeVars, reply, channelVars, loop, session, clientVars>>

-----------------------------------------------------------------------------
CallerStep(c) == Queue(c) \/ Check(c) \/ Listen(c) \/ GiveUp(c)
HandleEvent ==
  \E c \in Callers : Decline(c) \/ Forward(c) \/ Withdraw(c) \/ WithdrawNothing(c)
HandleAnswer(c) == (\E usable \in BOOLEAN : Accept(c, usable)) \/ IgnoreAnswer(c)

Next ==
  \/ \E c \in Callers :
       Ask(c) \/ CallerStep(c) \/ Expire(c) \/ CancelToken(c) \/ HandleAnswer(c)
  \/ HandleEvent
  \/ SessionMoves
  \/ ClientLeaves
  \/ LoopEnds
  \/ DropReceiver
  \/ DropSession

(* Threads are scheduled, time passes, and the main loop does not pass over  *)
(* a ready channel for ever.  The client need never answer.                 *)
Fairness ==
  /\ \A c \in Callers : WF_vars(CallerStep(c)) /\ WF_vars(Expire(c))
  /\ WF_vars(HandleEvent)
  /\ WF_vars(DropReceiver)
  /\ WF_vars(DropSession)

Spec == Init /\ [][Next]_vars
FairSpec == Spec /\ Fairness

-----------------------------------------------------------------------------
(* Types, and the bound of the main-loop channel.                           *)
TypeOK ==
  /\ caller \in [Callers -> {"idle", "queueing", "waiting", "listening", "cancelling", "done"}]
  /\ snapshot \in [Callers -> Nat]
  /\ expired \subseteq Callers
  /\ cancelled \subseteq Callers
  /\ reply \in [Callers -> {"empty", "some", "none"}]
  /\ result \in [Callers -> {"some", "none"}]
  /\ channel \in Seq(Events)
  /\ Len(channel) <= Capacity
  /\ receiver \in BOOLEAN
  /\ loop \in {"running", "ended", "broken"}
  /\ handlers \subseteq Callers
  /\ session \in Nat
  /\ clientGone \in BOOLEAN
  /\ open \subseteq Callers
  /\ told \subseteq Callers

(* A question is answered once: as long as it is in the channel or its        *)
(* handler is registered its slot is free, and it is never in both.  So the *)
(* main thread does not block on a slot, which nobody would empty after a   *)
(* call that gave up.                                                       *)
OneReply ==
  \A c \in Callers :
    /\ SenderAlive(c) => reply[c] = "empty"
    /\ ~(Posted(Start(c)) /\ c \in handlers)

(* No handler outlives its question: while the main loop can still do it,    *)
(* every registered handler has a call that waits for it or a cancellation   *)
(* on its way.  A call that gives up before the main loop has seen its        *)
(* question relies on the order of the channel for this.                    *)
NoHandlerLeak ==
  receiver =>
    \A c \in handlers :
      \/ caller[c] \in {"waiting", "listening", "cancelling"}
      \/ Posted(Cancel(c))

(* Candidates are accepted only for the session they were asked of: whatever  *)
(* changed between the snapshot and the arrival of the answer, it turns the *)
(* answer into None, and so does a deadline or a cancellation in between.   *)
OnlyCurrentAccepted ==
  [][\A c \in Callers :
       (session # snapshot[c] \/ c \in expired \/ c \in cancelled) /\ reply[c] # "some"
         => reply'[c] # "some"]_vars

(* The client is told to drop a question only if it has it: it was sent, and *)
(* the main loop has not seen its answer.                                   *)
OnlyOpenWithdrawn == [][told' \ told \subseteq open]_vars

(* Every call returns, though the client never answers and the main loop may *)
(* have ended (FairSpec).                                                   *)
EveryCallReturns == \A c \in Callers : caller[c] = "queueing" ~> caller[c] = "done"

(* The client is not left working for nobody: each question it was sent is    *)
(* answered, or it is told to drop it, unless the loop is over (FairSpec).  *)
EveryQuestionSettled ==
  \A c \in Callers : c \in open ~> (c \notin open \/ c \in told \/ LoopOver)
=============================================================================
