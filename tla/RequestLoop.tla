----------------------------- MODULE RequestLoop -----------------------------
(***************************************************************************)
(* The life of a client request in the Shucked language server             *)
(* (crates/shucked-lsp): the main loop of server/main_loop.rs, the         *)
(* Incoming half of session/request_queue.rs, the two thread pools of      *)
(* server/schedule.rs, cancellation, and the shutdown / exit / disconnect  *)
(* sequence with the order in which Server is dropped.                     *)
(*                                                                         *)
(* One thread, the main loop, owns all session state.  Every other thread  *)
(* talks to it through ONE bounded channel (Server::new builds it with     *)
(* capacity 32), and so does the main loop itself: a handler that answers  *)
(* on the main thread queues its response on that same channel.            *)
(*                                                                         *)
(* What the client writes is not kept in a queue of its own: a message is  *)
(* chosen when the main loop receives it.  Nothing the server does depends *)
(* on a message it has not received yet, so every order of arrival is      *)
(* covered, a cancellation that crosses the response included.             *)
(***************************************************************************)
EXTENDS Naturals, Sequences

CONSTANTS
  Ids,        \* request ids; a client uses each one once
  Workers,    \* threads of the background pool
  Formatters, \* threads of the formatting pool (one in the code)
  Producers,  \* threads that post other events: diagnostics, watcher, capture
  Capacity,   \* bound of the main-loop channel (32 in the code)
  MaxPosts    \* bound: how many other events the producers post in all

ASSUME CapacityAssumption == Capacity \in Nat \ {0}
ASSUME PostsAssumption == MaxPosts \in Nat
ASSUME ThreadsAssumption ==
  /\ Workers \cap Formatters = {}
  /\ Producers \cap (Workers \cup Formatters) = {}

Threads == Workers \cup Formatters
Pools == {"worker", "fmt"}
PoolOf(t) == IF t \in Workers THEN "worker" ELSE "fmt"

(* What a reply says: the handler's own result or error, the InvalidRequest *)
(* of a server that is shutting down, or RequestCanceled.                   *)
Kinds == {"answer", "refused", "cancelled"}

Other == [type |-> "other"]
NoEvent == [type |-> "none"]
Response(id, kind) == [type |-> "response", id |-> id, kind |-> kind]
Responses == [type : {"response"}, id : Ids, kind : {"answer", "refused"}]
Events == {Other} \cup Responses

(* A job of a pool.  A request on a document that is not open is run       *)
(* without a snapshot and does not look at its token again afterwards.     *)
Jobs == [id : Ids, rechecks : BOOLEAN]
NoJob == [idle |-> TRUE]

VARIABLES
  main,       \* what the main thread is doing
  sending,    \* the event its handler has yet to queue
  shutdown,   \* Session.shutdown_requested
  pending,    \* keys of Incoming.pending
  tokens,     \* the cancellation token of each request
  channel,    \* the bounded main-loop channel
  receiver,   \* is the main-loop receiver still there?
  jobs,       \* the unbounded job queue of each pool
  thread,     \* what each pool thread is doing
  job,        \* and the job it holds
  producer,   \* what each producer thread is doing
  stopped,    \* Queue.stopped of the diagnostic worker
  posts,      \* other events posted so far (bound)
  clientGone, \* the client has closed its end of the connection
  received,   \* history: ids of the requests received
  late,       \* history: those received after the shutdown request
  replies     \* history: what each request was answered

requestVars == <<pending, tokens, received, late, replies>>
poolVars == <<jobs, thread, job>>
producerVars == <<producer, stopped, posts>>
vars == <<main, sending, shutdown, requestVars, channel, receiver, poolVars,
          producerVars, clientGone>>

Init ==
  /\ main = "select"
  /\ sending = NoEvent
  /\ shutdown = FALSE
  /\ pending = {}
  /\ tokens = [i \in Ids |-> "none"]
  /\ channel = <<>>
  /\ receiver = TRUE
  /\ jobs = [p \in Pools |-> <<>>]
  /\ thread = [t \in Threads |-> "idle"]
  /\ job = [t \in Threads |-> NoJob]
  /\ producer = [p \in Producers |-> "idle"]
  /\ stopped = FALSE
  /\ posts = 0
  /\ clientGone = FALSE
  /\ received = {}
  /\ late = {}
  /\ replies = [i \in Ids |-> <<>>]

Full == Len(channel) >= Capacity
(* The loop returns Ok, or an error: `exit` came too early ("failed"), or a  *)
(* write to the client did not go through ("broken").                       *)
LoopOver == main \in {"ended", "failed", "broken"}

-----------------------------------------------------------------------------
(* The main loop receives a client message.                                *)

(* Incoming::register: the first thing done with any request.              *)
Register(id) ==
  /\ main = "select"
  /\ id \notin received
  /\ received' = received \cup {id}
  /\ late' = IF shutdown THEN late \cup {id} ELSE late
  /\ pending' = pending \cup {id}

(* Client::respond and respond_err called on the main thread: the response *)
(* is put on the main loop's own channel, which may block.                 *)
RespondFromMain(id, kind) ==
  /\ main' = "sending"
  /\ sending' = Response(id, kind)

(* A request after `shutdown` is refused before it is even looked at.      *)
RefuseRequest(id) ==
  /\ Register(id)
  /\ shutdown
  /\ RespondFromMain(id, "refused")
  /\ UNCHANGED <<shutdown, tokens, replies, channel, receiver, poolVars, producerVars,
                 clientGone>>

(* codeAction/resolve, completionItem/resolve, executeCommand, an unknown   *)
(* method and parameters that do not parse all answer on the main thread.   *)
RunSyncRequest(id) ==
  /\ Register(id)
  /\ ~shutdown
  /\ RespondFromMain(id, "answer")
  /\ UNCHANGED <<shutdown, tokens, replies, channel, receiver, poolVars,
                 producerVars, clientGone>>

RunShutdown(id) ==
  /\ Register(id)
  /\ ~shutdown
  /\ shutdown' = TRUE
  /\ RespondFromMain(id, "answer")
  /\ UNCHANGED <<tokens, replies, channel, receiver, poolVars, producerVars,
                 clientGone>>

(* Mutant: only the requests answered on the main thread ask for shutdown.  *)
DispatchAfterShutdown(id, pool, rechecks) ==
  /\ Register(id)
  /\ tokens' = [tokens EXCEPT ![id] = "live"]
  /\ jobs' = [jobs EXCEPT ![pool] = Append(@, [id |-> id, rechecks |-> rechecks])]
  /\ UNCHANGED <<main, sending, shutdown, replies, channel, receiver, thread, job,
                 producerVars, clientGone>>

(* Every other request is built on the main thread, where its token and its *)
(* snapshot are taken, and queued for a pool; the job queue never blocks.   *)
DispatchBackground(id, pool, rechecks) ==
  /\ Register(id)
  /\ ~shutdown
  /\ tokens' = [tokens EXCEPT ![id] = "live"]
  /\ jobs' = [jobs EXCEPT ![pool] = Append(@, [id |-> id, rechecks |-> rechecks])]
  /\ UNCHANGED <<main, sending, shutdown, replies, channel, receiver, thread, job,
                 producerVars, clientGone>>

(* Mutant: the cancelled request keeps its entry, so it can be answered again. *)
CancelKeepsEntry(id) ==
  /\ main = "select"
  /\ id \in pending
  /\ tokens' = [tokens EXCEPT ![id] = IF @ = "live" THEN "cancelled" ELSE @]
  /\ replies' = [replies EXCEPT ![id] = IF clientGone THEN @ ELSE Append(@, "cancelled")]
  /\ UNCHANGED <<main, sending, shutdown, pending, received, late, channel, receiver,
                 poolVars, producerVars, clientGone>>

(* Mutant: the token alone is cancelled, and the reply is left to the job.   *)
CancelTokenOnly(id) ==
  /\ main = "select"
  /\ id \in pending
  /\ tokens' = [tokens EXCEPT ![id] = IF @ = "live" THEN "cancelled" ELSE @]
  /\ UNCHANGED <<main, sending, shutdown, pending, replies, received, late, channel,
                 receiver, poolVars, producerVars, clientGone>>

(* $/cancelRequest: Incoming::cancel, and when the request was still        *)
(* pending the RequestCanceled error goes straight to the client.  The      *)
(* handler swallows a failure to send it.                                   *)
Cancel(id) ==
  /\ main = "select"
  /\ id \in pending
  /\ pending' = pending \ {id}
  /\ tokens' = [tokens EXCEPT ![id] = IF @ = "live" THEN "cancelled" ELSE @]
  /\ replies' = [replies EXCEPT ![id] = IF clientGone THEN @ ELSE Append(@, "cancelled")]
  /\ UNCHANGED <<main, sending, shutdown, received, late, channel, receiver, poolVars,
                 producerVars, clientGone>>

(* `exit` ends the loop, with an error unless `shutdown` came first.        *)
Exit ==
  /\ main = "select"
  /\ main' = IF shutdown THEN "ended" ELSE "failed"
  /\ UNCHANGED <<sending, shutdown, requestVars, channel, receiver, poolVars,
                 producerVars, clientGone>>

(* The client goes away.  What it wrote before can still be received; the   *)
(* server's writes fail from now on.                                        *)
ClientLeaves ==
  /\ ~clientGone
  /\ clientGone' = TRUE
  /\ UNCHANGED <<main, sending, shutdown, requestVars, channel, receiver, poolVars,
                 producerVars>>

(* next_event sees the closed connection and the loop returns Ok.           *)
SeeDisconnect ==
  /\ main = "select"
  /\ clientGone
  /\ main' = "ended"
  /\ UNCHANGED <<sending, shutdown, requestVars, channel, receiver, poolVars,
                 producerVars, clientGone>>

-----------------------------------------------------------------------------
(* The main loop receives from its own channel.                            *)

TakeEvent ==
  /\ main = "select"
  /\ channel # <<>>
  /\ channel' = Tail(channel)
  /\ UNCHANGED <<sending, shutdown, tokens, received, late, receiver, poolVars,
                 producerVars, clientGone>>

(* SendResponse for a request that is still pending goes to the client; a   *)
(* failed write ends the loop with an error.                                *)
CompleteRequest ==
  /\ TakeEvent
  /\ Head(channel).type = "response"
  /\ Head(channel).id \in pending
  /\ pending' = pending \ {Head(channel).id}
  /\ IF clientGone
       THEN main' = "broken" /\ UNCHANGED replies
       ELSE /\ replies' = [replies EXCEPT ![Head(channel).id] = Append(@, Head(channel).kind)]
            /\ UNCHANGED main

(* SendResponse for a request that was cancelled meanwhile is ignored.      *)
IgnoreResponse ==
  /\ TakeEvent
  /\ Head(channel).type = "response"
  /\ Head(channel).id \notin pending
  /\ UNCHANGED <<main, pending, replies>>

(* Every other event.  Its handler may write to the client: diagnostics to  *)
(* publish, a live completion request; that fails once the client is gone.  *)
HandleOther ==
  /\ TakeEvent
  /\ Head(channel).type = "other"
  /\ \/ UNCHANGED main
     \/ clientGone /\ main' = "broken"
  /\ UNCHANGED <<pending, replies>>

(* Mutant: the event stays in hand after it was queued.                     *)
FinishSendKeepsEvent ==
  /\ main = "sending"
  /\ ~Full
  /\ channel' = Append(channel, sending)
  /\ main' = "select"
  /\ UNCHANGED <<sending, shutdown, requestVars, receiver, poolVars, producerVars,
                 clientGone>>

(* Mutant: the main thread's own sends do not respect the bound.             *)
FinishSendUnbounded ==
  /\ main = "sending"
  /\ channel' = Append(channel, sending)
  /\ sending' = NoEvent
  /\ main' = "select"
  /\ UNCHANGED <<shutdown, requestVars, receiver, poolVars, producerVars, clientGone>>

(* A send from the main thread goes through when there is room, and only    *)
(* the main thread makes room.                                              *)
FinishSend ==
  /\ main = "sending"
  /\ ~Full
  /\ channel' = Append(channel, sending)
  /\ sending' = NoEvent
  /\ main' = "select"
  /\ UNCHANGED <<shutdown, requestVars, receiver, poolVars, producerVars, clientGone>>

-----------------------------------------------------------------------------
(* A pool thread.                                                          *)

Hold(t, at, held) ==
  /\ thread' = [thread EXCEPT ![t] = at]
  /\ job' = [job EXCEPT ![t] = held]

Rest(t) == Hold(t, "idle", NoJob)

(* Take the oldest job; one whose request was cancelled is dropped.         *)
TakeJob(t) ==
  /\ thread[t] = "idle"
  /\ jobs[PoolOf(t)] # <<>>
  /\ jobs' = [jobs EXCEPT ![PoolOf(t)] = Tail(@)]
  /\ LET next == Head(jobs[PoolOf(t)])
     IN  IF tokens[next.id] = "cancelled"
           THEN UNCHANGED <<thread, job>>
           ELSE Hold(t, "running", next)
  /\ UNCHANGED <<main, sending, shutdown, requestVars, channel, receiver, producerVars,
                 clientGone>>

(* Mutant: the second look at the token is the wrong way round.             *)
FinishJobSilently(t) ==
  /\ thread[t] = "running"
  /\ IF job[t].rechecks /\ tokens[job[t].id] # "cancelled"
       THEN Rest(t)
       ELSE Hold(t, "sending", job[t])
  /\ UNCHANGED <<main, sending, shutdown, requestVars, channel, receiver, jobs,
                 producerVars, clientGone>>

(* The handler returns, fails or panics (the panic is caught and becomes an *)
(* InternalError); a request cancelled meanwhile is not answered.           *)
FinishJob(t) ==
  /\ thread[t] = "running"
  /\ IF job[t].rechecks /\ tokens[job[t].id] = "cancelled"
       THEN Rest(t)
       ELSE Hold(t, "sending", job[t])
  /\ UNCHANGED <<main, sending, shutdown, requestVars, channel, receiver, jobs,
                 producerVars, clientGone>>

(* The send blocks while the channel is full and fails once the receiver is *)
(* gone; the failure is only logged.                                        *)
SendResult(t) ==
  /\ thread[t] = "sending"
  /\ IF receiver
       THEN ~Full /\ channel' = Append(channel, Response(job[t].id, "answer"))
       ELSE UNCHANGED channel
  /\ Rest(t)
  /\ UNCHANGED <<main, sending, shutdown, requestVars, receiver, jobs, producerVars,
                 clientGone>>

(* The scheduler is dropped when the loop returns: its threads drain their  *)
(* queue and end.  Nobody joins them.                                       *)
EndThread(t) ==
  /\ thread[t] = "idle"
  /\ LoopOver
  /\ jobs[PoolOf(t)] = <<>>
  /\ Hold(t, "done", NoJob)
  /\ UNCHANGED <<main, sending, shutdown, requestVars, channel, receiver, jobs,
                 producerVars, clientGone>>

-----------------------------------------------------------------------------
(* A producer: a diagnostic thread, the environment watcher, a login-shell   *)
(* capture.  It posts an event when it has one.                             *)

BeginPost(p) ==
  /\ producer[p] = "idle"
  /\ ~stopped
  /\ posts < MaxPosts
  /\ posts' = posts + 1
  /\ producer' = [producer EXCEPT ![p] = "posting"]
  /\ UNCHANGED <<main, sending, shutdown, requestVars, channel, receiver, poolVars,
                 stopped, clientGone>>

(* Mutant: a post that finds no receiver waits for one.                     *)
FinishPostWaits(p) ==
  /\ producer[p] = "posting"
  /\ receiver
  /\ ~Full
  /\ channel' = Append(channel, Other)
  /\ producer' = [producer EXCEPT ![p] = "idle"]
  /\ UNCHANGED <<main, sending, shutdown, requestVars, receiver, poolVars, stopped,
                 posts, clientGone>>

FinishPost(p) ==
  /\ producer[p] = "posting"
  /\ IF receiver
       THEN /\ ~Full
            /\ channel' = Append(channel, Other)
            /\ producer' = [producer EXCEPT ![p] = "idle"]
       ELSE producer' = [producer EXCEPT ![p] = "done"] /\ UNCHANGED channel
  /\ UNCHANGED <<main, sending, shutdown, requestVars, receiver, poolVars, stopped,
                 posts, clientGone>>

EndProducer(p) ==
  /\ producer[p] = "idle"
  /\ stopped
  /\ producer' = [producer EXCEPT ![p] = "done"]
  /\ UNCHANGED <<main, sending, shutdown, requestVars, channel, receiver, poolVars,
                 stopped, posts, clientGone>>

-----------------------------------------------------------------------------
(* The loop has returned and Server is dropped, field by field in the order  *)
(* of declaration: the receiver, then the session, whose diagnostic worker   *)
(* tells its threads to stop and joins them.                                *)

DropReceiver ==
  /\ LoopOver
  /\ receiver
  /\ receiver' = FALSE
  /\ channel' = <<>>
  /\ UNCHANGED <<main, sending, shutdown, requestVars, poolVars, producerVars, clientGone>>

DropSession ==
  /\ LoopOver
  /\ ~receiver
  /\ ~stopped
  /\ stopped' = TRUE
  /\ UNCHANGED <<main, sending, shutdown, requestVars, channel, receiver, poolVars,
                 producer, posts, clientGone>>

(* Server::run returns once the joins are done and the process leaves when   *)
(* the writer thread has lost its last sender, so after the pools.          *)
ServerDropped == stopped /\ \A p \in Producers : producer[p] = "done"
ProcessOver == ServerDropped /\ \A t \in Threads : thread[t] = "done"

-----------------------------------------------------------------------------
ReceiveRequest(id) ==
  \/ RefuseRequest(id)
  \/ RunSyncRequest(id)
  \/ RunShutdown(id)
  \/ \E pool \in Pools, rechecks \in BOOLEAN : DispatchBackground(id, pool, rechecks)

HandleEvent == CompleteRequest \/ IgnoreResponse \/ HandleOther

PoolStep(t) == TakeJob(t) \/ FinishJob(t) \/ SendResult(t) \/ EndThread(t)
ProducerStep(p) == BeginPost(p) \/ FinishPost(p) \/ EndProducer(p)

Next ==
  \/ \E id \in Ids : ReceiveRequest(id) \/ Cancel(id)
  \/ Exit
  \/ ClientLeaves
  \/ SeeDisconnect
  \/ HandleEvent
  \/ FinishSend
  \/ \E t \in Threads : PoolStep(t)
  \/ \E p \in Producers : ProducerStep(p)
  \/ DropReceiver
  \/ DropSession

(* Handlers return, threads are scheduled, and `select!` picks at random      *)
(* among the ready channels, so it does not pass over one for ever.  Nothing *)
(* obliges the client to send anything, nor a producer to start a post.     *)
Fairness ==
  /\ WF_vars(HandleEvent)
  /\ WF_vars(SeeDisconnect)
  /\ WF_vars(FinishSend)
  /\ \A t \in Threads : WF_vars(PoolStep(t))
  /\ \A p \in Producers : WF_vars(FinishPost(p)) /\ WF_vars(EndProducer(p))
  /\ WF_vars(DropReceiver)
  /\ WF_vars(DropSession)

Spec == Init /\ [][Next]_vars
FairSpec == Spec /\ Fairness

-----------------------------------------------------------------------------
(* Types: every variable holds what its declaration says. *)
TypeOK ==
  /\ main \in {"select", "sending", "ended", "failed", "broken"}
  /\ main = "sending" <=> sending # NoEvent
  /\ sending \in Responses \cup {NoEvent}
  /\ shutdown \in BOOLEAN
  /\ pending \subseteq Ids
  /\ tokens \in [Ids -> {"none", "live", "cancelled"}]
  /\ channel \in Seq(Events)
  /\ receiver \in BOOLEAN
  /\ jobs \in [Pools -> Seq(Jobs)]
  /\ thread \in [Threads -> {"idle", "running", "sending", "done"}]
  /\ job \in [Threads -> Jobs \cup {NoJob}]
  /\ \A t \in Threads : thread[t] \in {"running", "sending"} => job[t] \in Jobs
  /\ producer \in [Producers -> {"idle", "posting", "done"}]
  /\ stopped \in BOOLEAN
  /\ posts \in 0 .. MaxPosts
  /\ clientGone \in BOOLEAN
  /\ received \subseteq Ids
  /\ late \subseteq received
  /\ replies \in [Ids -> Seq(Kinds)]

(* A request is answered at most once, however its cancellation crosses the *)
(* response: Incoming::cancel and Incoming::complete remove the entry, and   *)
(* whoever removes it is the one who replies.                               *)
AtMostOneReply == \A id \in Ids : Len(replies[id]) <= 1

(* A reply says what happened: a request that arrived before `shutdown` is   *)
(* never refused, one that arrived after it never gets a handler's answer,   *)
(* even with jobs of both kinds still in flight.                            *)
RefusedExactlyWhenLate ==
  \A id \in Ids :
    \A i \in 1 .. Len(replies[id]) :
      /\ replies[id][i] = "refused" => id \in late
      /\ replies[id][i] = "answer" => id \notin late

(* Somebody still holds the response of `id`, or the work that leads to it.  *)
Queued(id) == \E p \in Pools : \E i \in 1 .. Len(jobs[p]) : jobs[p][i].id = id
Running(id) == \E t \in Threads : thread[t] \in {"running", "sending"} /\ job[t].id = id
Answering(id) ==
  \/ \E i \in 1 .. Len(channel) :
       channel[i].type = "response" /\ channel[i].id = id
  \/ sending.type = "response" /\ sending.id = id

(* No request is lost: while the loop can still answer, each pending request *)
(* is queued, running or on its way back.  In particular a job is dropped    *)
(* for its cancelled token only when the client already has its reply.      *)
NoLostRequest ==
  receiver => \A id \in pending : Queued(id) \/ Running(id) \/ Answering(id)

(* A main loop that blocks on its own full channel stays blocked: it is the  *)
(* only consumer, so no step of any thread makes room.                      *)
SelfBlocked == main = "sending" /\ Full
SelfBlockIsForever == [][SelfBlocked => SelfBlocked']_vars

(* Every request is answered (FairSpec) unless the loop ends first, or       *)
(* blocks on its own full channel: nothing else can swallow an answer, not a *)
(* channel that others fill, a cancelled token, or a busy pool.             *)
EveryRequestAnswered ==
  \A id \in Ids : id \in pending ~> (id \notin pending \/ LoopOver \/ SelfBlocked)

(* Once the loop has returned the process ends: a producer blocked on the    *)
(* full channel is released by the dropped receiver before it is joined.    *)
ClosesDown == LoopOver ~> ProcessOver

(* schedule/thread/pool.rs:19: "Keep the LSP main loop responsive even when  *)
(* background work piles up."  While the client is there, the main thread    *)
(* gets through with every response it has to queue.                        *)
MainLoopResponsive == (main = "sending") ~> (main # "sending" \/ clientGone)

(* tests/disconnect.rs:47: "disconnect after initialization should be a      *)
(* clean shutdown".  The loop does not end in an error because the client    *)
(* left.                                                                    *)
CleanDisconnect == main # "broken"
=============================================================================
