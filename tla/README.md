# Shucked, specified

A TLA+ development of the concurrent core of `shucked`, a shell linter,
formatter and language server written in Rust.  The repository is mostly
sequential: a parser, a semantic model, several hundred lint rules and a
formatter are functions from text to text.  What is hard to test is the
language server, `crates/shucked-lsp`: one main thread owns the session, and
two pools, two diagnostic threads, a file watcher, login-shell captures and an
unreliable client talk to it.  The command line adds a cache on disk that runs
side by side share with whoever edits the files.  These modules model those
parts; they say what each promises, check it with TLC on small instances, and
prove the most important safety properties with TLAPS for every value of the
constants.

Paths below are relative to `crates/shucked-lsp/src` unless they start with
`crates/`.

## Inventory

| Component | State | Operations | What must hold |
| --- | --- | --- | --- |
| Request loop (`server/main_loop.rs`, `server.rs`) | the bounded main-loop channel (32), the session, the connection | receive a message or an event, dispatch, respond, exit | every request gets one reply, of the right kind; the loop stays responsive; close-down ends every thread |
| Incoming queue (`session/request_queue.rs`) | pending requests and their tokens | register, cancel, token, complete | whoever removes the entry replies |
| Scheduler and pools (`server/schedule`) | two job queues, N + 1 threads | dispatch, run, end | jobs are not lost; a cancelled job is dropped only when the client has its reply |
| Diagnostic worker (`server/diagnostic_worker.rs`) | pending entries, kept tokens, two threads, a condition variable | schedule, cancel, take, wait, finish, drop | latest-only; no lost wakeup; both phases see the latest snapshot |
| Session and publication (`session.rs`, `session/index.rs`, `server/api/notifications`) | open documents, three counters, completed keys | every notification, environment ticks, DiagnosticsReady | nothing stale is shown; complete results are not downgraded; the editor catches up |
| Live completion and outgoing requests (`server/live_completion.rs`) | response handlers, a reply channel per request, a deadline | queue, start, answer, time out, cancel | one reply; handlers are not leaked; a late answer is ignored |
| Workspace function index (`handlers/workspace_functions.rs`) | epoch, built index, build lock | get, build, store, invalidate | what is returned belongs to the epoch asked for |
| Command service (`handlers/commands.rs`) | generation, shell sessions, caches | update_session, invalidate, analysis, capture_host | sessions do not go back; entries of an old generation are not used |
| Login-shell capture (`handlers/login_shell.rs`) | captures, fingerprints, retry times | lookup, refresh, retry, finish | one capture at a time; backoff; a stale capture is redone |
| Environment watcher (`server/environment_watcher.rs`) | watch targets, observed fingerprints | update, register, debounce | no change between analysis and registration is missed |
| Semantic token cache (`handlers/semantic_tokens_cache.rs`) | memo and published result per document | full, range, delta, evict | a delta applies to the result whose id the client holds |
| Document analysis cache (`handlers/analysis.rs`) | LRU with a byte budget, settings epoch | get_or_build, invalidate, clear | within budget; keyed by snapshot |
| Result cache and CLI runs (`crates/shucked-cache`, `crates/shucked-cli`) | cache files keyed by file metadata and settings | open, get, insert, persist, prune | a stale entry is never used |
| Parser, semantic model, linter, formatter, discovery, configuration | none beyond one call | pure functions, file reads | out of scope: see the end |

The components meet in three places.  Every thread sends its results to the
main loop through ONE bounded channel, and so does the main thread itself.  A
snapshot of the session (document, settings, three counters, a cancellation
token) is taken on the main thread and used on another, where the analysis
also reads caches that the main thread invalidates meanwhile.  And dropping
`Server` drops its fields in the order of their declaration, joins included.

## Modules

```
RequestLoop ── MCRequestLoop, RequestLoopProofs
LiveCompletion ── LiveCompletionProofs
DiagnosticWorker ──┬── DiagnosticQueue ── MCDiagnosticQueue, DiagnosticQueueProofs
                   │        └── INSTANCE DiagnosticMailbox
                   └── DiagnosticPipeline ── MCDiagnosticPipeline, DiagnosticPipelineProofs
TokenEncoding ── SemanticTokens ── MCSemanticTokens, SemanticTokensProofs
WorkspaceIndex ── WorkspaceIndexProofs
Environment ── EnvironmentProofs
ResultCache ── ResultCacheProofs
```

### RequestLoop

The life of a request.  `main` is the position of the main thread (in
`select!`, blocked on a send, or returned), `channel` the main-loop channel,
`pending` and `tokens` the Incoming queue, `jobs`, `thread` and `job` the two
pools, `producer` any other thread that posts events.  One action per branch:
`RefuseRequest`, `RunSyncRequest`, `RunShutdown` and `DispatchBackground` are
the four fates of a received request; `Cancel`, `Exit`, `SeeDisconnect` the
other messages; `CompleteRequest`, `IgnoreResponse`, `HandleOther` what is
received from the channel; `TakeJob`, `FinishJob`, `SendResult`, `EndThread` a
pool thread; `DropReceiver` and `DropSession` the drop of `Server`.  A handler
that answers on the main thread ends in `FinishSend`, which has to wait for
room.  What the client will send is chosen when it is received, so messages
arrive in every order.

`RunShutdown` and the other synchronous requests respond through the same
channel as everybody else.  A request on a document that is not open becomes a
job that does not look at its token a second time (`rechecks = FALSE`).

### DiagnosticWorker, DiagnosticMailbox, DiagnosticQueue

`DiagnosticWorker` holds the state and the actions of the worker, without an
environment; `DiagnosticQueue` runs it under a session that schedules and
closes what it likes, and shows that it implements `DiagnosticMailbox`, the
abstract promise: the latest snapshot only, each phase once per snapshot, and
at most one late result per phase.  The refinement mapping reads the kept
token as the latest snapshot and a thread that is about to send as committed;
`finished` is a history variable for what each phase has done.

Instants are abstracted to order: all entries are due the same 400 ms after
they were scheduled, so due times are ordered like batches, and `Ripen` makes
the oldest entry due.  A batch is one `schedule_all_diagnostics` (or one
`schedule`).  The code locks once per document of a batch; the model inserts
the batch in one step, followed by `NotifyAll` as a step of its own.  Between
two insertions of one batch a thread can only do what it can also do just
before the batch (its document has not been rescheduled yet: its result
carries the old key) or just after it (the documents of a batch are taken in
any order).

### DiagnosticPipeline

The session around the worker: `open` is `Index.documents`, `clientOpen` what
the client believes, `settings`, `workspace` and `environment` are the three
counters of a snapshot, `completed` is `completed_diagnostics` of the main
loop, `shown` is what the editor displays.  One action per notification, with
every call it makes: which counter it bumps, what it schedules, what it
cancels, what it clears.  `Key` is the part of a snapshot that travels with
the result; `Reading` is what the analysis reads, the text and the settings of
its snapshot but the workspace index and the command service as they are when
it gets to them.  `Current` and `Superseded` are the two tests of the
DiagnosticsReady branch.  The modelled client takes pushed diagnostics.

### LiveCompletion

A thread of the completion service asks the client for candidates of the
attached shell, through the main loop.  `caller` is the position of each call
of `request` (`Ask`, `Queue`, `Check`, `Listen`, `GiveUp`), `channel` the
main-loop channel with the LiveCompletion and CancelLiveCompletion events,
`handlers` the keys of `Outgoing.response_handlers`, `reply` the slot each call
waits on, `open` the questions the client works on.  `Decline` and `Forward`
are the two outcomes of `start`, `Withdraw` and `WithdrawNothing` those of the
cancellation, `Accept` and `IgnoreAnswer` those of a response.  The session is
one counter of its changes: all that `Pending::current` compares is covered by
it, since each change of a shell session raises the environment generation.
Words, prefixes and candidates are abstracted to whether an answer is usable.
The other requests the server sends to the client are not modelled: they have
no deadline, and nothing waits for them.

### TokenEncoding, SemanticTokens

`TokenEncoding` is the pure part: the relative encoding of tokens, the
selection of a range, the edit between two encodings, and what a client does
with an edit.  `SemanticTokens` runs full, range and delta requests of one
document on the threads of the pool.  A request carries the snapshot it was
dispatched with; the rest it looks up: its slot in the documents map (`slots`,
`slotOf`), the slot's memo and published result under the slot's mutex
(`holder`), and the command analyses all handlers share (`analyses`, filled by
`CommandService::analysis`).  Each of `Begin`, `Lock`, `Lookup`, `Resolve`,
`Compare`, `Insert` and the three `Answer` actions is what happens between two
points where another thread can get in: a lock, or a value another thread may
change.  The notifications are in the model as far as they move the snapshot's
counters, evict the slot or clear the analyses; `Forget` is the age and the
size limit of the analysis cache.  The client applies what it receives
(`held`), in any order with the answers of other threads, and asks for a delta
against it.  How tokens are found in a text is the constant `TokensOf`.

### WorkspaceIndex

The cross-file index, from its lookup to its store, on the threads of the
requests.  A guarded call looks up, polls for the building mutex, looks again,
builds and stores; a mutation request (rename, code action) builds without
either; a cached call never builds.  A build reads two files one after the
other, of which one depends on the other, reuses what the previous index or the
retained projections know, and asks between any two parts whether it is
cancelled or its epoch is over.  Files change at any moment, with or without
somebody telling the server.

### Environment

The circle by which the server keeps up with its host.  An analysis looks up
the login shell and starts its capture; the capture ends with an
`EnvironmentTick`; the tick refreshes captures, schedules analyses and hands
the watcher a new list of paths; a registration of changed paths causes another
tick, since something may have been written in between.  `entry` is the entry
of one shell in `LoginShellService`, `captures` and `notices` its threads,
`targets`, `token` and `watcher` the two sides of `EnvironmentWatcher`.  Native
events may be lost.  The intervals of the code (2 s between polls, 250 ms to
settle, the backoff of a failed capture, 30 s between refreshes) are
nondeterministic.

### ResultCache

`shucked check`, `shucked format` and `shucked clean` as processes that share
one cache file per command, next to an editor that writes the script and the
library the script sources.  One action per point at which another process or
the editor can get in: the cache is opened, the key of the script is taken, the
dependencies of a hit are compared, the source is read, the dependencies are
read, their fingerprint is taken, the formatted text is written, its key is
taken again, the cache file is replaced.  A run may be killed anywhere.  A key
is modelled as the version of the file it was taken of, so that a change always
changes the key: the code takes modification and change times, permissions and
size.  `raced` is the one variable the code does not have: it marks an entry
whose file was written between the step that used it and the step that took its
key.

## Runs

| Run | Checks | Instance |
| --- | --- | --- |
| RequestLoop | TypeOK, AtMostOneReply, RefusedExactlyWhenLate, NoLostRequest, SelfBlockIsForever, EveryRequestAnswered, ClosesDown | 2 requests, 2 workers, formatter, 1 producer with 1 post, capacity 1 |
| RequestLoopSelfBlock | MainLoopResponsive: violated | 1 request, 2 producers with 2 posts, capacity 2 |
| RequestLoopDisconnect | CleanDisconnect: violated | 1 request, 1 worker, capacity 2 |
| DiagnosticQueue | NoLostWakeup, TokensTellTheTruth, ImplementsMailbox, LatestGetsAnalysed, ThreadsEnd | 2 documents, 2 batches, capacity 1, panics |
| DiagnosticPipeline | NothingStalePublished, NoDowngrade, NoLateResurrection, EventuallyCurrent | 1 document, 1 text, 2 events and their ticks, capacity 1, panics |
| DiagnosticPipelineLostFolder | ClosedShowsNothing: violated | 1 document, 2 events |
| LiveCompletion | OneReply, NoHandlerLeak, OnlyCurrentAccepted, OnlyOpenWithdrawn, EveryCallReturns, EveryQuestionSettled | 2 questions, capacity 2, 1 change |
| SemanticTokens | TypeOK, DeltaRebuilds, OneResultPerId, OwnState, SharedAnalysisComplete | 2 requests in flight of 3, a script and a text that is none, 2 changes |
| SemanticTokensMemo | CompleteTokens: violated | 2 requests, 1 change |
| WorkspaceIndex | TypeOK, Coherent, FreshSeesDisk, NoRepeatedBuild, BuiltNeverFalls, EveryCallReturns | 2 threads, 3 calls, 2 contents, 1 write, 1 invalidation |
| Environment | TypeOK, CaptureIsCurrent, EventuallyCurrent, Settles | 1 slot in the channel, 2 incidents |
| ResultCache | CheckSound, FormatSound, ReportOfThisRun | 2 processes, 3 runs, 2 writes by the editor |

`MCSemanticTokens` also assumes, so that TLC evaluates them, two facts about
the encoding over all documents of up to three tokens on two lines and all
pairs of positions: decoding undoes encoding (`DecodeInvertsEncode`), and a
range is answered with exactly the tokens it covers a character of
(`RangeSelectsTouched`).

Why the bounds are enough.

* Request loop: two requests can be of different ages relative to `shutdown`,
  one running or on its way back while the other arrives or is cancelled; a
  channel of one slot makes every send block in some behaviour, which the 32
  slots of the code only do under load.  `EveryRequestAnswered` excepts the
  loop that waits for itself, which `RequestLoopSelfBlock` shows to happen:
  nothing else keeps an answer back.
* Diagnostics: two batches over two documents let an entry be taken by one
  phase and replaced while that work still runs, and its finish come after the
  replacement.  Two events are a change or a close and one more event while the
  results of the first are on their way, with periodic refreshes between them.
  The theorems cover any number of batches, events, documents and texts; the
  liveness properties depend on the last event alone.
* Live completion: two questions share two slots, so the start and the
  cancellation of one can wait there together, and two starts fill it, so that
  a call blocks on its own cancellation.
* Semantic tokens: the third request can base its delta on the result of the
  first after the second has published another; two changes let a memo grow
  stale twice, and the slot be evicted while a request holds it and made again.
* Workspace index: of three calls one builds, one waits and one comes after;
  one write and one invalidation can fall before, between and after every two
  parts of each of them.  Two files are the least with a dependency.
* Environment: with two incidents a startup file is written while it is
  captured, a capture fails and the file is written while it is retried, or a
  path is written between the analysis that reads it and its registration; with
  one slot in the channel the watcher, a capture and the main loop wait for each
  other.
* Result cache: two processes of both commands overlap in every way, and the
  third run uses what they left behind; two writes fit between any two steps.
  The theorems cover any number.

Deadlock checking is off because each system really stops: the process ends,
or the bound on events, calls or runs is reached.

Fairness is that of the code's scheduling: threads run, handlers and analyses
return, time passes, `select!` chooses at random among ready channels, the
condition variable's notification is on its way once the lock is released.
Nothing is assumed of the client, of panics, of spurious wakeups: in
`LiveCompletion` the client need never answer.  In `Environment` a thread that
waits for room in the channel gets it in the end (strong fairness of its send);
of the main loop's refresh every 30 s only that is assumed which retries a
failed capture.  The code has more of it, and so would forgive a watcher that
misses something for 30 s; the property is that the watcher does not.

## Disagreements found

* `RequestLoopSelfBlock`.  `Client::respond` blocks on the bounded main-loop
  channel, and the main thread calls it too.  With the channel filled by
  background threads the main loop waits for itself for ever, against the
  comment in `server/schedule/thread/pool.rs:19`.  In the run the main thread
  answers the one request itself, and two events of other threads fill the two
  slots before its response is queued; the client is connected throughout.
* `RequestLoopDisconnect`.  A response may be taken from the channel and
  written after the client has left and before the disconnect is seen; the loop
  then returns an error, where `tests/disconnect.rs:47` expects a clean
  shutdown.  In the run a synchronous request is answered on the main thread,
  the client leaves before the response is queued, and the response is queued
  and taken.
* `DiagnosticPipelineLostFolder`.  Removing a workspace folder drops open
  documents without clearing what they show, and the later `didClose` finds
  nothing to clear.
* `SemanticTokensMemo`.  A request that is cancelled while it tokenises leaves
  its tokens in the memo though it had no workspace index, and later requests
  of the unchanged document get the same tokens with unresolved commands.
  `CommandService::analysis` (`handlers/commands.rs:317`) keeps nothing of a
  cancelled request; `SemanticTokensCache::memo`
  (`handlers/semantic_tokens_cache.rs:185`) has no such test.

## Proofs

All constants are arbitrary: any sets of ids, threads, documents and texts,
any positive capacity, any bound on events.  The assumptions are the named
ASSUMEs of the modules: the capacity is positive, the bounds are natural
numbers, the sets of threads are disjoint, a file has some content, and the
value that stands for "nothing there" is none of the others
(`NoneAssumption`).

For seven of the ten liveness properties (all but `ClosesDown`, `Settles` and
the EveryCallReturns of `LiveCompletion`) the theorems also state the part of it
that no fairness is needed for: where the work is that will bring the good state
about, that no step loses it, and that a system at rest is in the good state.
What they leave to TLC is that a fair scheduler gets there.  These invariants
are defined in the proof modules; TLC has found no counterexample to them on the
instances of the runs.

* `RequestLoopProofs`.  `TypeCorrect` is inductive by itself.  `NoSecondReply`
  needs `ReplyInv`: a pending request has no reply yet.  `RefusalsAreRight`
  needs `KindInv`: every response in the channel and in the main thread's hand
  has the kind its arrival calls for, every job belongs to an early request,
  and `late` is empty before `shutdown`.  `RequestsAreKept` needs `TokenInv`:
  a cancelled token belongs to a request that is no longer pending; then each
  step moves the holder of a request one stage further.  `SelfBlockPersists`
  looks at every action: the channel shrinks only in `TakeEvent`, which needs
  the main thread in `select!`.  `EntriesAreAccounted` is the other half of
  `NoSecondReply`: while the client is there, an entry is only taken by who
  writes its reply.  With `RequestsAreKept` it gives `QuietLoopHasAnswered`:
  a main loop and pools at rest have answered every request exactly once.
* `DiagnosticQueueProofs`.  `WakeupsArrive` is inductive with the types.
  `BatchInv` relates entries, kept tokens, cancelled tokens, running work and
  `finished` by their batch numbers; `TokensAreRight` follows from it, and so
  does each step of the refinement `WorkerIsMailbox`: a finish that finds its
  token live has the latest batch, and has not committed to it before.
  `LatestIsInHand`: the latest snapshot of a document is done, pending or in a
  thread's hand, for each phase; it uses that an abandoned task is not the
  latest.  With `WakeupsArrive` it gives `RestMeansDone`: a phase that sleeps
  for good has nothing left to analyse.  `NoneSleepsThroughDrop`: once the
  worker is told to stop no thread sleeps.
* `DiagnosticPipelineProofs`.  Counters only grow (`Forward`).  `FreshInv`
  bounds every key and every reading by the present counters and every reading
  from below by its key; when the key of a result equals the present key, the
  reading is caught between two equal values: `OnlyFreshIsPublished`.
  `RecordInv` says that a complete and current display is the recorded one,
  which is what lets the main loop recognise superseded static results:
  `CompleteStays`.  `ClosedStaysBlank` follows from the types.  `CareIsKept`
  is the step of `EventuallyCurrent`: a document is *cared for* if it shows
  complete and current diagnostics, or a pending entry, a task of the
  environment thread, a result in its hand or one in the channel will bring
  them; no step but a change of the workspace folders, which schedules nothing,
  takes that from an open document.  It needs `FreshInv`, `RecordInv` and that
  no token of a batch to come is cancelled (`BatchBound`).
  `RefreshCaresForAll`: the periodic refresh makes good for the folders.  The
  module starts with the type lemmas of the worker, one per operation, for any
  sets of snapshots and readings.
* `LiveCompletionProofs`.  NoHandlerLeak is not inductive: a call that gives up
  early leaves a question in the channel that is registered only later.
  `LifeInv` adds that a question occurs in the channel once, that its
  cancellation is behind it if its call has left, and that it is known to
  nobody else before it is queued.  `HandlersAreRemoved` and `SlotsStayFree`
  follow from it; `OnlyOpenAreWithdrawn` needs that a running loop registers
  only questions the client has; `OnlyCurrentAreAccepted` follows from the
  types.  `QuestionsAreLookedAfter` is the converse: a question open with the
  client, which it was not told to drop, has its handler, and a call or a
  cancellation that will settle it; so at rest there is none
  (`RestLeavesNothing`).
* `SemanticTokensProofs`.  `EditsRebuild`: for any two sequences of tokens, what
  the client makes of the old one with the edits of the pair is the new one.
  The common prefix and suffix agree and do not overlap, so both sequences are
  the same front, a middle, and the same back.  `DecodingInvertsEncoding`:
  the loop that reads an encoding back finds the tokens it was made of, for
  any list of them.  What a recursive function computes needs induction, which
  the provers do not have; here it is had from a least index at which two
  solutions of the recursion differ (`OneDecoding`).  `EncodingIsNatural`: for
  tokens in order no subtraction of the encoder falls below zero.
  `RangesSelectTouched`: the test of a token against a range selects exactly
  those of which it covers a character.  `TokensTypeCorrect` includes who
  holds the mutex.  `IdsNameResults` rests on `ResultInv`: there is a function
  `meaning` from ids to data that every result in a slot, a request's hand or
  the client's agrees with, and data that is shared with the memo is the memo's
  own; with `EditsRebuild` it gives `DeltasAreRight`.  `AnswersAreOfTheirState`
  and `SharedAnalysesAreComplete` rest on `OwnInv`: the text of a document is a
  function of the workspace epoch, a reading is of an environment no older than
  its key, and an incomplete analysis is of an earlier epoch.
* `WorkspaceIndexProofs`.  The invariant follows a build: each source it has
  read is one that the file held since the call began, and the loader's facts
  carry the library that goes into the index.  `PreparedIsMade` is the reason
  `IndexIsCoherent` holds: facts are reused only if both contents they depend
  on are the same, so that what is reused is what would be made.
  `BuildsAreNotRepeated` needs that an index is stored by a fresh call or by
  the holder of the mutex as it lets go; `IndexNeverFalls` that no index is of
  an epoch to come.  `NoCallGoesBack` is the variant of `EveryCallReturns`:
  each step of a call brings it nearer its return (`Ahead`) and no other step
  moves it; `MutexIsInUse` shows that who waits, waits for a call that builds.
* `EnvironmentProofs`.  `Invariance` is the inductive invariant of the whole
  circle.  `CapturesAreCurrent` needs `CaptureInv`: the fingerprint of an entry
  is no later than the content that was captured, and that no later than the
  file.  `QuietStatesAreCurrent` is the safety part of `EventuallyCurrent`: if
  no tick, capture, registration or analysis is under way, no capture has
  failed and the watcher has the files as they are, then the last analysis has
  read them so.  It rests on `Told`: the version of a file that a capture or an
  analysis has used is the one the watcher has, or the watcher is to find that
  it has an old one.  When nothing is under way this holds of the fingerprint
  of the capture (`RestInv`) and of what the last analysis has read
  (`SeenInv`), because a registration of changed paths brings a tick
  (`ObservedInv` says what the watcher has in the meantime).
* `ResultCacheProofs`.  `CacheInvariant` carries with each entry what makes it
  right: its key is no later than the content it was made from, because the key
  is taken first, and the fingerprint of its dependency is that of the content
  that was read unless the entry lost the race.  A run's reads are no older than
  its key and its key no older than the run.  `CheckResultsAreSound`,
  `FormatResultsAreSound` and `ReportsAreOfTheirRun` follow, for any number of
  processes, runs, writes and kills.

The types of `DiagnosticQueue`, `DiagnosticPipeline` and `LiveCompletion` are
proved only (`QueueTypeCorrect`, `PipelineTypeCorrect`,
`CompletionTypeCorrect`); no run repeats them.

Only model-checked: the liveness properties themselves (EveryRequestAnswered,
ClosesDown, LatestGetsAnalysed, ThreadsEnd, EveryCallReturns,
EveryQuestionSettled, Settles, and EventuallyCurrent of both modules), since
fairness and ENABLED are out of the prover's reach; that a range is answered
with the tokens it selects as a sequence (`RangeSelectsTouched`), since the
library's SelectSeq is recursive and the provers do not see into it; and the
disagreements above.

## Plan

1. Proofs: the condition on the load under which the main loop never blocks on
   itself; a measure that shows that the circle of `Environment` settles, and
   one for the close-down.
2. The table of terminal sessions of the command service (64 sessions,
   retirement, generations), and the server's other requests to the client.
3. The pull client: workspace diagnostics and their result ids, refresh
   requests (`diagnostic_refresh_pending`, `token_refresh_pending`).
4. `Environment` composed with `DiagnosticPipeline`, in place of the one-thread
   worker it has.
5. Fix application and the data-flow fixpoints of the semantic model.

## Not modelled

The parser, the indexer, the semantic model, the lint rules and the formatter
are sequential functions over unbounded text, tested in the repository by
thousands of fixtures; a bounded model would say less than those.  They are by
far the most of the code, which is why the modules stand for a small share of
its lines.  Argument parsing, configuration files, rendering of results, file
discovery and the editor extension are input and output.  Request handlers of
the language server are functions of their snapshot.  Logging and telemetry are
left out.

Of the modelled components these parts are left out:

* Request loop and session: the server's requests to the client other than live
  completion, which have no deadline and for which nothing waits; the pull
  client; the document analysis cache but for its epoch.
* Workspace index: the order in which many files are visited, the limits on
  their number and size, the bound on the retained projections, and the
  validation of closed files after a workspace change.
* Environment: more than one login shell and the limit of eight, the process
  that runs the shell and its output, a thread that cannot be started, and the
  end of the watcher.
* Command service: the table of terminal sessions and the host probes.
* Command line: the rule UnusedAssignment, whose hits are also compared by the
  variables other files consume; files that are followed and reported too; more
  than one script; a fix, which uses no cache; and that a write of the script
  is not atomic.

The models assume that the client uses a request id once, as the protocol
demands, and that the operating system starts the threads it is asked for.
