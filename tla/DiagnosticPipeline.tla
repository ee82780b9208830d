------------------------- MODULE DiagnosticPipeline --------------------------
(***************************************************************************)
(* From an edit to the diagnostics the editor shows: the session state of   *)
(* crates/shucked-lsp (session.rs, session/index.rs), the notification      *)
(* handlers that change it, the diagnostic worker they schedule, and the    *)
(* DiagnosticsReady branch of server/main_loop.rs that decides whether a    *)
(* result may still be published.  The client is one that takes pushed      *)
(* diagnostics.                                                            *)
(*                                                                         *)
(* A snapshot captures the text of its document and three counters the      *)
(* session bumps: analysis_settings_epoch, workspace_epoch and              *)
(* environment_generation.  The analysis then runs on another thread and,   *)
(* beside the snapshot, reads the LIVE workspace index and command service. *)
(***************************************************************************)
EXTENDS DiagnosticWorker

CONSTANTS
  Texts,      \* what a document can contain
  MaxEvents   \* bound: notifications and environment events

ASSUME PipelineAssumption == MaxEvents \in Nat

VARIABLES
  open,        \* documents in Index.documents
  clientOpen,  \* documents the client holds open
  text,        \* their text (version and fingerprint)
  settings,    \* DocumentAnalysisCache.settings_epoch
  workspace,   \* WorkspaceFunctionIndexCache epoch
  environment, \* CommandService.generation
  completed,   \* completed_diagnostics of the main loop
  shown,       \* what the editor shows for each document
  events,      \* notifications and environment events so far (bound)
  ticked       \* how many there had been at the last periodic refresh

documentVars == <<open, clientOpen, text>>
epochVars == <<settings, workspace, environment>>
editorVars == <<completed, shown>>
boundVars == <<events, ticked>>
vars == <<workerVars, documentVars, epochVars, editorVars, boundVars>>

Blank == [blank |-> TRUE]  \* nothing shown, no key recorded

(* The parts of a fresh snapshot that DiagnosticsReady carries along.       *)
Key(u) == [text |-> text[u], settings |-> settings, workspace |-> workspace,
           environment |-> environment]

Init ==
  /\ WorkerInit
  /\ open = {}
  /\ clientOpen = {}
  /\ text \in [Uris -> Texts]
  /\ settings = 0
  /\ workspace = 0
  /\ environment = 0
  /\ completed = [u \in Uris |-> Blank]
  /\ shown = [u \in Uris |-> Blank]
  /\ events = 0
  /\ ticked = 0

-----------------------------------------------------------------------------
(* schedule_all_diagnostics, at the end of a handler, takes its snapshots   *)
(* of what the handler has made of the session.                            *)
ScheduleAll(closed) == UpdateQueue(open', closed, [u \in Uris |-> Key(u)'])

NewEvent ==
  /\ events < MaxEvents
  /\ events' = events + 1
  /\ UNCHANGED ticked

InvalidateWorkspace == workspace' = workspace + 1
InvalidateEnvironment == environment' = environment + 1
ClearAnalyses == settings' = settings + 1

DidOpen(u, x) ==
  /\ NewEvent
  /\ u \notin clientOpen
  /\ clientOpen' = clientOpen \cup {u}
  /\ open' = open \cup {u}
  /\ text' = [text EXCEPT ![u] = x]
  /\ InvalidateWorkspace
  /\ UNCHANGED <<settings, environment, editorVars>>
  /\ ScheduleAll({})

DidChange(u, x) ==
  /\ NewEvent
  /\ u \in clientOpen \cap open
  /\ text' = [text EXCEPT ![u] = x]
  /\ InvalidateWorkspace
  /\ UNCHANGED <<open, clientOpen, settings, environment, editorVars>>
  /\ ScheduleAll({})

(* A change to a document the session has lost is an error: no more happens. *)
(* The bound counts only what the session accepts.                          *)
RejectChange(u) ==
  /\ ~notify
  /\ u \in clientOpen \ open
  /\ UNCHANGED vars

(* Mutant: the document stays in the index.                                 *)
DidCloseKeepsDocument(u) ==
  /\ NewEvent
  /\ u \in clientOpen \cap open
  /\ clientOpen' = clientOpen \ {u}
  /\ completed' = [completed EXCEPT ![u] = Blank]
  /\ shown' = [shown EXCEPT ![u] = Blank]
  /\ InvalidateWorkspace
  /\ UNCHANGED <<open, text, settings, environment>>
  /\ ScheduleAll({u})

(* The main loop forgets the completed key, the handler publishes an empty   *)
(* list, cancels the work and removes the document.                         *)
DidClose(u) ==
  /\ NewEvent
  /\ u \in clientOpen \cap open
  /\ clientOpen' = clientOpen \ {u}
  /\ open' = open \ {u}
  /\ completed' = [completed EXCEPT ![u] = Blank]
  /\ shown' = [shown EXCEPT ![u] = Blank]
  /\ InvalidateWorkspace
  /\ UNCHANGED <<text, settings, environment>>
  /\ ScheduleAll({u})

(* Closing a document the session has lost publishes nothing, cancels, and   *)
(* fails before it would reschedule the others.                             *)
RejectClose(u) ==
  /\ u \in clientOpen \ open
  /\ clientOpen' = clientOpen \ {u}
  /\ completed' = [completed EXCEPT ![u] = Blank]
  /\ UNCHANGED <<open, text, epochVars, shown, boundVars>>
  /\ UpdateQueue({}, {u}, [v \in Uris |-> Blank])

(* refresh_environment.                                                     *)
Refresh ==
  /\ InvalidateWorkspace
  /\ InvalidateEnvironment
  /\ UNCHANGED <<documentVars, settings, editorVars>>
  /\ ScheduleAll({})

(* EnvironmentTick: the watcher saw a change, a login-shell capture ended.   *)
EnvironmentTick == NewEvent /\ Refresh

(* Mutant: the tick drops what is cached and leaves it at that.              *)
RefreshTickOnlyInvalidates ==
  /\ ~notify
  /\ ticked # events
  /\ ticked' = events
  /\ InvalidateWorkspace
  /\ InvalidateEnvironment
  /\ UNCHANGED <<workerVars, documentVars, settings, editorVars, events>>

(* RefreshTick, every 30 seconds for ever.  A tick with no event since the   *)
(* last one only repeats it, and is left out to keep the state space finite. *)
RefreshTick ==
  /\ ticked # events
  /\ ticked' = events
  /\ UNCHANGED events
  /\ Refresh

(* Everything a snapshot depends on may be different.                       *)
InvalidateAll ==
  /\ ClearAnalyses
  /\ InvalidateWorkspace
  /\ InvalidateEnvironment
  /\ UNCHANGED <<documentVars, editorVars>>
  /\ ScheduleAll({})

SelectEnvironment == NewEvent /\ InvalidateAll
DidChangeConfiguration == NewEvent /\ InvalidateAll
DidChangeWatchedFiles == NewEvent /\ InvalidateAll

(* shucked/shellSession: an accepted state is a new generation, a stale or   *)
(* refused one is not; the documents are scheduled either way.              *)
ShellSession ==
  /\ NewEvent
  /\ InvalidateEnvironment \/ UNCHANGED environment
  /\ UNCHANGED <<documentVars, settings, workspace, editorVars>>
  /\ ScheduleAll({})

(* A workspace folder is added (D empty) or removed, and with a removed one  *)
(* the documents D inside it.  Nothing is scheduled or cancelled.           *)
DidChangeWorkspace(D) ==
  /\ NewEvent
  /\ ~notify
  /\ D \subseteq open
  /\ open' = open \ D
  /\ ClearAnalyses
  /\ InvalidateWorkspace
  /\ UNCHANGED <<workerVars, clientOpen, text, environment, editorVars>>

-----------------------------------------------------------------------------
(* DiagnosticsReady.                                                       *)

(* Mutants: the counters of what was read live are not compared; a document   *)
(* that is gone has nothing to compare with.                                *)
CurrentText(r) ==
  r.uri \in open /\ r.key.text = text[r.uri] /\ r.key.settings = settings
CurrentOrGone(r) == r.uri \notin open \/ r.key = Key(r.uri)

Current(r) == r.uri \in open /\ r.key = Key(r.uri)
(* Mutant: the two kinds of result are not told apart.                      *)
NeverSuperseded(r) == FALSE

Superseded(r) == ~r.complete /\ completed[r.uri] = r.key

TakeResult ==
  /\ ~notify
  /\ channel # <<>>
  /\ channel' = Tail(channel)
  /\ UNCHANGED <<queueVars, thread, held, notify, stopped, documentVars,
                 epochVars, boundVars>>

DropResult ==
  /\ TakeResult
  /\ ~Current(Head(channel)) \/ Superseded(Head(channel))
  /\ UNCHANGED editorVars

Publish ==
  /\ TakeResult
  /\ LET r == Head(channel)
     IN  /\ Current(r)
         /\ ~Superseded(r)
         /\ completed' = IF r.complete THEN [completed EXCEPT ![r.uri] = r.key] ELSE completed
         /\ shown' = [shown EXCEPT ![r.uri] =
                        [reading |-> r.reading, complete |-> r.complete]]

-----------------------------------------------------------------------------
(* What an analysis reads: text and settings of its snapshot, the workspace  *)
(* index and the command service as they are when it gets to them.          *)
Reading(p) ==
  [text |-> held[p].snapshot.text, settings |-> held[p].snapshot.settings,
   workspace |-> workspace, environment |-> environment]

Work(p) ==
  /\ ThreadStep(p) \/ Finish(p, Reading(p))
  /\ UNCHANGED <<documentVars, epochVars, editorVars, boundVars>>

Pass(A) == A /\ UNCHANGED <<documentVars, epochVars, editorVars, boundVars>>

MainStep ==
  \/ \E u \in Uris, x \in Texts : DidOpen(u, x) \/ DidChange(u, x)
  \/ \E u \in Uris : RejectChange(u) \/ DidClose(u) \/ RejectClose(u)
  \/ EnvironmentTick
  \/ RefreshTick
  \/ SelectEnvironment
  \/ DidChangeConfiguration
  \/ DidChangeWatchedFiles
  \/ ShellSession
  \/ \E D \in SUBSET Uris : DidChangeWorkspace(D)
  \/ DropResult
  \/ Publish

Next ==
  \/ MainStep
  \/ Pass(NotifyAll)
  \/ \E p \in Phases : Work(p)
  \/ \E u \in Uris : Pass(Ripen(u))

Spec == Init /\ [][Next]_vars

(* As for DiagnosticQueue; the main loop also gets to each result, and the   *)
(* clock ticks.                                                            *)
Fairness ==
  /\ WF_vars(Pass(NotifyAll))
  /\ WF_vars(DropResult \/ Publish)
  /\ WF_vars(RefreshTick)
  /\ \A p \in Phases :
       /\ WF_vars(Pass(QueueStep(p)))
       /\ WF_vars(Pass(Abandon(p) \/ Finish(p, Reading(p))))
       /\ WF_vars(Pass(Send(p)))
  /\ \A u \in Uris : WF_vars(Pass(Ripen(u)))

FairSpec == Spec /\ Fairness

-----------------------------------------------------------------------------
(* Types: every variable holds what its declaration says. *)
Keys == [text : Texts, settings : Nat, workspace : Nat, environment : Nat]
Shown == [reading : Keys, complete : BOOLEAN]

TypeOK ==
  /\ WorkerTypeOK(Keys, Keys)
  /\ open \subseteq Uris
  /\ clientOpen \subseteq Uris
  /\ open \subseteq clientOpen
  /\ text \in [Uris -> Texts]
  /\ settings \in Nat
  /\ workspace \in Nat
  /\ environment \in Nat
  /\ completed \in [Uris -> Keys \cup {Blank}]
  /\ shown \in [Uris -> Shown \cup {Blank}]
  /\ events \in 0 .. MaxEvents
  /\ ticked \in 0 .. events

(* What is published was computed from what holds at that moment, the live   *)
(* state the analysis read half-way included: a bump between the snapshot    *)
(* and the reading, or after it, makes the main loop drop the result.       *)
(* plans/shell-intelligence.md:164: "Older document/target/provider results  *)
(* cannot overwrite newer ones."                                            *)
NothingStalePublished ==
  [][\A u \in Uris :
       shown'[u] # shown[u] /\ shown'[u] # Blank => shown'[u].reading = Key(u)']_vars

(* Static feedback never replaces environment-complete diagnostics that are  *)
(* still current, whichever thread is faster and however often the same     *)
(* snapshot is scheduled.                                                  *)
CompleteAndCurrent(u) ==
  u \in open /\ shown[u] # Blank /\ shown[u].complete /\ shown[u].reading = Key(u)
NoDowngrade ==
  [][\A u \in Uris :
       CompleteAndCurrent(u) /\ u \in open' /\ Key(u)' = Key(u) => CompleteAndCurrent(u)']_vars

(* A result that comes in after its document was closed is not shown.        *)
NoLateResurrection ==
  [][\A u \in Uris :
       u \notin clientOpen' /\ shown[u] = Blank => shown'[u] = Blank]_vars

(* plans/shell-intelligence.md:285: "Rapid edits/target switch/close during  *)
(* slow work | No stale diagnostics".  A document the client has closed      *)
(* shows nothing.                                                           *)
ClosedShowsNothing == \A u \in Uris \ clientOpen : shown[u] = Blank

(* Once the events stop, every open document ends up with the complete       *)
(* diagnostics of its current state, also after DidChangeWorkspace, which   *)
(* schedules nothing: the periodic refresh makes good for it.  A panic in    *)
(* the static phase does not stop the other; one in the environment phase    *)
(* ends it for good.                                                        *)
EventuallyCurrent ==
  \A u \in Uris :
    <>[](u \in open => CompleteAndCurrent(u) \/ thread["environment"] = "ended")
=============================================================================
