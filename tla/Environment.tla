----------------------------- MODULE Environment -----------------------------
(***************************************************************************)
(* How the server keeps its picture of the host up to date: the login-shell *)
(* capture (handlers/login_shell.rs), the watcher thread of                 *)
(* server/environment_watcher.rs, and what the main loop does on an         *)
(* EnvironmentTick (session.rs).                                           *)
(*                                                                         *)
(* Three files stand for the host.  "path" is a directory the server always *)
(* watches, "profile" a startup file of the login shell, watched once the   *)
(* shell is known, "tools" a directory of the captured PATH, watched while  *)
(* a capture is there.  A file is the number of times it was written.  One  *)
(* shell is asked for.  The diagnostics worker is one thread that analyses  *)
(* again whenever it was scheduled; DiagnosticQueue has the real one.       *)
(***************************************************************************)
EXTENDS Naturals, Sequences, SequencesExt

CONSTANTS
  None,        \* model value: what is not there
  Channel,     \* room in the main-loop channel
  MaxIncidents \* bound: how often files are written, captures fail and
               \* everything is refreshed unprompted

ASSUME BoundsAssumption == Channel \in Nat \ {0} /\ MaxIncidents \in Nat

Files == {"path", "profile", "tools"}

(* A login-shell entry; value is the PATH of the capture, for which the      *)
(* version of the profile stands that was read.                             *)
Entry == [status : {"pending", "ready", "failed"},
          fingerprint : Nat, value : Nat \cup {None}]

ASSUME NoneAssumption ==
  /\ None \notin Nat
  /\ None \notin Entry
  /\ \A watched \in SUBSET Files : None \notin [watched -> Nat]

VARIABLES
  disk,      \* version of each file
  incidents, \* how often something happened to the server so far
  entry,     \* LoginShellService.entries, of the one shell
  captures,  \* capture threads: what each has read of the profile
  notices,   \* capture threads about to send their EnvironmentTick
  ticks,     \* EnvironmentTicks in the main-loop channel
  work,      \* diagnostics are scheduled
  analysis,  \* the analysis under way
  analysed,  \* what the analysis published last was made from
  targets,   \* EnvironmentWatcher.targets
  token,     \* EnvironmentWatcher.updates, which holds one message
  watcher    \* the watcher thread

hostVars == <<disk, incidents>>
shellVars == <<entry, captures, notices>>
analysisVars == <<work, analysis, analysed>>
watchVars == <<targets, token, watcher>>
vars == <<hostVars, shellVars, ticks, analysisVars, watchVars>>

Pending(fingerprint) ==
  [status |-> "pending", fingerprint |-> fingerprint, value |-> None]

(* watch_directories, for the state the login-shell entry is in.             *)
WatchDirectories(e) ==
  {"path"} \cup (IF e = None THEN {} ELSE {"profile"})
           \cup (IF e # None /\ e.status = "ready" THEN {"tools"} ELSE {})

(* What the watcher keeps of the files it polls (fingerprints).              *)
Fingerprints(desired) == [f \in desired |-> disk[f]]

Init ==
  /\ disk = [f \in Files |-> 0] /\ incidents = 0
  /\ entry = None /\ captures = <<>> /\ notices = 0
  /\ ticks = 0
  /\ work = TRUE /\ analysis = [at |-> "idle"] /\ analysed = None
  \* main_loop calls update_environment_watches before anything else
  /\ targets = WatchDirectories(None) /\ token = TRUE
  /\ watcher = [at |-> "waiting", observed |-> None,
                revalidate |-> FALSE, pending |-> FALSE]

-----------------------------------------------------------------------------
Incident == incidents < MaxIncidents /\ incidents' = incidents + 1

(* The host: a file is written.  A native event may come of it if the        *)
(* watcher has registered the file; callbacks lose events (try_send), and    *)
(* some file systems have none.                                             *)
Write(f) ==
  /\ Incident
  /\ disk' = [disk EXCEPT ![f] = @ + 1]
  /\ \/ UNCHANGED watcher
     \/ /\ watcher.observed # None /\ f \in DOMAIN watcher.observed
        /\ watcher' = [watcher EXCEPT !.pending = TRUE]
  /\ UNCHANGED <<shellVars, ticks, analysisVars, targets, token>>

-----------------------------------------------------------------------------
(* The watcher thread.                                                     *)

(* recv_timeout.  A registration is due every two seconds, and at once when   *)
(* there is a message.  A native event is pending from when the callback has  *)
(* sent it, the turn that takes it from its channel included.                *)
Receive(due) ==
  /\ watcher.at = "waiting"
  /\ due \/ (watcher.pending /\ ~token)
  /\ token' = FALSE
  /\ watcher' = [watcher EXCEPT
       !.revalidate = token,
       !.at = IF due THEN "registering" ELSE "settling"]
  /\ UNCHANGED <<hostVars, shellVars, ticks, analysisVars, targets>>

(* Mutant: native watches are all there is.                                  *)
MetadataChangedNever(fingerprint) == FALSE

MetadataChanged(fingerprint) ==
  watcher.observed # None /\ watcher.observed # fingerprint

AfterRegistration == IF watcher.pending THEN "settling" ELSE "waiting"

Register ==
  /\ watcher.at = "registering"
  /\ LET fingerprint == Fingerprints(targets)
     IN  watcher' = [watcher EXCEPT
           !.observed = fingerprint,
           !.revalidate = FALSE,
           !.at = IF watcher.revalidate \/ MetadataChanged(fingerprint)
                    THEN "reporting" ELSE AfterRegistration]
  /\ UNCHANGED <<hostVars, shellVars, ticks, analysisVars, targets, token>>

(* environment_changed blocks while the channel is full.                     *)
SendTick == ticks < Channel /\ ticks' = ticks + 1

Report ==
  /\ watcher.at = "reporting"
  /\ SendTick
  /\ watcher' = [watcher EXCEPT !.at = AfterRegistration]
  /\ UNCHANGED <<hostVars, shellVars, analysisVars, targets, token>>

(* Native events are reported 250 ms after the first of them.                *)
Settle ==
  /\ watcher.at = "settling"
  /\ \/ /\ watcher' = [watcher EXCEPT !.at = "waiting"]
        /\ UNCHANGED ticks
     \/ /\ watcher.pending
        /\ SendTick
        /\ watcher' = [watcher EXCEPT !.at = "waiting", !.pending = FALSE]
  /\ UNCHANGED <<hostVars, shellVars, analysisVars, targets, token>>

(* EnvironmentWatcher::update, on the main thread.                           *)
Update(paths) ==
  /\ targets' = paths
  /\ token' = (token \/ paths # targets)
  /\ UNCHANGED watcher

-----------------------------------------------------------------------------
(* Login-shell captures.                                                   *)
RunCapture(i) ==
  /\ captures[i] = None
  /\ captures' = [captures EXCEPT ![i] = disk["profile"]]
  /\ UNCHANGED <<hostVars, entry, notices, ticks, analysisVars, watchVars>>

(* Mutant: the fingerprint is taken when the capture is there.               *)
ReadyAsNow(value) == [entry EXCEPT !.status = "ready", !.value = value,
                                   !.fingerprint = disk["profile"]]

Ready(value) == [entry EXCEPT !.status = "ready", !.value = value]

(* finish, until it sends its tick.                                          *)
Finish(i) ==
  /\ \/ /\ captures[i] # None
        /\ entry' = Ready(captures[i])
        /\ UNCHANGED incidents
     \/ /\ Incident
        /\ entry' = [entry EXCEPT !.status = "failed"]
  /\ captures' = RemoveAt(captures, i)
  /\ notices' = notices + 1
  /\ UNCHANGED <<disk, ticks, analysisVars, watchVars>>

Notify ==
  /\ notices > 0
  /\ SendTick
  /\ notices' = notices - 1
  /\ UNCHANGED <<hostVars, entry, captures, analysisVars, watchVars>>

-----------------------------------------------------------------------------
(* The main loop.                                                          *)

(* Mutant: a capture under way is no reason to wait.                         *)
SkipsNothing == entry = None

(* Entries that are captured already are passed over.                        *)
Skips == entry = None \/ entry.status = "pending"

(* Mutant: a refresh captures what was captured before.                      *)
RestartsAlways(due) == TRUE

Restarts(due) ==
  \/ disk["profile"] # entry.fingerprint
  \/ entry.status = "failed" /\ due

(* LoginShellService::refresh, with the backoff of a failed capture over or   *)
(* not.                                                                     *)
RefreshShell(due) ==
  IF Skips \/ ~Restarts(due)
    THEN UNCHANGED <<entry, captures>>
    ELSE entry' = Pending(disk["profile"]) /\ captures' = Append(captures, None)

(* An analysis under way is of a generation that has passed.                 *)
Reschedule ==
  /\ work' = TRUE
  /\ analysis' = IF analysis.at = "idle" THEN analysis ELSE [analysis EXCEPT !.stale = TRUE]
  /\ UNCHANGED analysed

(* refresh_environment.                                                     *)
Refresh(due) ==
  /\ RefreshShell(due)
  /\ Update(WatchDirectories(entry'))
  /\ Reschedule
  /\ UNCHANGED <<disk, notices>>

EnvironmentTick ==
  /\ ticks > 0
  /\ ticks' = ticks - 1
  /\ \E due \in BOOLEAN : Refresh(due)
  /\ UNCHANGED incidents

(* Thirty seconds have passed since the last refresh.                        *)
RefreshTick ==
  /\ Incident
  /\ Refresh(FALSE)
  /\ UNCHANGED ticks

(* The same when it retries a capture that failed.                           *)
RetryTick ==
  /\ entry # None /\ entry.status = "failed"
  /\ Refresh(TRUE)
  /\ UNCHANGED <<ticks, incidents>>

(* select_environment: retry_failed, and everything is analysed again.       *)
SelectEnvironment ==
  /\ Incident
  /\ IF entry # None /\ entry.status = "failed"
       THEN entry' = Pending(disk["profile"]) /\ captures' = Append(captures, None)
       ELSE UNCHANGED <<entry, captures>>
  /\ Reschedule
  /\ UNCHANGED <<disk, notices, ticks, watchVars>>

(* DiagnosticsReady: a complete result of the present generation.            *)
DiagnosticsReady ==
  /\ analysis.at = "done"
  /\ IF analysis.stale
       THEN UNCHANGED <<analysed, watchVars>>
       ELSE analysed' = analysis.seen /\ Update(WatchDirectories(entry))
  /\ analysis' = [at |-> "idle"]
  /\ UNCHANGED <<hostVars, shellVars, ticks, work>>

-----------------------------------------------------------------------------
(* The diagnostics worker's environment phase.                              *)

(* environment_context, whose first lookup of the shell starts its capture,   *)
(* then the lookup of the commands; those of the login shell only if its     *)
(* capture was there.                                                       *)
Analyse ==
  /\ analysis.at = "idle" /\ work
  /\ work' = FALSE
  /\ IF entry = None
       THEN entry' = Pending(disk["profile"]) /\ captures' = Append(captures, None)
       ELSE UNCHANGED <<entry, captures>>
  /\ analysis' = [at |-> "done", stale |-> FALSE,
                  seen |-> [path |-> disk["path"], profile |-> entry'.value,
                            tools |-> IF entry'.value = None THEN None ELSE disk["tools"]]]
  /\ UNCHANGED <<hostVars, notices, ticks, analysed, watchVars>>

-----------------------------------------------------------------------------
WatcherThread == (\E due \in BOOLEAN : Receive(due)) \/ Register \/ Report \/ Settle
CaptureThread == (\E i \in 1..Len(captures) : RunCapture(i) \/ Finish(i)) \/ Notify
MainLoop == EnvironmentTick \/ DiagnosticsReady

Next ==
  \/ \E f \in Files : Write(f)
  \/ WatcherThread \/ CaptureThread \/ Analyse
  \/ MainLoop \/ RefreshTick \/ RetryTick \/ SelectEnvironment

Spec == Init /\ [][Next]_vars

(* The threads run and time passes.  The main loop takes the ticks sent to   *)
(* it; of its own refresh every 30 s only that is assumed which retries a    *)
(* failed capture, so that what the watcher misses stays missed.  A thread   *)
(* that waits for room in the channel gets it in the end.                    *)
FairSpec ==
  /\ Spec
  /\ SF_vars(Receive(TRUE)) /\ WF_vars(Register) /\ SF_vars(Report)
  /\ SF_vars(Settle)
  /\ SF_vars(Notify)
  /\ WF_vars(\E i \in 1..Len(captures) : RunCapture(i) \/ Finish(i))
  /\ WF_vars(Analyse)
  /\ WF_vars(EnvironmentTick) /\ WF_vars(DiagnosticsReady)
  /\ WF_vars(RetryTick)

-----------------------------------------------------------------------------
(* Types, and that a shell is being captured exactly while its entry says    *)
(* so, and never twice at once: startup files are not run in parallel by     *)
(* lookups, refreshes and retries on three threads.                          *)
TypeOK ==
  /\ disk \in [Files -> 0..MaxIncidents]
  /\ ticks \in 0..Channel
  /\ notices \in Nat
  /\ targets \subseteq Files
  /\ Len(captures) = (IF entry # None /\ entry.status = "pending" THEN 1 ELSE 0)

(* A capture that counts as current is of the startup file as it is: a file  *)
(* written while the shell ran is noticed by the next refresh (the           *)
(* fingerprint of an entry is taken before its capture starts).              *)
CaptureIsCurrent ==
  entry # None /\ entry.status = "ready" /\ entry.fingerprint = disk["profile"]
    => entry.value = disk["profile"]

(* Whatever is written whenever, and whichever native events are lost, the   *)
(* diagnostics shown in the end come from the host as it is, without the     *)
(* refresh every 30 s (revalidation after a registration, polling, and the   *)
(* tick every capture ends with).                                           *)
EventuallyCurrent ==
  <>[](analysed = [path |-> disk["path"], profile |-> disk["profile"], tools |-> disk["tools"]])

(* The circle of captures, ticks, watched paths and registrations *)
(* comes to rest once nothing is written, though a refresh changes the paths *)
(* and a registration brings a refresh.                                     *)
Settles == <>[](ticks = 0 /\ notices = 0 /\ captures = <<>> /\ ~token)
=============================================================================
