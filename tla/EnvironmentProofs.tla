-------------------------- MODULE EnvironmentProofs --------------------------
(***************************************************************************)
(* What holds of the login-shell capture and the environment watcher for    *)
(* every bound: TypeOK and CaptureIsCurrent of Environment, and the part of *)
(* its liveness property EventuallyCurrent that is an invariant, that the   *)
(* circle of captures, ticks and registrations never rests on old results.  *)
(***************************************************************************)
EXTENDS Environment, TLAPS

-----------------------------------------------------------------------------
(* The inductive invariant.                                                *)

Readable == Nat \cup {None}
Seen == [path : Nat, profile : Readable, tools : Readable]

(* What the watcher keeps of the files it polls.                             *)
Polled == UNION {[watched -> Nat] : watched \in SUBSET Files}

HostInv ==
  /\ disk \in [Files -> Nat]
  /\ incidents \in Nat
  /\ incidents <= MaxIncidents
  /\ \A f \in Files : disk[f] <= incidents
  /\ ticks \in 0 .. Channel

IsPending == entry # None /\ entry.status = "pending"
IsReady == entry # None /\ entry.status = "ready"

ShellInv ==
  /\ entry \in Entry \cup {None}
  /\ captures \in Seq(Readable)
  /\ Len(captures) = (IF IsPending THEN 1 ELSE 0)
  /\ notices \in Nat

WatchInv ==
  /\ targets \in SUBSET Files
  /\ token \in BOOLEAN
  /\ watcher \in [at : {"waiting", "registering", "settling", "reporting"},
                  observed : Polled \cup {None},
                  revalidate : BOOLEAN, pending : BOOLEAN]
  /\ watcher.revalidate => watcher.at = "registering"

AnalysisInv ==
  /\ work \in BOOLEAN
  /\ analysis \in [at : {"idle"}] \cup [at : {"done"}, stale : BOOLEAN, seen : Seen]
  /\ analysed \in Seen \cup {None}
  /\ entry = None => work
  /\ analysis.at = "done" /\ analysis.stale => work

(* A fingerprint is older than the capture it is kept with, and both are of   *)
(* files that were there.                                                   *)
CaptureInv ==
  /\ entry # None => entry.fingerprint <= disk["profile"]
  /\ IsReady => /\ entry.value \in Nat
                /\ entry.fingerprint <= entry.value
                /\ entry.value <= disk["profile"]
  /\ \A i \in 1 .. Len(captures) :
       captures[i] # None => /\ entry.fingerprint <= captures[i]
                             /\ captures[i] <= disk["profile"]

(* A refresh is on its way, or something that brings one.                    *)
Moving ==
  \/ token \/ watcher.revalidate \/ watcher.at = "reporting"
  \/ ticks > 0 \/ notices > 0 \/ captures # <<>>

(* The watcher has old or present versions of the files it polls, and has    *)
(* them all unless it is to register others.                                *)
ObservedInv ==
  /\ watcher.observed # None =>
       \A f \in DOMAIN watcher.observed : watcher.observed[f] <= disk[f]
  /\ ~token /\ ~watcher.revalidate =>
       watcher.observed # None /\ DOMAIN watcher.observed = targets

(* Version v of f is the one the watcher has, or the watcher is to find that *)
(* it has an old one.                                                       *)
Told(f, v) == v = watcher.observed[f] \/ watcher.observed[f] # disk[f]

RestInv ==
  ~Moving =>
    /\ targets = WatchDirectories(entry)
    /\ IsReady => Told("profile", entry.fingerprint)

(* What the diagnostics will have been made from, when nothing more happens. *)
LastSeen == IF analysis.at = "done" THEN analysis.seen ELSE analysed

SeenInv ==
  ~Moving /\ ~work =>
    /\ LastSeen \in Seen
    /\ Told("path", LastSeen.path)
    /\ LastSeen.profile = entry.value
    /\ IsReady => Told("tools", LastSeen.tools)

TypeInv == HostInv /\ ShellInv /\ WatchInv /\ AnalysisInv

IInv ==
  /\ TypeInv
  /\ CaptureInv /\ ObservedInv /\ RestInv /\ SeenInv

(* Diagnostics are never stale for good: when nothing is on its way, no       *)
(* analysis is due and the watcher has the files as they are, the published *)
(* diagnostics were made from the host as it is, unless the shell could not *)
(* be captured (refresh_environment, the watcher's revalidation and the tick *)
(* each capture ends with).                                                 *)
QuietIsCurrent ==
  /\ ~Moving /\ ~work /\ analysis.at = "idle"
  /\ watcher.observed = Fingerprints(targets)
  /\ entry.status # "failed"
  => analysed = [path |-> disk["path"], profile |-> disk["profile"], tools |-> disk["tools"]]

-----------------------------------------------------------------------------
(* The sequence of captures has at most one member.                         *)

(* A capture that starts is the only one.                                    *)
LEMMA OneStarts ==
  ASSUME NEW S, NEW s \in Seq(S), Len(s) = 0, NEW e \in S
  PROVE  /\ Append(s, e) \in Seq(S)
         /\ Len(Append(s, e)) = 1
         /\ Append(s, e)[1] = e
  OBVIOUS

(* When it finishes none is left (RemoveAt in Finish).                       *)
LEMMA OneFinishes ==
  ASSUME NEW S, NEW s \in Seq(S), Len(s) = 1
  PROVE  RemoveAt(s, 1) = <<>>
<1>1. SubSeq(s, 1, 0) = <<>> /\ SubSeq(s, 2, 1) = <<>>
  BY SMT
<1>2. RemoveAt(s, 1) = <<>> \o <<>>
  BY <1>1 DEF RemoveAt
<1> QED
  BY <1>2

(* No captures are a sequence of length 0.                                   *)
LEMMA NoCaptures ==
  ASSUME NEW S, NEW s \in Seq(S)
  PROVE  s = <<>> <=> Len(s) = 0
  OBVIOUS

-----------------------------------------------------------------------------
(* Entry and captures.                                                      *)

Starts == entry' = Pending(disk["profile"]) /\ captures' = Append(captures, None)

Started ==
  /\ ~IsPending
  /\ Starts
  /\ IsPending' /\ ~IsReady'
  /\ entry' # None
  /\ captures' # <<>>
  /\ captures'[1] = None
  /\ Len(captures') = 1

Kept == entry' = entry /\ captures' = captures

LEMMA PendingIsEntry ==
  ASSUME NEW n \in Nat
  PROVE  Pending(n) \in Entry /\ Pending(n) # None /\ Pending(n).status = "pending"
BY NoneAssumption DEF Pending, Entry

(* A capture is started only when none is under way.                         *)
LEMMA StartsOne ==
  ASSUME HostInv, ShellInv, Starts, ~IsPending
  PROVE  Started /\ (notices' \in Nat => ShellInv')
<1>1. disk["profile"] \in Nat
  BY DEF HostInv, Files
<1>2. entry' \in Entry /\ IsPending' /\ ~IsReady' /\ entry' # None
  BY <1>1, PendingIsEntry DEF Starts, IsPending, IsReady
<1>3. /\ captures' \in Seq(Readable)
      /\ Len(captures') = 1
      /\ captures'[1] = None
  <2>1. captures \in Seq(Readable) /\ Len(captures) = 0 /\ None \in Readable
    BY DEF ShellInv, Readable
  <2> QED
    BY <2>1, OneStarts DEF Starts
<1>4. captures' # <<>>
  BY <1>3, NoCaptures
<1> QED
  BY <1>2, <1>3, <1>4 DEF Started, ShellInv

(* LoginShellService::refresh keeps the entry or starts a capture; one it     *)
(* keeps as captured has the fingerprint of the file.                        *)
LEMMA RefreshShellStep ==
  ASSUME HostInv, ShellInv, NEW due \in BOOLEAN, RefreshShell(due)
  PROVE  \/ Started /\ (notices' \in Nat => ShellInv')
         \/ Kept /\ (IsReady => entry.fingerprint = disk["profile"])
<1>1. CASE Skips \/ ~Restarts(due)
  BY <1>1 DEF RefreshShell, Kept, Skips, Restarts, IsReady
<1>2. CASE ~(Skips \/ ~Restarts(due))
  <2>1. ~IsPending /\ Starts
    BY <1>2 DEF RefreshShell, Skips, IsPending, Starts
  <2> QED
    BY <2>1, StartsOne
<1> QED
  BY <1>1, <1>2

(* The first lookup of the shell starts its capture, and a retry another.     *)
LEMMA LookupStep ==
  ASSUME HostInv, ShellInv, NEW P \in BOOLEAN, P => ~IsPending,
         IF P THEN Starts ELSE UNCHANGED <<entry, captures>>
  PROVE  \/ Started /\ (notices' \in Nat => ShellInv')
         \/ Kept /\ ~P
<1>1. CASE P
  BY <1>1, StartsOne
<1>2. CASE ~P
  BY <1>2 DEF Kept
<1> QED
  BY <1>1, <1>2

LEMMA KeptShell ==
  ASSUME ShellInv, Kept, notices' \in Nat
  PROVE  ShellInv' /\ IsPending' = IsPending /\ IsReady' = IsReady
BY DEF ShellInv, Kept, IsPending, IsReady

-----------------------------------------------------------------------------
(* Types are kept, by what the steps have in common.                         *)

LEMMA WatchDirectoriesType ==
  ASSUME NEW e
  PROVE  WatchDirectories(e) \in SUBSET Files
BY DEF WatchDirectories, Files

LEMMA UpdateTypes ==
  ASSUME WatchInv, NEW paths \in SUBSET Files, Update(paths)
  PROVE  WatchInv'
BY DEF WatchInv, Update

LEMMA RescheduleTypes ==
  ASSUME AnalysisInv, Reschedule
  PROVE  AnalysisInv' /\ work'
BY DEF AnalysisInv, Reschedule

LEMMA RefreshTypes ==
  ASSUME TypeInv, NEW due \in BOOLEAN, Refresh(due)
  PROVE  ShellInv' /\ WatchInv' /\ AnalysisInv'
<1>1. ShellInv'
  <2>1. RefreshShell(due) /\ notices' \in Nat
    BY DEF Refresh, TypeInv, ShellInv
  <2> QED
    BY <2>1, RefreshShellStep, KeptShell DEF TypeInv
<1>2. WatchInv'
  BY WatchDirectoriesType, UpdateTypes DEF Refresh, TypeInv
<1>3. AnalysisInv'
  BY RescheduleTypes DEF Refresh, TypeInv
<1> QED
  BY <1>1, <1>2, <1>3

LEMMA FingerprintsType ==
  ASSUME HostInv, NEW paths \in SUBSET Files
  PROVE  /\ Fingerprints(paths) \in [paths -> Nat]
         /\ Fingerprints(paths) \in Polled
         /\ Fingerprints(paths) # None
<1>1. Fingerprints(paths) \in [paths -> Nat]
  BY DEF HostInv, Fingerprints
<1> QED
  BY <1>1, NoneAssumption DEF Polled

LEMMA TickTypes ==
  ASSUME HostInv, SendTick
  PROVE  ticks' \in 0 .. Channel /\ ticks' > 0
BY BoundsAssumption DEF HostInv, SendTick

LEMMA WriteTypes ==
  ASSUME TypeInv, NEW f \in Files, Write(f)
  PROVE  TypeInv'
<1>1. HostInv'
  <2>1. disk' = [disk EXCEPT ![f] = @ + 1] /\ incidents' = incidents + 1
        /\ incidents < MaxIncidents /\ ticks' = ticks
    BY DEF Write, Incident
  <2> QED
    BY <2>1, BoundsAssumption DEF TypeInv, HostInv
<1>2. ShellInv'
  BY DEF TypeInv, ShellInv, Write, shellVars, IsPending
<1>3. WatchInv'
  BY DEF TypeInv, WatchInv, Write
<1>4. AnalysisInv'
  BY DEF TypeInv, AnalysisInv, Write, shellVars, analysisVars
<1> QED
  BY <1>1, <1>2, <1>3, <1>4 DEF TypeInv

LEMMA WatcherTypes ==
  ASSUME TypeInv, WatcherThread
  PROVE  TypeInv'
<1>1. HostInv'
  <2>1. disk' = disk /\ incidents' = incidents
    BY DEF WatcherThread, Receive, Register, Report, Settle, hostVars
  <2>2. ticks' \in 0 .. Channel
    BY TickTypes DEF WatcherThread, Receive, Register, Report, Settle, TypeInv, HostInv
  <2> QED
    BY <2>1, <2>2 DEF TypeInv, HostInv
<1>2. ShellInv' /\ AnalysisInv'
  <2>1. UNCHANGED <<shellVars, analysisVars>>
    BY DEF WatcherThread, Receive, Register, Report, Settle
  <2> QED
    BY <2>1 DEF TypeInv, ShellInv, AnalysisInv, shellVars, analysisVars, IsPending
<1>3. WatchInv'
  <2>1. ASSUME NEW due \in BOOLEAN, Receive(due) PROVE WatchInv'
    BY <2>1 DEF Receive, TypeInv, WatchInv
  <2>2. CASE Register
    <3>1. Fingerprints(targets) \in Polled
      BY FingerprintsType DEF TypeInv, WatchInv
    <3>2. watcher.pending \in BOOLEAN
      BY DEF TypeInv, WatchInv
    <3> QED
      BY <2>2, <3>1, <3>2 DEF Register, TypeInv, WatchInv, AfterRegistration
  <2>3. CASE Report
    BY <2>3 DEF Report, TypeInv, WatchInv, AfterRegistration
  <2>4. CASE Settle
    BY <2>4 DEF Settle, TypeInv, WatchInv
  <2> QED
    BY <2>1, <2>2, <2>3, <2>4 DEF WatcherThread
<1> QED
  BY <1>1, <1>2, <1>3 DEF TypeInv

(* A capture that runs is the only one, of an entry that says so.            *)
LEMMA OneRuns ==
  ASSUME ShellInv, NEW i \in 1 .. Len(captures)
  PROVE  /\ i = 1 /\ Len(captures) = 1 /\ IsPending
         /\ entry \in Entry /\ captures[i] \in Readable
         /\ captures # <<>>
<1>1. Len(captures) = 1 /\ IsPending /\ i = 1
  BY DEF ShellInv
<1>2. captures \in Seq(Readable)
  BY DEF ShellInv
<1>3. captures[1] \in Readable
  BY <1>1, <1>2
<1>4. captures # <<>>
  BY <1>1, <1>2, NoCaptures
<1> QED
  BY <1>1, <1>3, <1>4 DEF ShellInv, IsPending

LEMMA RunCaptureStep ==
  ASSUME HostInv, ShellInv, NEW i \in 1 .. Len(captures), RunCapture(i)
  PROVE  /\ ShellInv'
         /\ captures' # <<>> /\ Len(captures') = 1
         /\ captures'[1] = disk["profile"]
<1>1. captures \in Seq(Readable) /\ i = 1 /\ Len(captures) = 1 /\ IsPending
  BY OneRuns DEF ShellInv
<1>2. disk["profile"] \in Readable
  BY DEF HostInv, Files, Readable
<1>3. captures' = [captures EXCEPT ![1] = disk["profile"]]
  BY <1>1 DEF RunCapture
<1>4. /\ captures' \in Seq(Readable)
      /\ Len(captures') = 1
      /\ captures'[1] = disk["profile"]
  BY <1>1, <1>2, <1>3
<1>5. captures' # <<>>
  BY <1>4, NoCaptures
<1>6. entry' = entry /\ notices' = notices
  BY DEF RunCapture
<1> QED
  BY <1>1, <1>4, <1>5, <1>6 DEF ShellInv, IsPending

LEMMA FinishStep ==
  ASSUME HostInv, ShellInv, NEW i \in 1 .. Len(captures), Finish(i)
  PROVE  /\ ShellInv' /\ ~IsPending' /\ entry' # None /\ notices' > 0
         /\ entry'.fingerprint = entry.fingerprint
         /\ IsReady' => captures[1] # None /\ captures[1] \in Nat /\ entry'.value = captures[1]
<1>1. /\ captures \in Seq(Readable) /\ i = 1 /\ Len(captures) = 1
      /\ entry \in Entry /\ captures[1] \in Readable
  BY OneRuns DEF ShellInv
<1>2. captures' = <<>>
  BY <1>1, OneFinishes DEF Finish
<1>3. captures' \in Seq(Readable) /\ Len(captures') = 0
  BY <1>2
<1>4. notices' \in Nat /\ notices' > 0
  BY DEF Finish, ShellInv
<1>5. /\ entry' \in Entry /\ entry'.fingerprint = entry.fingerprint
      /\ entry'.status # "pending"
      /\ entry'.status = "ready" => captures[1] # None /\ captures[1] \in Nat
                                   /\ entry'.value = captures[1]
  <2>1. CASE captures[i] # None /\ entry' = Ready(captures[i])
    BY <1>1, <2>1 DEF Ready, Entry, Readable
  <2>2. CASE entry' = [entry EXCEPT !.status = "failed"]
    BY <1>1, <2>2 DEF Entry
  <2> QED
    BY <2>1, <2>2 DEF Finish
<1>6. entry' # None
  BY <1>5, NoneAssumption
<1> QED
  BY <1>3, <1>4, <1>5, <1>6 DEF ShellInv, IsPending, IsReady

LEMMA CaptureTypes ==
  ASSUME TypeInv, CaptureThread
  PROVE  TypeInv'
<1>1. HostInv'
  <2>1. disk' = disk
    BY DEF CaptureThread, RunCapture, Finish, Notify, hostVars
  <2>2. incidents' = incidents \/ Incident
    BY DEF CaptureThread, RunCapture, Finish, Notify, hostVars
  <2>3. ticks' \in 0 .. Channel
    BY TickTypes DEF CaptureThread, RunCapture, Finish, Notify, TypeInv, HostInv
  <2> QED
    BY <2>1, <2>2, <2>3, BoundsAssumption DEF TypeInv, HostInv, Incident
<1>2. ShellInv'
  <2>1. ASSUME NEW i \in 1 .. Len(captures), RunCapture(i) \/ Finish(i)
        PROVE  ShellInv'
    BY <2>1, RunCaptureStep, FinishStep DEF TypeInv
  <2>2. CASE Notify
    <3>1. Kept /\ notices' \in Nat
      BY <2>2 DEF Notify, Kept, TypeInv, ShellInv
    <3> QED
      BY <3>1, KeptShell DEF TypeInv
  <2> QED
    BY <2>1, <2>2 DEF CaptureThread
<1>4. WatchInv' /\ AnalysisInv'
  <2>1. UNCHANGED <<analysisVars, watchVars>>
    BY DEF CaptureThread, RunCapture, Finish, Notify
  <2>2. entry' = None => entry = None
    <3>1. ASSUME NEW i \in 1 .. Len(captures), RunCapture(i) \/ Finish(i)
          PROVE  entry' # None
      BY <3>1, FinishStep, OneRuns DEF TypeInv, RunCapture, IsPending
    <3> QED
      BY <3>1 DEF CaptureThread, Notify
  <2> QED
    BY <2>1, <2>2 DEF TypeInv, WatchInv, AnalysisInv, analysisVars, watchVars
<1> QED
  BY <1>1, <1>2, <1>4 DEF TypeInv

LEMMA LoopTypes ==
  ASSUME TypeInv, MainLoop \/ RefreshTick \/ RetryTick \/ SelectEnvironment
  PROVE  TypeInv'
<1>1. HostInv'
  <2>1. disk' = disk
    BY DEF MainLoop, EnvironmentTick, DiagnosticsReady, RefreshTick, RetryTick,
           SelectEnvironment, Refresh, hostVars
  <2>2. incidents' = incidents \/ Incident
    BY DEF MainLoop, EnvironmentTick, DiagnosticsReady, RefreshTick, RetryTick,
           SelectEnvironment, hostVars
  <2>3. ticks' \in 0 .. Channel
    <3>1. CASE EnvironmentTick
      BY <3>1, BoundsAssumption DEF EnvironmentTick, TypeInv, HostInv
    <3>2. CASE ~EnvironmentTick
      BY <3>2 DEF MainLoop, DiagnosticsReady, RefreshTick, RetryTick, SelectEnvironment,
                  TypeInv, HostInv
    <3> QED
      BY <3>1, <3>2
  <2> QED
    BY <2>1, <2>2, <2>3, BoundsAssumption DEF TypeInv, HostInv, Incident
<1>2. ASSUME NEW due \in BOOLEAN, Refresh(due)
      PROVE  ShellInv' /\ WatchInv' /\ AnalysisInv'
  BY <1>2, RefreshTypes
<1>3. CASE SelectEnvironment
  <2>1. ShellInv'
    <3> DEFINE Failed == entry # None /\ entry.status = "failed"
    <3>1. /\ IF Failed THEN Starts ELSE UNCHANGED <<entry, captures>>
          /\ Failed => ~IsPending
          /\ notices' \in Nat
      BY <1>3 DEF SelectEnvironment, Starts, IsPending, TypeInv, ShellInv
    <3> HIDE DEF Failed
    <3>2. Failed \in BOOLEAN
      BY DEF Failed
    <3> QED
      BY <3>1, <3>2, LookupStep, KeptShell DEF TypeInv
  <2>2. AnalysisInv'
    BY <1>3, RescheduleTypes DEF SelectEnvironment, TypeInv
  <2>3. WatchInv'
    BY <1>3 DEF SelectEnvironment, watchVars, TypeInv, WatchInv
  <2> QED
    BY <1>1, <2>1, <2>2, <2>3 DEF TypeInv
<1>4. CASE DiagnosticsReady
  <2>1. UNCHANGED <<shellVars, work>>
    BY <1>4 DEF DiagnosticsReady
  <2>2. ShellInv'
    BY <2>1 DEF TypeInv, ShellInv, shellVars, IsPending
  <2>3. WatchInv'
    BY <1>4, WatchDirectoriesType, UpdateTypes DEF DiagnosticsReady, TypeInv, WatchInv, watchVars
  <2>4. AnalysisInv'
    BY <1>4, <2>1 DEF DiagnosticsReady, TypeInv, AnalysisInv, shellVars
  <2> QED
    BY <1>1, <2>2, <2>3, <2>4 DEF TypeInv
<1> QED
  BY <1>1, <1>2, <1>3, <1>4
  DEF MainLoop, EnvironmentTick, RefreshTick, RetryTick, TypeInv

LEMMA AnalyseStep ==
  ASSUME HostInv, ShellInv, Analyse
  PROVE  /\ ShellInv' /\ entry' \in Entry /\ entry' # None
         /\ Started \/ (Kept /\ entry # None)
<1> DEFINE First == entry = None
<1>1. /\ IF First THEN Starts ELSE UNCHANGED <<entry, captures>>
      /\ First => ~IsPending
      /\ notices' \in Nat
  BY DEF Analyse, Starts, IsPending, ShellInv
<1>2. First \in BOOLEAN
  OBVIOUS
<1>3. ASSUME ~First
      PROVE  entry # None
  BY <1>3
<1> HIDE DEF First
<1>4. \/ Started /\ (notices' \in Nat => ShellInv')
      \/ Kept /\ ~First
  BY <1>1, <1>2, LookupStep
<1>5. ShellInv'
  BY <1>1, <1>4, KeptShell
<1>6. entry' # None
  BY <1>3, <1>4 DEF Started, Kept
<1> QED
  BY <1>3, <1>4, <1>5, <1>6 DEF ShellInv

LEMMA AnalyseTypes ==
  ASSUME TypeInv, Analyse
  PROVE  TypeInv'
<1>1. HostInv'
  BY DEF Analyse, hostVars, TypeInv, HostInv
<1>2. ShellInv' /\ entry' \in Entry /\ entry' # None
  BY AnalyseStep DEF TypeInv
<1>3. WatchInv'
  BY DEF Analyse, watchVars, TypeInv, WatchInv
<1>4. AnalysisInv'
  <2>1. entry'.value \in Readable
    BY <1>2 DEF Entry, Readable
  <2>2. disk["path"] \in Nat /\ disk["tools"] \in Readable /\ None \in Readable
    BY DEF TypeInv, HostInv, Files, Readable
  <2>3. work' \in BOOLEAN /\ analysed' = analysed
    BY DEF Analyse
  <2>4. /\ analysis' \in [at : {"done"}, stale : BOOLEAN, seen : Seen]
        /\ ~analysis'.stale
    BY <2>1, <2>2 DEF Analyse, Seen
  <2> QED
    BY <1>2, <2>3, <2>4 DEF TypeInv, AnalysisInv
<1> QED
  BY <1>1, <1>2, <1>3, <1>4 DEF TypeInv

LEMMA StutterTypes ==
  ASSUME TypeInv, UNCHANGED vars
  PROVE  TypeInv'
BY DEF TypeInv, HostInv, ShellInv, WatchInv, AnalysisInv, IsPending, Polled,
       vars, hostVars, shellVars, analysisVars, watchVars

LEMMA Types ==
  ASSUME TypeInv, [Next]_vars
  PROVE  TypeInv'
BY WriteTypes, WatcherTypes, CaptureTypes, LoopTypes, AnalyseTypes, StutterTypes DEF Next

-----------------------------------------------------------------------------
(* A fingerprint is older than its capture.                                  *)

Grown == \A f \in Files : disk[f] <= disk'[f]

LEMMA WriteGrows ==
  ASSUME HostInv, NEW f \in Files, Write(f)
  PROVE  /\ Grown
         /\ disk'[f] = disk[f] + 1
         /\ \A g \in Files : g # f => disk'[g] = disk[g]
BY DEF HostInv, Write, Grown

LEMMA CaptureKept ==
  ASSUME HostInv, HostInv', ShellInv, CaptureInv, Kept, Grown
  PROVE  CaptureInv'
<1>1. /\ disk["profile"] \in Nat /\ disk'["profile"] \in Nat
      /\ disk["profile"] <= disk'["profile"]
  BY DEF HostInv, Grown, Files
<1>2. /\ entry # None => entry.fingerprint \in Nat
      /\ \A i \in 1 .. Len(captures) : captures[i] # None => captures[i] \in Nat
  BY DEF ShellInv, Entry, Readable
<1>3. IsReady' = IsReady
  BY DEF Kept, IsReady
<1>4. entry' = entry /\ captures' = captures
  BY DEF Kept
<1> QED
  BY <1>1, <1>2, <1>3, <1>4 DEF CaptureInv

LEMMA CaptureStarted ==
  ASSUME HostInv, Started, disk' = disk
  PROVE  CaptureInv'
<1>1. disk["profile"] \in Nat
  BY DEF HostInv, Files
<1>2. entry'.fingerprint = disk["profile"]
  BY DEF Started, Starts, Pending
<1> QED
  BY <1>1, <1>2 DEF CaptureInv, Started

(* What the steps other than a write and a capture thread do to the shell.    *)
LEMMA ShellSteps ==
  ASSUME TypeInv,
         WatcherThread \/ Notify \/ MainLoop \/ RefreshTick \/ RetryTick
         \/ SelectEnvironment \/ Analyse \/ UNCHANGED vars
  PROVE  disk' = disk /\ (Kept \/ Started)
<1>1. disk' = disk
  BY DEF WatcherThread, Receive, Register, Report, Settle, Notify, MainLoop, EnvironmentTick,
         DiagnosticsReady, RefreshTick, RetryTick, SelectEnvironment, Analyse, Refresh,
         vars, hostVars
<1>2. ASSUME NEW due \in BOOLEAN, Refresh(due)
      PROVE  Kept \/ Started
  BY <1>2, RefreshShellStep DEF Refresh, TypeInv
<1>3. CASE SelectEnvironment
  <2> DEFINE Failed == entry # None /\ entry.status = "failed"
  <2>1. /\ IF Failed THEN Starts ELSE UNCHANGED <<entry, captures>>
        /\ Failed => ~IsPending
    BY <1>3 DEF SelectEnvironment, Starts, IsPending
  <2>2. Failed \in BOOLEAN
    OBVIOUS
  <2> HIDE DEF Failed
  <2> QED
    BY <1>1, <2>1, <2>2, LookupStep DEF TypeInv
<1>4. CASE Analyse
  BY <1>1, <1>4, AnalyseStep DEF TypeInv
<1>5. CASE WatcherThread \/ Notify \/ DiagnosticsReady \/ UNCHANGED vars
  BY <1>1, <1>5 DEF WatcherThread, Receive, Register, Report, Settle, Notify, DiagnosticsReady,
              vars, shellVars, Kept
<1> QED
  BY <1>1, <1>2, <1>3, <1>4, <1>5 DEF MainLoop, EnvironmentTick, RefreshTick, RetryTick

LEMMA CaptureStep ==
  ASSUME TypeInv, CaptureInv, [Next]_vars
  PROVE  CaptureInv'
<1> USE DEF TypeInv
<1>1. HostInv' /\ ShellInv'
  BY Types
<1>2. ASSUME NEW f \in Files, Write(f)
      PROVE  CaptureInv'
  BY <1>1, <1>2, WriteGrows, CaptureKept DEF Write, shellVars, Kept
<1>3. ASSUME NEW i \in 1 .. Len(captures), RunCapture(i)
      PROVE  CaptureInv'
  <2>1. /\ Len(captures') = 1 /\ captures'[1] = disk["profile"]
        /\ entry' = entry /\ disk' = disk
    BY <1>3, RunCaptureStep DEF RunCapture, hostVars
  <2>2. disk["profile"] \in Nat /\ IsReady' = IsReady
    BY <2>1 DEF HostInv, Files, IsReady
  <2>3. entry # None
    BY OneRuns, <1>3 DEF IsPending
  <2> QED
    BY <2>1, <2>2, <2>3 DEF CaptureInv
<1>4. ASSUME NEW i \in 1 .. Len(captures), Finish(i)
      PROVE  CaptureInv'
  <2>1. /\ ~IsPending' /\ entry' # None /\ disk' = disk /\ Len(captures') = 0
        /\ entry'.fingerprint = entry.fingerprint
        /\ IsReady' => captures[1] # None /\ captures[1] \in Nat /\ entry'.value = captures[1]
    BY <1>1, <1>4, FinishStep DEF Finish, ShellInv
  <2>2. entry # None /\ 1 \in 1 .. Len(captures)
    BY OneRuns, <1>4 DEF IsPending
  <2> QED
    BY <2>1, <2>2 DEF CaptureInv
<1>5. CASE Kept /\ disk' = disk
  <2>1. Grown
    BY <1>5 DEF Grown, HostInv
  <2> QED
    BY <1>1, <1>5, <2>1, CaptureKept
<1>6. CASE Started /\ disk' = disk
  BY <1>6, CaptureStarted
<1> QED
  BY <1>2, <1>3, <1>4, <1>5, <1>6, ShellSteps DEF Next, CaptureThread

-----------------------------------------------------------------------------
(* What the watcher has polled.                                             *)

LEMMA UpdateObserved ==
  ASSUME ObservedInv, WatchInv, NEW paths, Update(paths), disk' = disk
  PROVE  ObservedInv'
BY DEF ObservedInv, WatchInv, Update

LEMMA ObservedKept ==
  ASSUME ObservedInv, UNCHANGED <<watchVars, disk>>
  PROVE  ObservedInv'
BY DEF ObservedInv, watchVars

LEMMA WatcherObserved ==
  ASSUME TypeInv, ObservedInv, WatcherThread
  PROVE  ObservedInv'
<1> USE DEF TypeInv
<1>1. ASSUME NEW due \in BOOLEAN, Receive(due)
      PROVE  ObservedInv'
  BY <1>1 DEF Receive, ObservedInv, WatchInv, hostVars
<1>2. CASE Register
  <2>1. /\ watcher'.observed = Fingerprints(targets)
        /\ disk' = disk /\ targets' = targets
    BY <1>2 DEF Register, WatchInv, hostVars
  <2>2. /\ Fingerprints(targets) \in [targets -> Nat]
        /\ Fingerprints(targets) # None
    BY FingerprintsType DEF WatchInv
  <2>3. \A f \in targets : Fingerprints(targets)[f] <= disk[f]
    BY DEF Fingerprints, HostInv, WatchInv
  <2> QED
    BY <2>1, <2>2, <2>3 DEF ObservedInv
<1>3. CASE Report \/ Settle
  <2>1. /\ watcher'.observed = watcher.observed /\ watcher'.revalidate = watcher.revalidate
        /\ disk' = disk /\ targets' = targets /\ token' = token
    BY <1>3 DEF Report, Settle, WatchInv, hostVars
  <2> QED
    BY <2>1 DEF ObservedInv
<1> QED
  BY <1>1, <1>2, <1>3 DEF WatcherThread

LEMMA ObservedStep ==
  ASSUME TypeInv, ObservedInv, [Next]_vars
  PROVE  ObservedInv'
<1> USE DEF TypeInv
<1>1. ASSUME NEW f \in Files, Write(f)
      PROVE  ObservedInv'
  <2>1. /\ watcher'.observed = watcher.observed /\ watcher'.revalidate = watcher.revalidate
        /\ targets' = targets /\ token' = token
    BY <1>1 DEF Write, WatchInv
  <2>2. watcher.observed # None =>
          /\ DOMAIN watcher.observed \subseteq Files
          /\ \A g \in DOMAIN watcher.observed : watcher.observed[g] \in Nat
    BY DEF WatchInv, Polled
  <2>3. /\ \A g \in Files : disk[g] <= disk'[g]
        /\ disk \in [Files -> Nat] /\ disk' \in [Files -> Nat]
    BY <1>1, WriteGrows, Types DEF Grown, HostInv, Next
  <2> QED
    BY <2>1, <2>2, <2>3 DEF ObservedInv
<1>2. ASSUME NEW due \in BOOLEAN, Refresh(due)
      PROVE  ObservedInv'
  BY <1>2, UpdateObserved DEF Refresh
<1>3. CASE DiagnosticsReady
  <2>1. disk' = disk
    BY <1>3 DEF DiagnosticsReady, hostVars
  <2> QED
    BY <1>3, <2>1, UpdateObserved, ObservedKept DEF DiagnosticsReady
<1>4. CASE CaptureThread \/ SelectEnvironment \/ Analyse \/ UNCHANGED vars
  BY <1>4, ObservedKept
  DEF CaptureThread, RunCapture, Finish, Notify, SelectEnvironment, Analyse, vars, hostVars
<1> QED
  BY <1>1, <1>2, <1>3, <1>4, WatcherObserved
  DEF Next, MainLoop, EnvironmentTick, RefreshTick, RetryTick

-----------------------------------------------------------------------------
(* What comes to rest.  A step after which nothing moves either was a refresh *)
(* or left alone what the watcher and the shell know.                        *)

Refreshed ==
  /\ work' /\ Kept /\ disk' = disk
  /\ watcher'.observed = watcher.observed
  /\ targets' = WatchDirectories(entry')
  /\ IsReady => entry.fingerprint = disk["profile"]

Rested ==
  /\ ~Moving /\ Grown
  /\ entry' = entry /\ targets' = targets
  /\ watcher'.observed = watcher.observed

LEMMA WriteRests ==
  ASSUME TypeInv, NEW f \in Files, Write(f), ~Moving'
  PROVE  Rested
<1>1. Grown
  BY WriteGrows DEF TypeInv
<1>2. /\ watcher'.observed = watcher.observed /\ watcher'.revalidate = watcher.revalidate
      /\ watcher'.at = watcher.at
  BY DEF Write, TypeInv, WatchInv
<1> QED
  BY <1>1, <1>2 DEF Write, shellVars, Moving, Rested

LEMMA WatcherRests ==
  ASSUME TypeInv, ObservedInv, WatcherThread, ~Moving'
  PROVE  Rested
<1> USE DEF TypeInv
<1>1. /\ entry' = entry /\ captures' = captures /\ notices' = notices
      /\ targets' = targets /\ disk' = disk
  BY DEF WatcherThread, Receive, Register, Report, Settle, shellVars, hostVars
<1>2. Grown
  BY <1>1 DEF Grown, HostInv
<1>3. ASSUME NEW due \in BOOLEAN, Receive(due)
      PROVE  Rested
  <2>1. /\ watcher'.observed = watcher.observed /\ watcher'.revalidate = token
        /\ ticks' = ticks /\ watcher.at = "waiting"
    BY <1>3 DEF Receive, WatchInv
  <2> QED
    BY <1>1, <1>2, <2>1 DEF Moving, Rested, WatchInv
<1>4. CASE Register
  <2>1. /\ watcher.at = "registering" /\ token' = token /\ ticks' = ticks
        /\ watcher'.observed = Fingerprints(targets)
        /\ watcher'.at = IF watcher.revalidate \/ MetadataChanged(Fingerprints(targets))
                           THEN "reporting" ELSE AfterRegistration
    BY <1>4 DEF Register, WatchInv
  <2>2. ~watcher.revalidate /\ ~MetadataChanged(Fingerprints(targets)) /\ ~token
    BY <2>1 DEF Moving
  <2>3. watcher.observed = Fingerprints(targets)
    BY <2>2 DEF MetadataChanged, ObservedInv
  <2> QED
    BY <1>1, <1>2, <2>1, <2>2, <2>3 DEF Moving, Rested
<1>5. CASE Report \/ Settle
  <2>1. ~SendTick
    BY TickTypes DEF Moving
  <2>2. CASE Settle
    <3>1. /\ watcher.at = "settling" /\ token' = token /\ ticks' = ticks
          /\ watcher' = [watcher EXCEPT !.at = "waiting"]
      BY <2>1, <2>2 DEF Settle
    <3>2. watcher'.observed = watcher.observed /\ watcher'.revalidate = watcher.revalidate
      BY <3>1 DEF WatchInv
    <3> QED
      BY <1>1, <1>2, <3>1, <3>2 DEF Moving, Rested
  <2> QED
    BY <1>5, <2>1, <2>2 DEF Report
<1> QED
  BY <1>3, <1>4, <1>5 DEF WatcherThread

(* A capture, and what comes of it, moves until there is a tick.             *)
LEMMA CaptureMoves ==
  ASSUME TypeInv, CaptureThread
  PROVE  Moving'
BY RunCaptureStep, FinishStep, TickTypes DEF TypeInv, CaptureThread, Notify, Moving

LEMMA RefreshRests ==
  ASSUME TypeInv, NEW due \in BOOLEAN, Refresh(due), ~Moving'
  PROVE  Refreshed
<1>1. /\ disk' = disk /\ watcher' = watcher /\ targets' = WatchDirectories(entry')
      /\ RefreshShell(due) /\ work'
  BY DEF Refresh, Update, Reschedule
<1>2. Kept /\ (IsReady => entry.fingerprint = disk["profile"])
  BY <1>1, RefreshShellStep DEF TypeInv, Started, Moving
<1> QED
  BY <1>1, <1>2 DEF Refreshed

LEMMA OtherRests ==
  ASSUME TypeInv,
         DiagnosticsReady \/ SelectEnvironment \/ Analyse \/ UNCHANGED vars,
         ~Moving'
  PROVE  Rested /\ disk' = disk /\ Kept
<1>1. disk' = disk /\ Kept
  BY ShellSteps DEF MainLoop, Started, Moving
<1>2. Grown
  BY <1>1 DEF Grown, TypeInv, HostInv
<1>3. /\ watcher' = watcher /\ notices' = notices /\ ticks' = ticks
      /\ targets' = targets /\ token' = token
  BY DEF DiagnosticsReady, SelectEnvironment, Analyse, Update, watchVars, shellVars,
         vars, Moving, TypeInv, WatchInv
<1> QED
  BY <1>1, <1>2, <1>3 DEF Rested, Kept, Moving

LEMMA Rests ==
  ASSUME TypeInv, ObservedInv, [Next]_vars, ~Moving'
  PROVE  Refreshed \/ Rested
BY WriteRests, WatcherRests, CaptureMoves, RefreshRests, OtherRests
DEF Next, MainLoop, EnvironmentTick, RefreshTick, RetryTick

(* What the watcher was told stays so, or it has more to find.               *)
LEMMA ToldKept ==
  ASSUME TypeInv, ObservedInv, Rested, HostInv', NEW f \in targets, NEW v, Told(f, v)
  PROVE  v = watcher'.observed[f] \/ watcher'.observed[f] # disk'[f]
<1>1. /\ f \in DOMAIN watcher.observed /\ watcher.observed # None
      /\ watcher.observed[f] <= disk[f]
  BY DEF ObservedInv, Rested, Moving
<1>2. f \in Files /\ watcher.observed[f] \in Nat
  BY <1>1 DEF TypeInv, WatchInv, Polled
<1>3. disk[f] \in Nat /\ disk'[f] \in Nat /\ disk[f] <= disk'[f]
  BY <1>2 DEF TypeInv, HostInv, Rested, Grown
<1> QED
  BY <1>1, <1>2, <1>3 DEF Rested, Told

LEMMA RestStep ==
  ASSUME TypeInv, ObservedInv, RestInv, [Next]_vars
  PROVE  RestInv'
<1> SUFFICES ASSUME ~Moving'
             PROVE  /\ targets' = WatchDirectories(entry')
                    /\ IsReady' => \/ entry'.fingerprint = watcher'.observed["profile"]
                                   \/ watcher'.observed["profile"] # disk'["profile"]
  BY DEF RestInv, Told, WatchDirectories
<1>1. CASE Refreshed
  BY <1>1 DEF Refreshed, Kept, IsReady
<1>2. CASE Rested
  <2>1. targets = WatchDirectories(entry) /\ (IsReady => Told("profile", entry.fingerprint))
    BY <1>2 DEF Rested, RestInv
  <2>2. IsReady' = IsReady /\ entry' = entry /\ targets' = targets
    BY <1>2 DEF Rested, IsReady
  <2>3. IsReady => "profile" \in targets
    BY <2>1 DEF WatchDirectories, IsReady
  <2> QED
    BY <1>2, <2>1, <2>2, <2>3, Types, ToldKept DEF TypeInv
<1> QED
  BY <1>1, <1>2, Rests

(* Of the steps that leave nothing due, an analysis sees the host as it is,   *)
(* and any other keeps what has been seen.                                   *)
LEMMA SeenSteps ==
  ASSUME TypeInv, [Next]_vars, ~Moving', ~work'
  PROVE  Analyse \/ (~work /\ LastSeen' = LastSeen)
<1>1. CASE UNCHANGED analysisVars
  BY <1>1 DEF analysisVars, LastSeen
<1>2. CASE DiagnosticsReady
  <2>1. /\ work' = work /\ analysis'.at = "idle"
        /\ analysis.at = "done"
    BY <1>2 DEF DiagnosticsReady
  <2>2. ~analysis.stale
    BY <2>1 DEF TypeInv, AnalysisInv
  <2> QED
    BY <1>2, <2>1, <2>2 DEF DiagnosticsReady, LastSeen
<1>3. CASE Analyse \/ SelectEnvironment \/ \E due \in BOOLEAN : Refresh(due)
  BY <1>3 DEF SelectEnvironment, Refresh, Reschedule
<1>4. CASE CaptureThread
  BY <1>4, CaptureMoves
<1> QED
  BY <1>1, <1>2, <1>3, <1>4
  DEF Next, Write, WatcherThread, Receive, Register, Report, Settle, MainLoop,
      EnvironmentTick, RefreshTick, RetryTick, vars

LEMMA AnalyseSees ==
  ASSUME TypeInv, CaptureInv, Analyse, Kept
  PROVE  /\ LastSeen' \in Seen
         /\ LastSeen'.path = disk["path"]
         /\ LastSeen'.profile = entry'.value
         /\ IsReady' => LastSeen'.tools = disk["tools"]
<1>1. TypeInv'
  BY AnalyseTypes
<1>2. /\ analysis'.at = "done"
      /\ analysis'.seen = [path |-> disk["path"], profile |-> entry'.value,
                           tools |-> IF entry'.value = None THEN None ELSE disk["tools"]]
  BY DEF Analyse
<1>3. LastSeen' = analysis'.seen
  BY <1>2 DEF LastSeen
<1>4. analysis'.seen \in Seen
  BY <1>1, <1>2 DEF TypeInv, AnalysisInv
<1>5. IsReady' => entry'.value # None
  BY NoneAssumption DEF Kept, IsReady, CaptureInv
<1> QED
  BY <1>2, <1>3, <1>4, <1>5

LEMMA SeenStep ==
  ASSUME TypeInv, CaptureInv, ObservedInv, RestInv, RestInv', SeenInv, [Next]_vars
  PROVE  SeenInv'
<1> SUFFICES ASSUME ~Moving', ~work'
             PROVE  /\ LastSeen' \in Seen
                    /\ Told("path", LastSeen.path)'
                    /\ LastSeen'.profile = entry'.value
                    /\ IsReady' => Told("tools", LastSeen.tools)'
  BY DEF SeenInv
<1>1. Rested
  BY Rests DEF Refreshed
<1>2. /\ targets = WatchDirectories(entry) /\ entry' = entry /\ IsReady' = IsReady
      /\ "path" \in targets /\ (IsReady => "tools" \in targets)
  BY <1>1 DEF Rested, RestInv, WatchDirectories, IsReady
<1>3. CASE Analyse
  <2>1. Kept /\ disk' = disk
    BY <1>3, OtherRests
  <2> QED
    BY <1>3, <2>1, AnalyseSees DEF Told
<1>4. CASE ~work /\ LastSeen' = LastSeen
  <2>1. /\ LastSeen \in Seen
        /\ Told("path", LastSeen.path)
        /\ LastSeen.profile = entry.value
        /\ IsReady => Told("tools", LastSeen.tools)
    BY <1>1, <1>4 DEF SeenInv, Rested
  <2>2. HostInv'
    BY Types DEF TypeInv
  <2> QED
    BY <1>1, <1>2, <1>4, <2>1, <2>2, ToldKept DEF Told
<1> QED
  BY <1>3, <1>4, SeenSteps

-----------------------------------------------------------------------------
(* The theorems.                                                           *)

LEMMA InitIInv ==
  ASSUME Init
  PROVE  IInv
<1>1. HostInv /\ ShellInv
  BY BoundsAssumption DEF Init, HostInv, ShellInv, IsPending
<1>2. WatchInv /\ AnalysisInv
  BY WatchDirectoriesType DEF Init, WatchInv, AnalysisInv
<1>3. CaptureInv
  BY DEF Init, CaptureInv, IsReady
<1>4. ObservedInv
  BY DEF Init, ObservedInv
<1>5. Moving
  BY DEF Init, Moving
<1> QED
  BY <1>1, <1>2, <1>3, <1>4, <1>5 DEF IInv, TypeInv, RestInv, SeenInv

LEMMA NextIInv ==
  ASSUME IInv, [Next]_vars
  PROVE  IInv'
<1>1. TypeInv' /\ CaptureInv' /\ ObservedInv'
  BY Types, CaptureStep, ObservedStep DEF IInv
<1>2. RestInv'
  BY RestStep DEF IInv
<1>3. SeenInv'
  BY <1>2, SeenStep DEF IInv
<1> QED
  BY <1>1, <1>2, <1>3 DEF IInv

(* The inductive invariant holds of every state of the server and its host.   *)
THEOREM Invariance == Spec => []IInv
BY InitIInv, NextIInv, PTL DEF Spec

(* Types, and that a shell is being captured exactly while its entry says    *)
(* so: never by two threads at once, whatever lookups, refreshes, retries    *)
(* and finished captures come in whatever order (LoginShellService).         *)
THEOREM TypeCorrect == Spec => []TypeOK
<1>1. ASSUME IInv
      PROVE  TypeOK
  <2>1. \A f \in Files : disk[f] \in 0 .. MaxIncidents
    BY <1>1, BoundsAssumption DEF IInv, TypeInv, HostInv
  <2>2. disk \in [Files -> 0 .. MaxIncidents]
    BY <1>1, <2>1 DEF IInv, TypeInv, HostInv
  <2> QED
    BY <1>1, <2>2
    DEF IInv, TypeInv, HostInv, ShellInv, WatchInv, IsPending, TypeOK
<1> QED
  BY <1>1, Invariance, PTL

(* A capture that counts as current, because its fingerprint is that of the   *)
(* startup file, is of the file as it is: one written while the shell ran    *)
(* does not count (LoginShellService::refresh).                             *)
THEOREM CapturesAreCurrent == Spec => []CaptureIsCurrent
<1>1. ASSUME IInv
      PROVE  CaptureIsCurrent
  <2> SUFFICES ASSUME IsReady, entry.fingerprint = disk["profile"]
               PROVE  entry.value = disk["profile"]
    BY DEF CaptureIsCurrent, IsReady
  <2>1. /\ entry.value \in Nat
        /\ entry.fingerprint <= entry.value /\ entry.value <= disk["profile"]
    BY <1>1 DEF IInv, CaptureInv
  <2>2. disk["profile"] \in Nat
    BY <1>1 DEF IInv, TypeInv, HostInv, Files
  <2> QED
    BY <2>1, <2>2
<1> QED
  BY <1>1, Invariance, PTL

(* Whatever was written whenever, whichever native events were lost: when    *)
(* the circle of ticks, captures and registrations has come to rest and the  *)
(* watcher has the files as they are, the diagnostics were made from them.   *)
THEOREM QuietStatesAreCurrent == Spec => []QuietIsCurrent
<1>1. ASSUME IInv
      PROVE  QuietIsCurrent
  <2> SUFFICES ASSUME ~Moving, ~work, analysis.at = "idle",
                      watcher.observed = Fingerprints(targets),
                      entry.status # "failed"
               PROVE  analysed = [path |-> disk["path"], profile |-> disk["profile"],
                                  tools |-> disk["tools"]]
    BY DEF QuietIsCurrent
  <2>1. entry # None /\ entry \in Entry
    BY <1>1 DEF IInv, TypeInv, AnalysisInv, ShellInv
  <2>2. ~IsPending
    <3>1. captures = <<>>
      BY DEF Moving
    <3>2. Len(captures) = 0
      BY <3>1
    <3>3. Len(captures) = IF IsPending THEN 1 ELSE 0
      BY <1>1 DEF IInv, TypeInv, ShellInv
    <3> QED
      BY <3>2, <3>3
  <2>3. IsReady
    BY <2>1, <2>2 DEF Entry, IsPending, IsReady
  <2>4. targets = Files
    BY <1>1, <2>3 DEF IInv, RestInv, WatchDirectories, IsReady, Files
  <2>5. \A f \in Files : watcher.observed[f] = disk[f]
    BY <2>4 DEF Fingerprints
  <2>6. entry.fingerprint = disk["profile"]
    BY <1>1, <2>3, <2>5 DEF IInv, RestInv, Told, Files
  <2>7. entry.value = disk["profile"]
    <3>1. disk["profile"] \in Nat
      BY <1>1 DEF IInv, TypeInv, HostInv, Files
    <3> QED
      BY <1>1, <2>3, <2>6, <3>1 DEF IInv, CaptureInv
  <2>8. /\ analysed \in Seen
        /\ analysed.path = disk["path"] /\ analysed.profile = entry.value
        /\ analysed.tools = disk["tools"]
    BY <1>1, <2>3, <2>5 DEF IInv, SeenInv, LastSeen, Told, Files
  <2> QED
    BY <2>7, <2>8 DEF Seen
<1> QED
  BY <1>1, Invariance, PTL
=============================================================================
