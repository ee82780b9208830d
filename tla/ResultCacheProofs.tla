-------------------------- MODULE ResultCacheProofs --------------------------
(***************************************************************************)
(* The result cache is right for any number of runs, writes and kills.  An  *)
(* entry carries what makes it right with it: its key is no later than the  *)
(* content it was made from, because the key is taken first, and the        *)
(* fingerprint of its dependency is that of the content read unless the     *)
(* entry lost the race.                                                    *)
(***************************************************************************)
EXTENDS ResultCache, TLAPS

Places == {"idle", "keying", "looking up", "reading", "analysing", "fingerprinting",
           "formatting", "keying again", "persisting"}

Entry == CheckEntry \cup FormatEntry \cup {None}

Process == [at : Places, command : Commands, package : Entry, change : Entry, hit : BOOLEAN,
            key : Nat, source : Script \cup {None}, library : Nat, raced : BOOLEAN,
            report : Entry, since : Nat \X Nat]

(* An entry of a command's cache, for a script of version v and kind k and a  *)
(* library of version l.                                                    *)
CheckOK(e, v, l) ==
  /\ e \in CheckEntry
  /\ e.key <= e.data.script /\ e.data.script <= v
  /\ e.data.library <= l
  /\ ~e.raced => e.library = e.data.library

FormatOK(e, v, k) ==
  /\ e \in FormatEntry
  /\ e.key <= v
  /\ e.key = v /\ ~e.raced => k = (IF e.verdict = "unchanged" THEN "formatted" ELSE "broken")

EntryOK(c, e, v, k, l) ==
  e = None \/ (IF c = "check" THEN CheckOK(e, v, l) ELSE FormatOK(e, v, k))

(* Where a run is, what it has read is no older than its key, and its key no  *)
(* older than the run.                                                      *)
ReadOK(p, v, k) ==
  /\ p.source \in Script
  /\ p.key <= p.source.version /\ p.source.version <= v
  /\ p.source.version = v => p.source.kind = k

RunOK(p, v, k, l) ==
  /\ p.since[1] <= v /\ p.since[2] <= l
  /\ p.at \notin {"idle", "keying"} => p.since[1] <= p.key /\ p.key <= v
  /\ p.at \in {"analysing", "fingerprinting"} => p.command = "check" /\ ReadOK(p, v, k)
  /\ p.at \in {"formatting", "keying again"} => p.command = "format"
  /\ p.at = "formatting" => ReadOK(p, v, k)
  /\ p.at = "fingerprinting" =>
       /\ p.since[2] <= p.library /\ p.library <= l
       /\ ~p.raced => p.library = l
  /\ p.at = "keying again" /\ ~p.raced => k = "formatted"

(* What a run reports is of its own time.                                     *)
ReportOK(p) ==
  p.command = "check" /\ p.report # None /\ ~p.report.raced =>
    p.report.data.script >= p.since[1] /\ p.report.data.library >= p.since[2]

ProcessOK(p, v, k, l) ==
  /\ p \in Process
  /\ EntryOK(p.command, p.package, v, k, l)
  /\ EntryOK(p.command, p.change, v, k, l)
  /\ EntryOK(p.command, p.report, v, k, l)
  /\ RunOK(p, v, k, l)
  /\ ReportOK(p)

IInv ==
  /\ script \in Script
  /\ library \in Nat
  /\ cache \in [Commands -> Entry]
  /\ run \in [Runs -> Process]
  /\ \A c \in Commands : EntryOK(c, cache[c], script.version, script.kind, library)
  /\ \A r \in Runs : ProcessOK(run[r], script.version, script.kind, library)

-----------------------------------------------------------------------------
(* The invariant gives the properties.                                       *)
LEMMA InvariantSuffices == IInv => CheckSound /\ FormatSound /\ ReportOfThisRun
<1> SUFFICES ASSUME IInv PROVE CheckSound /\ FormatSound /\ ReportOfThisRun
  OBVIOUS
<1>1. ASSUME NEW c \in Commands, NEW e \in EntriesOf(c)
      PROVE  EntryOK(c, e, script.version, script.kind, library) /\ e # None
  BY <1>1 DEF IInv, EntriesOf, ProcessOK
<1>2. CheckSound
  <2> SUFFICES ASSUME NEW e \in EntriesOf("check"),
                      e.key = script.version, e.library = library, ~e.raced
               PROVE  e.data = [script |-> script.version, library |-> library]
    BY DEF CheckSound
  <2>1. CheckOK(e, script.version, library)
    BY <1>1 DEF EntryOK, Commands
  <2>2. e.data.script = script.version /\ e.data.library = library
    BY <2>1 DEF CheckOK, CheckEntry, IInv, Script
  <2> QED BY <2>1, <2>2 DEF CheckOK, CheckEntry
<1>3. FormatSound
  <2> SUFFICES ASSUME NEW e \in EntriesOf("format"), e.key = script.version, ~e.raced
               PROVE  IF e.verdict = "unchanged" THEN script.kind = "formatted"
                                                 ELSE script.kind = "broken"
    BY DEF FormatSound
  <2>1. FormatOK(e, script.version, script.kind)
    BY <1>1 DEF EntryOK, Commands
  <2> QED BY <2>1 DEF FormatOK
<1>4. ReportOfThisRun
  BY DEF ReportOfThisRun, IInv, ProcessOK, ReportOK
<1> QED BY <1>2, <1>3, <1>4

-----------------------------------------------------------------------------
(* A write makes a version no earlier one is equal to.                       *)
LEMMA NextVersion ==
  ASSUME NEW a \in Nat, NEW b \in Nat, a <= b
  PROVE  a <= b + 1 /\ a # b + 1
OBVIOUS

(* An entry stays right when the script or the library is written: its key   *)
(* is one that does not come back.                                          *)
LEMMA EntriesAfterScript ==
  ASSUME NEW c, NEW e, NEW v \in Nat, NEW k, NEW k2, NEW l \in Nat, EntryOK(c, e, v, k, l)
  PROVE  EntryOK(c, e, v + 1, k2, l)
<1>1. CASE e = None
  BY <1>1 DEF EntryOK
<1>2. CASE e # None /\ c = "check"
  BY <1>2 DEF EntryOK, CheckOK, CheckEntry
<1>3. CASE e # None /\ c # "check"
  <2>1. FormatOK(e, v, k)
    BY <1>3 DEF EntryOK
  <2>2. e.key \in Nat /\ e.key <= v /\ e \in FormatEntry
    BY <2>1 DEF FormatOK, FormatEntry
  <2>3. e.key <= v + 1 /\ e.key # v + 1
    BY <2>2
  <2> QED BY <1>3, <2>2, <2>3 DEF EntryOK, FormatOK
<1> QED BY <1>1, <1>2, <1>3

LEMMA EntriesAfterLibrary ==
  ASSUME NEW c, NEW e, NEW v \in Nat, NEW k, NEW l \in Nat, EntryOK(c, e, v, k, l)
  PROVE  EntryOK(c, e, v, k, l + 1)
<1>1. CASE e # None /\ c = "check"
  BY <1>1 DEF EntryOK, CheckOK, CheckEntry
<1>2. CASE e = None \/ c # "check"
  BY <1>2 DEF EntryOK
<1> QED BY <1>1, <1>2

(* q is p, marked if it loses the race to a write at this step.              *)
Marked(p, q, step) ==
  /\ q \in Process
  /\ q.at = p.at /\ q.command = p.command /\ q.package = p.package /\ q.change = p.change
  /\ q.report = p.report /\ q.since = p.since /\ q.key = p.key
  /\ q.source = p.source /\ q.library = p.library
  /\ p.raced => q.raced
  /\ p.at = step => q.raced

LEMMA MarksTypes ==
  ASSUME NEW p \in Process, NEW step
  PROVE  Marked(p, [p EXCEPT !.raced = @ \/ p.at = step], step)
BY Zenon DEF Process, Marked

(* A run stays right when a file is written, once those that lose the race   *)
(* are marked.                                                              *)
LEMMA RunsAfterScript ==
  ASSUME NEW p, NEW q, NEW v \in Nat, NEW k, NEW k2, NEW l \in Nat,
         ProcessOK(p, v, k, l), Marked(p, q, "keying again")
  PROVE  ProcessOK(q, v + 1, k2, l)
<1>1. ASSUME NEW e, EntryOK(p.command, e, v, k, l) PROVE EntryOK(p.command, e, v + 1, k2, l)
  BY <1>1, EntriesAfterScript
<1>2. p \in Process /\ RunOK(p, v, k, l) /\ ReportOK(p)
  BY DEF ProcessOK
<1>3. p.since[1] \in Nat /\ p.since[2] \in Nat /\ p.key \in Nat /\ p.library \in Nat
  BY <1>2 DEF Process
<1>4. ASSUME ReadOK(p, v, k) PROVE ReadOK(q, v + 1, k2)
  <2>1. p.source \in Script /\ p.source.version \in Nat
    BY <1>4 DEF ReadOK, Script
  <2>2. p.key <= p.source.version /\ p.source.version <= v + 1 /\ p.source.version # v + 1
    <3>1. p.key <= p.source.version /\ p.source.version <= v
      BY <1>4, Zenon DEF ReadOK
    <3> QED BY <2>1, <3>1, NextVersion, Zenon
  <2>3. q.source = p.source /\ q.key = p.key
    BY DEF Marked
  <2> QED BY <2>1, <2>2, <2>3 DEF ReadOK
<1>5. RunOK(q, v + 1, k2, l)
  <2>1. q.at = p.at /\ q.since = p.since /\ q.key = p.key /\ q.command = p.command
        /\ q.library = p.library
    BY DEF Marked
  <2>2. q.since[1] <= v + 1 /\ q.since[2] <= l
    <3>1. p.since[1] <= v /\ p.since[2] <= l
      BY <1>2, Zenon DEF RunOK
    <3> QED BY <1>3, <2>1, <3>1, NextVersion, Zenon
  <2>3. q.at \notin {"idle", "keying"} => q.since[1] <= q.key /\ q.key <= v + 1
    <3> SUFFICES ASSUME q.at \notin {"idle", "keying"}
                 PROVE  p.since[1] <= p.key /\ p.key <= v + 1
      BY <2>1
    <3>1. p.since[1] <= p.key /\ p.key <= v
      BY <1>2, <2>1, Zenon DEF RunOK
    <3> QED BY <1>3, <3>1, NextVersion, Zenon
  <2>4. q.at \in {"analysing", "fingerprinting"} => q.command = "check" /\ ReadOK(q, v + 1, k2)
    BY <1>2, <1>4, <2>1 DEF RunOK
  <2>5. /\ q.at \in {"formatting", "keying again"} => q.command = "format"
        /\ q.at = "formatting" => ReadOK(q, v + 1, k2)
    BY <1>2, <1>4, <2>1 DEF RunOK
  <2>6. q.at = "fingerprinting" =>
          /\ q.since[2] <= q.library /\ q.library <= l
          /\ ~q.raced => q.library = l
    BY <1>2, <2>1, Zenon DEF RunOK, Marked
  <2>7. q.at = "keying again" => q.raced
    BY Zenon DEF Marked
  <2> QED BY <2>2, <2>3, <2>4, <2>5, <2>6, <2>7, Zenon DEF RunOK
<1> QED BY <1>1, <1>2, <1>5 DEF ProcessOK, ReportOK, Marked

LEMMA RunsAfterLibrary ==
  ASSUME NEW p, NEW q, NEW v \in Nat, NEW k, NEW l \in Nat,
         ProcessOK(p, v, k, l), Marked(p, q, "fingerprinting")
  PROVE  ProcessOK(q, v, k, l + 1)
<1>1. ASSUME NEW e, EntryOK(p.command, e, v, k, l) PROVE EntryOK(p.command, e, v, k, l + 1)
  BY <1>1, EntriesAfterLibrary
<1>2. p \in Process /\ RunOK(p, v, k, l) /\ ReportOK(p)
  BY DEF ProcessOK
<1>3. p.since[1] \in Nat /\ p.since[2] \in Nat /\ p.key \in Nat /\ p.library \in Nat
  BY <1>2 DEF Process
<1>4. ReadOK(p, v, k) => ReadOK(q, v, k)
  BY DEF ReadOK, Marked
<1>5. RunOK(q, v, k, l + 1)
  <2>1. q.at = p.at /\ q.since = p.since /\ q.key = p.key /\ q.command = p.command
        /\ q.library = p.library
    BY DEF Marked
  <2>2. q.since[1] <= v /\ q.since[2] <= l + 1
    <3>1. p.since[1] <= v /\ p.since[2] <= l
      BY <1>2, Zenon DEF RunOK
    <3> QED BY <1>3, <2>1, <3>1
  <2>3. q.at = "fingerprinting" => q.since[2] <= q.library /\ q.library <= l + 1
    <3> SUFFICES ASSUME q.at = "fingerprinting"
                 PROVE  p.since[2] <= p.library /\ p.library <= l + 1
      BY <2>1
    <3>1. p.since[2] <= p.library /\ p.library <= l
      BY <1>2, <2>1, Zenon DEF RunOK
    <3> QED BY <1>3, <3>1
  <2>4. q.at = "fingerprinting" => q.raced
    BY Zenon DEF Marked
  <2>5. q.at = "keying again" /\ ~q.raced => k = "formatted"
    BY <1>2, <2>1, Zenon DEF RunOK, Marked
  <2>6. /\ q.at \notin {"idle", "keying"} => q.since[1] <= q.key /\ q.key <= v
        /\ q.at \in {"analysing", "fingerprinting"} => q.command = "check" /\ ReadOK(q, v, k)
        /\ q.at \in {"formatting", "keying again"} => q.command = "format"
        /\ q.at = "formatting" => ReadOK(q, v, k)
    BY <1>2, <1>4, <2>1 DEF RunOK
  <2> QED BY <2>2, <2>3, <2>4, <2>5, <2>6, Zenon DEF RunOK
<1> QED BY <1>1, <1>2, <1>5 DEF ProcessOK, ReportOK, Marked

-----------------------------------------------------------------------------
(* The initial states satisfy the invariant.                                 *)
LEMMA IdleIsOK ==
  ASSUME NEW v \in Nat, NEW k, NEW l \in Nat
  PROVE  ProcessOK(Idle, v, k, l)
<1>1. Idle \in Process
  BY DEF Idle, Process, Entry, Places, Commands
<1>2. Idle.package = None /\ Idle.change = None /\ Idle.report = None /\ Idle.at = "idle"
      /\ Idle.since = <<0, 0>>
  BY DEF Idle
<1>3. RunOK(Idle, v, k, l)
  BY <1>2 DEF RunOK
<1> QED BY <1>1, <1>2, <1>3 DEF ProcessOK, EntryOK, ReportOK

LEMMA InitIsOK == Init => IInv
<1> SUFFICES ASSUME Init PROVE IInv
  OBVIOUS
<1>1. script \in Script /\ script.version \in Nat /\ library \in Nat
  BY DEF Init, Script
<1>2. \A r \in Runs : run[r] = Idle
  BY DEF Init
<1>3. \A r \in Runs : ProcessOK(run[r], script.version, script.kind, library)
  BY <1>1, <1>2, IdleIsOK
<1>4. run \in [Runs -> Process]
  BY <1>3 DEF Init, ProcessOK
<1>5. cache \in [Commands -> Entry] /\ \A c \in Commands : cache[c] = None
  BY DEF Init, Entry
<1> QED BY <1>1, <1>3, <1>4, <1>5 DEF IInv, EntryOK

-----------------------------------------------------------------------------
(* A step of one run that leaves the files alone.                            *)
LEMMA OneRunMoves ==
  ASSUME IInv, NEW r \in Runs, NEW q,
         ProcessOK(q, script.version, script.kind, library),
         run' = [run EXCEPT ![r] = q], UNCHANGED <<script, library, cache>>
  PROVE  IInv'
<1>1. q \in Process
  BY DEF ProcessOK
<1>2. run' \in [Runs -> Process]
  BY <1>1 DEF IInv
<1>3. \A o \in Runs : run'[o] = IF o = r THEN q ELSE run[o]
  BY DEF IInv
<1>4. \A o \in Runs : ProcessOK(run'[o], script.version, script.kind, library)
  BY <1>3 DEF IInv
<1> QED BY <1>2, <1>4 DEF IInv

(* What the invariant says of the process that takes the step.               *)
LEMMA ProcessFacts ==
  ASSUME NEW p, NEW v, NEW k, NEW l, ProcessOK(p, v, k, l)
  PROVE  /\ p \in Process
         /\ EntryOK(p.command, p.package, v, k, l)
         /\ EntryOK(p.command, p.change, v, k, l)
         /\ EntryOK(p.command, p.report, v, k, l)
         /\ RunOK(p, v, k, l)
         /\ ReportOK(p)
BY Zenon DEF ProcessOK

LEMMA OpenKeeps == ASSUME IInv, NEW r \in Runs, Open(r) PROVE IInv'
<1>1. PICK c \in Commands :
        run' = [run EXCEPT ![r] = [Idle EXCEPT !.at = "keying", !.command = c,
                  !.package = cache[c], !.since = <<script.version, library>>]]
  BY Zenon DEF Open
<1> DEFINE q == [Idle EXCEPT !.at = "keying", !.command = c,
                   !.package = cache[c], !.since = <<script.version, library>>]
<1>2. script.version \in Nat /\ library \in Nat /\ cache[c] \in Entry
      /\ EntryOK(c, cache[c], script.version, script.kind, library)
  BY DEF IInv, Script
<1>3. q \in Process
  BY <1>2 DEF Process, Idle, Places, Entry
<1>4. /\ q.at = "keying" /\ q.command = c /\ q.package = cache[c]
      /\ q.change = None /\ q.report = None /\ q.since = <<script.version, library>>
  BY DEF Idle
<1> HIDE DEF q
<1>5. RunOK(q, script.version, script.kind, library)
  BY <1>2, <1>4 DEF RunOK
<1>6. ProcessOK(q, script.version, script.kind, library)
  BY <1>2, <1>3, <1>4, <1>5, Zenon DEF ProcessOK, EntryOK, ReportOK
<1> QED BY <1>1, <1>6, OneRunMoves DEF Open, q

LEMMA TakeKeyKeeps == ASSUME IInv, NEW r \in Runs, TakeKey(r) PROVE IInv'
<1> DEFINE p == run[r]
           q == [run[r] EXCEPT !.at = "looking up", !.key = script.version]
<1>1. ProcessOK(p, script.version, script.kind, library) /\ script.version \in Nat
  BY DEF IInv, Script
<1>2. p \in Process
  BY <1>1, ProcessFacts
<1>3. q \in Process
  BY <1>1, <1>2 DEF Process, Places
<1>4. /\ q.at = "looking up" /\ q.key = script.version /\ q.command = p.command
      /\ q.package = p.package /\ q.change = p.change /\ q.report = p.report
      /\ q.since = p.since
  BY <1>2 DEF Process
<1>5. run' = [run EXCEPT ![r] = q]
  BY DEF TakeKey
<1> HIDE DEF p, q
<1>6. RunOK(q, script.version, script.kind, library)
  <2>1. p.since[1] <= script.version /\ p.since[2] <= library
    BY <1>1, Zenon DEF RunOK, ProcessOK
  <2>2. script.version <= script.version
    BY <1>1
  <2> QED BY <1>4, <2>1, <2>2, Zenon DEF RunOK
<1>7. ProcessOK(q, script.version, script.kind, library)
  BY <1>1, <1>3, <1>4, <1>6, Zenon DEF ProcessOK, ReportOK
<1> QED BY <1>5, <1>7, OneRunMoves DEF TakeKey

LEMMA LookUpKeeps == ASSUME IInv, NEW r \in Runs, LookUp(r) PROVE IInv'
<1> DEFINE p == run[r]
<1>1. ProcessOK(p, script.version, script.kind, library)
      /\ script.version \in Nat /\ library \in Nat
  BY DEF IInv, Script
<1>2. p \in Process /\ p.at = "looking up"
  BY <1>1, ProcessFacts DEF LookUp
<1>3. p.since[1] <= script.version /\ p.since[2] <= library /\ p.since[1] <= p.key
  BY <1>1, <1>2, ProcessFacts DEF RunOK
<1>4. CASE Hit(r)
  <2> DEFINE q == [run[r] EXCEPT !.at = "persisting", !.hit = TRUE, !.report = run[r].package]
  <2>1. q \in Process
    BY <1>2 DEF Process, Places
  <2>2. /\ q.at = "persisting" /\ q.key = p.key /\ q.command = p.command
        /\ q.package = p.package /\ q.change = p.change /\ q.report = p.package
        /\ q.since = p.since
    BY <1>2 DEF Process
  <2>3. run' = [run EXCEPT ![r] = q]
    BY <1>4 DEF LookUp
  <2>4. /\ p.package # None /\ p.package.key = p.key
        /\ p.command = "check" => p.package.library = library
    BY <1>4, Zenon DEF Hit, DependenciesMatch
  <2> HIDE DEF p, q
  <2>5. RunOK(q, script.version, script.kind, library)
    BY <1>1, <1>2, <2>2, Zenon DEF RunOK, ProcessOK
  <2>6. ReportOK(q)
    <3> SUFFICES ASSUME p.command = "check", ~p.package.raced
                 PROVE  /\ p.package.data.script >= p.since[1]
                        /\ p.package.data.library >= p.since[2]
      BY <2>2 DEF ReportOK
    <3>1. CheckOK(p.package, script.version, library)
      BY <1>1, <2>4 DEF ProcessOK, EntryOK
    <3>2. /\ p.package.key <= p.package.data.script
          /\ p.package.data.library = library
          /\ p.package.data.script \in Nat
      BY <3>1, <2>4 DEF CheckOK, CheckEntry
    <3>3. p.since[1] \in Nat /\ p.since[2] \in Nat /\ p.key \in Nat
      BY <1>2 DEF Process
    <3> QED BY <1>3, <2>4, <3>2, <3>3
  <2>7. ProcessOK(q, script.version, script.kind, library)
    BY <1>1, <2>1, <2>2, <2>5, <2>6, Zenon DEF ProcessOK
  <2> QED BY <2>3, <2>7, OneRunMoves DEF LookUp
<1>5. CASE ~Hit(r)
  <2> DEFINE q == [run[r] EXCEPT !.at = "reading"]
  <2>1. q \in Process
    BY <1>2 DEF Process, Places
  <2>2. /\ q.at = "reading" /\ q.key = p.key /\ q.command = p.command
        /\ q.package = p.package /\ q.change = p.change /\ q.report = p.report
        /\ q.since = p.since
    BY <1>2 DEF Process
  <2>3. run' = [run EXCEPT ![r] = q]
    BY <1>5 DEF LookUp
  <2> HIDE DEF p, q
  <2>4. RunOK(q, script.version, script.kind, library)
    BY <1>1, <1>2, <2>2, Zenon DEF RunOK, ProcessOK
  <2>5. ProcessOK(q, script.version, script.kind, library)
    BY <1>1, <2>1, <2>2, <2>4, Zenon DEF ProcessOK, ReportOK
  <2> QED BY <2>3, <2>5, OneRunMoves DEF LookUp
<1> QED BY <1>4, <1>5

LEMMA ReadSourceKeeps == ASSUME IInv, NEW r \in Runs, ReadSource(r) PROVE IInv'
<1> DEFINE p == run[r]
           q == [run[r] EXCEPT !.source = script,
                   !.at = IF run[r].command = "check" THEN "analysing" ELSE "formatting"]
<1>1. ProcessOK(p, script.version, script.kind, library) /\ script \in Script
      /\ script.version \in Nat
  BY DEF IInv, Script
<1>2. p \in Process /\ p.at = "reading"
  BY <1>1, ProcessFacts DEF ReadSource
<1>3. q \in Process
  BY <1>1, <1>2 DEF Process, Places
<1>4. /\ q.at = IF p.command = "check" THEN "analysing" ELSE "formatting"
      /\ q.source = script /\ q.key = p.key /\ q.command = p.command
      /\ q.package = p.package /\ q.change = p.change /\ q.report = p.report
      /\ q.since = p.since
  BY <1>2 DEF Process
<1>5. run' = [run EXCEPT ![r] = q]
  BY DEF ReadSource
<1>6. p.command \in {"check", "format"}
  BY <1>2 DEF Process, Commands
<1> HIDE DEF p, q
<1>7. RunOK(p, script.version, script.kind, library)
  BY <1>1, ProcessFacts
<1>8. ReadOK(q, script.version, script.kind)
  <2>1. p.key <= script.version
    BY <1>2, <1>7, Zenon DEF RunOK
  <2>2. script.version <= script.version
    BY <1>1
  <2> QED BY <1>1, <1>4, <2>1, <2>2, Zenon DEF ReadOK
<1>9. RunOK(q, script.version, script.kind, library)
  BY <1>2, <1>4, <1>6, <1>7, <1>8, Zenon DEF RunOK
<1>10. ProcessOK(q, script.version, script.kind, library)
  BY <1>1, <1>3, <1>4, <1>9, Zenon DEF ProcessOK, ReportOK
<1> QED BY <1>5, <1>10, OneRunMoves DEF ReadSource

LEMMA ReadLibraryKeeps == ASSUME IInv, NEW r \in Runs, ReadLibrary(r) PROVE IInv'
<1> DEFINE p == run[r]
           q == [run[r] EXCEPT !.at = "fingerprinting", !.library = library]
<1>1. ProcessOK(p, script.version, script.kind, library) /\ library \in Nat
  BY DEF IInv
<1>2. p \in Process /\ p.at = "analysing"
  BY <1>1, ProcessFacts DEF ReadLibrary
<1>3. q \in Process
  BY <1>1, <1>2 DEF Process, Places
<1>4. /\ q.at = "fingerprinting" /\ q.library = library
      /\ q.source = p.source /\ q.key = p.key /\ q.command = p.command
      /\ q.package = p.package /\ q.change = p.change /\ q.report = p.report
      /\ q.since = p.since
  BY <1>2 DEF Process
<1>5. run' = [run EXCEPT ![r] = q]
  BY DEF ReadLibrary
<1> HIDE DEF p, q
<1>6. RunOK(p, script.version, script.kind, library)
  BY <1>1, ProcessFacts
<1>7. ReadOK(q, script.version, script.kind) /\ p.command = "check"
  BY <1>2, <1>4, <1>6, Zenon DEF RunOK, ReadOK
<1>8. library <= library
  BY <1>1
<1>9. RunOK(q, script.version, script.kind, library)
  BY <1>2, <1>4, <1>6, <1>7, <1>8, Zenon DEF RunOK
<1>10. ProcessOK(q, script.version, script.kind, library)
  BY <1>1, <1>3, <1>4, <1>9, Zenon DEF ProcessOK, ReportOK
<1> QED BY <1>5, <1>10, OneRunMoves DEF ReadLibrary

(* What a run inserts is right, and so is its report.                        *)
LEMMA InsertKeeps ==
  ASSUME IInv, NEW r \in Runs, NEW e \in CheckEntry \cup FormatEntry, Insert(r, e),
         UNCHANGED <<script, library, cache>>, run[r].at \notin {"idle", "keying"},
         EntryOK(run[r].command, e, script.version, script.kind, library),
         run[r].command = "check" /\ ~e.raced =>
           e.data.script >= run[r].since[1] /\ e.data.library >= run[r].since[2]
  PROVE  IInv'
<1> DEFINE p == run[r]
           q == [run[r] EXCEPT !.at = "persisting", !.change = e, !.report = e]
<1>1. ProcessOK(p, script.version, script.kind, library)
  BY DEF IInv
<1>2. p \in Process
  BY <1>1, ProcessFacts
<1>3. q \in Process
  BY <1>2 DEF Process, Places, Entry
<1>4. /\ q.at = "persisting" /\ q.key = p.key /\ q.command = p.command
      /\ q.package = p.package /\ q.change = e /\ q.report = e /\ q.since = p.since
  BY <1>2 DEF Process, Entry
<1>5. run' = [run EXCEPT ![r] = q]
  BY Zenon DEF Insert
<1>6. ReportOK(q)
  BY <1>4, Zenon DEF ReportOK
<1>7. p.at \notin {"idle", "keying"} /\ EntryOK(p.command, e, script.version, script.kind, library)
  OBVIOUS
<1> HIDE DEF p, q
<1>8. RunOK(q, script.version, script.kind, library)
  BY <1>1, <1>4, <1>7, ProcessFacts, Zenon DEF RunOK
<1>9. ProcessOK(q, script.version, script.kind, library)
  BY <1>1, <1>3, <1>4, <1>6, <1>7, <1>8, Zenon DEF ProcessOK
<1> QED BY <1>5, <1>9, OneRunMoves

LEMMA FingerprintKeeps == ASSUME IInv, NEW r \in Runs, Fingerprint(r) PROVE IInv'
<1> DEFINE p == run[r]
           e == [key |-> EntryKey(r), library |-> library, raced |-> run[r].raced,
                 data |-> [script |-> run[r].source.version, library |-> run[r].library]]
<1>1. ProcessOK(p, script.version, script.kind, library)
      /\ script.version \in Nat /\ library \in Nat
  BY DEF IInv, Script
<1>2. p \in Process /\ p.at = "fingerprinting"
  BY <1>1, ProcessFacts DEF Fingerprint
<1>3. p.key \in Nat /\ p.library \in Nat /\ p.raced \in BOOLEAN
      /\ p.since[1] \in Nat /\ p.since[2] \in Nat
  BY <1>2 DEF Process
<1>4. RunOK(p, script.version, script.kind, library)
  BY <1>1, ProcessFacts
<1>5. p.command = "check" /\ ReadOK(p, script.version, script.kind)
      /\ p.since[1] <= p.key /\ p.since[2] <= p.library /\ p.library <= library
      /\ (~p.raced => p.library = library)
  BY <1>2, <1>4, Zenon DEF RunOK
<1>6. p.source.version \in Nat /\ p.key <= p.source.version /\ p.source.version <= script.version
  BY <1>5 DEF ReadOK, Script
<1>7. e \in CheckEntry
  BY <1>1, <1>3, <1>6 DEF CheckEntry, EntryKey
<1>8. /\ e.key = p.key /\ e.library = library /\ e.raced = p.raced
      /\ e.data.script = p.source.version /\ e.data.library = p.library
  BY DEF EntryKey
<1>9. Insert(r, e) /\ UNCHANGED <<script, library, cache>> /\ run[r].at \notin {"idle", "keying"}
  BY <1>2 DEF Fingerprint
<1> HIDE DEF e
<1>10. CheckOK(e, script.version, library)
  BY <1>5, <1>6, <1>7, <1>8, Zenon DEF CheckOK
<1>11. EntryOK(p.command, e, script.version, script.kind, library)
  BY <1>5, <1>10 DEF EntryOK
<1>12. e.data.script >= p.since[1] /\ e.data.library >= p.since[2]
  BY <1>3, <1>5, <1>6, <1>8
<1> QED BY <1>7, <1>9, <1>11, <1>12, InsertKeeps

LEMMA FormatSettledKeeps == ASSUME IInv, NEW r \in Runs, FormatSettled(r) PROVE IInv'
<1> DEFINE p == run[r]
           e == [key |-> run[r].key, raced |-> FALSE, verdict |-> Verdict(run[r].source),
                 version |-> run[r].source.version]
<1>1. ProcessOK(p, script.version, script.kind, library) /\ script.version \in Nat
  BY DEF IInv, Script
<1>2. p \in Process /\ p.at = "formatting"
  BY <1>1, ProcessFacts DEF FormatSettled
<1>3. RunOK(p, script.version, script.kind, library) /\ p.key \in Nat
  BY <1>1, <1>2, ProcessFacts DEF Process
<1>4. p.command = "format" /\ ReadOK(p, script.version, script.kind)
  BY <1>2, <1>3, Zenon DEF RunOK
<1>5. /\ p.source.version \in Nat /\ p.source.kind \in Kinds
      /\ p.key <= p.source.version /\ p.source.version <= script.version
      /\ p.source.version = script.version => p.source.kind = script.kind
  BY <1>4 DEF ReadOK, Script
<1>6. e \in FormatEntry
  BY <1>3, <1>5 DEF FormatEntry, Verdict, Verdicts
<1>7. /\ e.key = p.key /\ e.raced = FALSE
      /\ e.verdict = IF p.source.kind = "broken" THEN "parse error" ELSE "unchanged"
  BY DEF Verdict
<1>8. Insert(r, e) /\ UNCHANGED <<script, library, cache>> /\ run[r].at \notin {"idle", "keying"}
      /\ p.source.kind # "unformatted"
  BY <1>2 DEF FormatSettled, KeepsSource
<1> HIDE DEF e
<1>9. FormatOK(e, script.version, script.kind)
  <2>1. p.key <= script.version /\ (p.key = script.version => p.source.version = script.version)
    BY <1>1, <1>3, <1>5
  <2>2. p.source.kind = IF e.verdict = "unchanged" THEN "formatted" ELSE "broken"
    BY <1>5, <1>7, <1>8 DEF Kinds
  <2> QED BY <1>5, <1>6, <1>7, <2>1, <2>2, Zenon DEF FormatOK
<1>10. EntryOK(p.command, e, script.version, script.kind, library)
  BY <1>4, <1>9 DEF EntryOK
<1> QED BY <1>4, <1>6, <1>8, <1>10, InsertKeeps

LEMMA FormatKeysKeeps == ASSUME IInv, NEW r \in Runs, FormatKeys(r) PROVE IInv'
<1> DEFINE p == run[r]
           e == [key |-> script.version, raced |-> run[r].raced, verdict |-> "unchanged",
                 version |-> script.version]
<1>1. ProcessOK(p, script.version, script.kind, library) /\ script.version \in Nat
  BY DEF IInv, Script
<1>2. p \in Process /\ p.at = "keying again"
  BY <1>1, ProcessFacts DEF FormatKeys
<1>3. RunOK(p, script.version, script.kind, library) /\ p.raced \in BOOLEAN
  BY <1>1, <1>2, ProcessFacts DEF Process
<1>4. p.command = "format" /\ (~p.raced => script.kind = "formatted")
  BY <1>2, <1>3, Zenon DEF RunOK
<1>5. e \in FormatEntry
  BY <1>1, <1>3 DEF FormatEntry, Verdicts
<1>6. e.key = script.version /\ e.raced = p.raced /\ e.verdict = "unchanged"
  OBVIOUS
<1>7. Insert(r, e) /\ UNCHANGED <<script, library, cache>> /\ run[r].at \notin {"idle", "keying"}
  BY <1>2 DEF FormatKeys
<1> HIDE DEF e
<1>8. script.version <= script.version
  BY <1>1
<1>9. FormatOK(e, script.version, script.kind)
  BY <1>4, <1>5, <1>6, <1>8, Zenon DEF FormatOK
<1>10. EntryOK(p.command, e, script.version, script.kind, library)
  BY <1>4, <1>9 DEF EntryOK
<1> QED BY <1>4, <1>5, <1>7, <1>10, InsertKeeps

LEMMA FormatReportsKeeps == ASSUME IInv, NEW r \in Runs, FormatReports(r) PROVE IInv'
<1> DEFINE p == run[r]
           q == [run[r] EXCEPT !.at = "persisting"]
<1>1. ProcessOK(p, script.version, script.kind, library)
  BY DEF IInv
<1>2. p \in Process /\ p.at = "formatting"
  BY <1>1, ProcessFacts DEF FormatReports
<1>3. q \in Process
  BY <1>2 DEF Process, Places
<1>4. /\ q.at = "persisting" /\ q.key = p.key /\ q.command = p.command
      /\ q.package = p.package /\ q.change = p.change /\ q.report = p.report
      /\ q.since = p.since
  BY <1>2 DEF Process
<1>5. run' = [run EXCEPT ![r] = q]
  BY DEF FormatReports, GoTo
<1> HIDE DEF p, q
<1>6. RunOK(q, script.version, script.kind, library)
  BY <1>1, <1>2, <1>4, Zenon DEF RunOK, ProcessOK
<1>7. ProcessOK(q, script.version, script.kind, library)
  BY <1>1, <1>3, <1>4, <1>6, Zenon DEF ProcessOK, ReportOK
<1> QED BY <1>5, <1>7, OneRunMoves DEF FormatReports

LEMMA KillKeeps == ASSUME IInv, NEW r \in Runs, Kill(r) PROVE IInv'
<1>1. ProcessOK(Idle, script.version, script.kind, library)
  BY IdleIsOK DEF IInv, Script
<1> QED BY <1>1, OneRunMoves DEF Kill

(* The files of the cache are replaced; the entries in them are right.       *)
LEMMA CacheMoves ==
  ASSUME IInv, UNCHANGED <<script, library>>,
         run' \in [Runs -> Process],
         \A r \in Runs : ProcessOK(run'[r], script.version, script.kind, library),
         cache' \in [Commands -> Entry],
         \A c \in Commands : EntryOK(c, cache'[c], script.version, script.kind, library)
  PROVE  IInv'
BY DEF IInv

LEMMA PersistKeeps == ASSUME IInv, NEW r \in Runs, Persist(r) PROVE IInv'
<1> DEFINE p == run[r]
           q == [Idle EXCEPT !.command = run[r].command, !.report = run[r].report,
                             !.since = run[r].since]
<1>1. ProcessOK(p, script.version, script.kind, library)
      /\ script.version \in Nat /\ library \in Nat
  BY DEF IInv, Script
<1>2. p \in Process /\ RunOK(p, script.version, script.kind, library) /\ ReportOK(p)
  BY <1>1, ProcessFacts
<1>3. p.command \in Commands /\ p.package \in Entry /\ p.change \in Entry
  BY <1>2 DEF Process
<1>4. q \in Process
  BY <1>2 DEF Process, Idle, Places, Entry
<1>5. /\ q.at = "idle" /\ q.command = p.command /\ q.package = None /\ q.change = None
      /\ q.report = p.report /\ q.since = p.since
  BY DEF Idle
<1>6. run' = [run EXCEPT ![r] = q]
  BY Zenon DEF Persist
<1>7. PICK kept \in {p.package, None} :
        cache' = IF p.change # None THEN [cache EXCEPT ![p.command] = p.change]
                 ELSE IF p.hit THEN [cache EXCEPT ![p.command] = kept]
                 ELSE cache
  BY Zenon DEF Persist
<1> HIDE DEF p, q
<1>8. ProcessOK(q, script.version, script.kind, library)
  <2>1. RunOK(q, script.version, script.kind, library)
    BY <1>2, <1>5, Zenon DEF RunOK
  <2> QED BY <1>1, <1>2, <1>4, <1>5, <2>1, Zenon DEF ProcessOK, EntryOK, ReportOK
<1>9. /\ run' \in [Runs -> Process]
      /\ \A o \in Runs : ProcessOK(run'[o], script.version, script.kind, library)
  BY <1>4, <1>6, <1>8 DEF IInv
<1>10. /\ cache' \in [Commands -> Entry]
       /\ \A c \in Commands : EntryOK(c, cache'[c], script.version, script.kind, library)
  <2>1. ASSUME NEW e \in Entry, cache' = [cache EXCEPT ![p.command] = e],
               EntryOK(p.command, e, script.version, script.kind, library)
        PROVE  <1>10!1 /\ <1>10!2
    BY <1>3, <2>1 DEF IInv
  <2>2. EntryOK(p.command, p.change, script.version, script.kind, library)
        /\ EntryOK(p.command, p.package, script.version, script.kind, library)
        /\ EntryOK(p.command, None, script.version, script.kind, library)
    BY <1>1 DEF ProcessOK, EntryOK
  <2>3. CASE p.change # None
    BY <1>3, <1>7, <2>1, <2>2, <2>3
  <2>4. CASE p.change = None /\ p.hit
    <3>1. kept \in Entry /\ EntryOK(p.command, kept, script.version, script.kind, library)
      BY <1>3, <2>2 DEF Entry
    <3> QED BY <1>7, <2>1, <2>4, <3>1
  <2>5. CASE p.change = None /\ ~p.hit
    BY <1>7, <2>5 DEF IInv
  <2> QED BY <2>3, <2>4, <2>5
<1> QED BY <1>9, <1>10, CacheMoves DEF Persist

LEMMA CleanKeeps == ASSUME IInv, Clean PROVE IInv'
<1>1. /\ cache' \in [Commands -> Entry]
      /\ \A c \in Commands : EntryOK(c, cache'[c], script.version, script.kind, library)
  BY DEF Clean, Entry, EntryOK
<1>2. /\ run' \in [Runs -> Process]
      /\ \A r \in Runs : ProcessOK(run'[r], script.version, script.kind, library)
  BY DEF Clean, IInv
<1> QED BY <1>1, <1>2, CacheMoves DEF Clean

-----------------------------------------------------------------------------
(* The files are written.                                                    *)
LEMMA AfterWriteIs ==
  ASSUME IInv, NEW step, NEW r \in Runs
  PROVE  /\ AfterWrite(step) \in [Runs -> Process]
         /\ Marked(run[r], AfterWrite(step)[r], step)
<1>1. \A o \in Runs : run[o] \in Process
  BY DEF IInv
<1>2. \A o \in Runs : AfterWrite(step)[o] = [run[o] EXCEPT !.raced = @ \/ run[o].at = step]
  BY Zenon DEF AfterWrite
<1>3. \A o \in Runs : Marked(run[o], AfterWrite(step)[o], step)
  <2> TAKE o \in Runs
  <2>1. Marked(run[o], [run[o] EXCEPT !.raced = @ \/ run[o].at = step], step)
    BY <1>1, MarksTypes
  <2> QED BY <1>2, <2>1, Zenon
<1>4. \A o \in Runs : AfterWrite(step)[o] \in Process
  BY <1>3, Zenon DEF Marked
<1>5. AfterWrite(step) \in [Runs -> Process]
  BY <1>4 DEF AfterWrite
<1> QED BY <1>3, <1>5

LEMMA WriteScriptKeeps == ASSUME IInv, NEW kind \in Kinds, WriteScript(kind) PROVE IInv'
<1>1. script.version \in Nat /\ library \in Nat
  BY DEF IInv, Script
<1>2. script' \in Script /\ script'.version = script.version + 1
  <2>1. script' = [version |-> script.version + 1, kind |-> kind] /\ kind \in Kinds
    BY Zenon DEF WriteScript
  <2>2. script.version + 1 \in Nat
    BY <1>1
  <2> QED BY <2>1, <2>2 DEF Script
<1>3. run' = AfterWrite("keying again") /\ UNCHANGED <<library, cache>>
  BY Zenon DEF WriteScript
<1>4. \A c \in Commands :
        EntryOK(c, cache[c], script.version + 1, script'.kind, library)
  BY <1>1, EntriesAfterScript DEF IInv
<1>5. run' \in [Runs -> Process]
  <2>1. CASE Runs = {}
    BY <1>3, <2>1 DEF AfterWrite
  <2>2. CASE Runs # {}
    BY <1>3, <2>2, AfterWriteIs
  <2> QED BY <2>1, <2>2
<1>6. ASSUME NEW r \in Runs
      PROVE  ProcessOK(run'[r], script.version + 1, script'.kind, library)
  <2>1. Marked(run[r], run'[r], "keying again")
    BY <1>3, AfterWriteIs
  <2>2. ProcessOK(run[r], script.version, script.kind, library)
    BY DEF IInv
  <2> QED BY <1>1, <2>1, <2>2, RunsAfterScript
<1> QED BY <1>1, <1>2, <1>3, <1>4, <1>5, <1>6 DEF IInv

LEMMA WriteLibraryKeeps == ASSUME IInv, WriteLibrary PROVE IInv'
<1>1. script.version \in Nat /\ library \in Nat
  BY DEF IInv, Script
<1>2. run' = AfterWrite("fingerprinting") /\ library' = library + 1 /\ UNCHANGED <<script, cache>>
  BY Zenon DEF WriteLibrary
<1>3. \A c \in Commands :
        EntryOK(c, cache[c], script.version, script.kind, library + 1)
  BY <1>1, EntriesAfterLibrary DEF IInv
<1>4. run' \in [Runs -> Process]
  <2>1. CASE Runs = {}
    BY <1>2, <2>1 DEF AfterWrite
  <2>2. CASE Runs # {}
    BY <1>2, <2>2, AfterWriteIs
  <2> QED BY <2>1, <2>2
<1>5. ASSUME NEW r \in Runs
      PROVE  ProcessOK(run'[r], script.version, script.kind, library + 1)
  <2>1. Marked(run[r], run'[r], "fingerprinting")
    BY <1>2, AfterWriteIs
  <2>2. ProcessOK(run[r], script.version, script.kind, library)
    BY DEF IInv
  <2> QED BY <1>1, <2>1, <2>2, RunsAfterLibrary
<1> QED BY <1>1, <1>2, <1>3, <1>4, <1>5 DEF IInv

LEMMA FormatWritesKeeps == ASSUME IInv, NEW r \in Runs, FormatWrites(r) PROVE IInv'
<1> DEFINE w == AfterWrite("keying again")
           p == w[r]
           q == [w[r] EXCEPT !.at = "keying again"]
<1>1. script.version \in Nat /\ library \in Nat
  BY DEF IInv, Script
<1>2. script' \in Script /\ script'.version = script.version + 1 /\ script'.kind = "formatted"
  <2>1. script' = [version |-> script.version + 1, kind |-> "formatted"] /\ "formatted" \in Kinds
    BY Zenon DEF FormatWrites, Kinds
  <2>2. script.version + 1 \in Nat
    BY <1>1
  <2> QED BY <2>1, <2>2 DEF Script
<1>3. run' = [w EXCEPT ![r] = q] /\ UNCHANGED <<library, cache>> /\ run[r].at = "formatting"
  BY Zenon DEF FormatWrites
<1>4. \A c \in Commands :
        EntryOK(c, cache[c], script.version + 1, "formatted", library)
  BY <1>1, EntriesAfterScript DEF IInv
<1>5. w \in [Runs -> Process]
  BY AfterWriteIs
<1>6. ASSUME NEW o \in Runs
      PROVE  ProcessOK(w[o], script.version + 1, "formatted", library)
  <2>1. Marked(run[o], w[o], "keying again")
    BY AfterWriteIs
  <2>2. ProcessOK(run[o], script.version, script.kind, library)
    BY DEF IInv
  <2> QED BY <1>1, <2>1, <2>2, RunsAfterScript
<1>7. p \in Process /\ p.at = "formatting"
  <2>1. Marked(run[r], p, "keying again")
    BY AfterWriteIs
  <2> QED BY <1>3, <1>5, <2>1 DEF Marked
<1>8. q \in Process
  BY <1>7 DEF Process, Places
<1>9. /\ q.at = "keying again" /\ q.key = p.key /\ q.command = p.command
      /\ q.package = p.package /\ q.change = p.change /\ q.report = p.report
      /\ q.since = p.since
  BY <1>7 DEF Process
<1>10. ProcessOK(p, script.version + 1, "formatted", library)
  BY <1>6
<1> HIDE DEF w, p, q
<1>11. RunOK(q, script.version + 1, "formatted", library)
  <2>1. RunOK(p, script.version + 1, "formatted", library)
    BY <1>10, ProcessFacts
  <2> QED BY <1>7, <1>9, <2>1, Zenon DEF RunOK
<1>12. ProcessOK(q, script.version + 1, "formatted", library)
  BY <1>8, <1>9, <1>10, <1>11, Zenon DEF ProcessOK, ReportOK
<1>13. /\ run' \in [Runs -> Process]
       /\ \A o \in Runs : ProcessOK(run'[o], script.version + 1, "formatted", library)
  BY <1>3, <1>5, <1>6, <1>8, <1>12
<1> QED BY <1>1, <1>2, <1>3, <1>4, <1>13 DEF IInv

-----------------------------------------------------------------------------
LEMMA StepsKeep == IInv /\ [Next]_vars => IInv'
<1> SUFFICES ASSUME IInv, [Next]_vars PROVE IInv'
  OBVIOUS
<1>1. CASE UNCHANGED vars
  BY <1>1 DEF vars, IInv
<1>2. ASSUME NEW kind \in Kinds, WriteScript(kind) PROVE IInv'
  BY <1>2, WriteScriptKeeps
<1>3. CASE WriteLibrary
  BY <1>3, WriteLibraryKeeps
<1>4. CASE Clean
  BY <1>4, CleanKeeps
<1>5. ASSUME NEW r \in Runs, Step(r) PROVE IInv'
  BY <1>5, OpenKeeps, TakeKeyKeeps, LookUpKeeps, ReadSourceKeeps, ReadLibraryKeeps,
     FingerprintKeeps, FormatSettledKeeps, FormatReportsKeeps, FormatWritesKeeps,
     FormatKeysKeeps, PersistKeeps, KillKeeps, Zenon DEF Step
<1> QED BY <1>1, <1>2, <1>3, <1>4, <1>5, Zenon DEF Next

(* The invariant holds for every set of processes and every number of runs   *)
(* and writes.                                                              *)
THEOREM CacheInvariant == Spec => []IInv
BY InitIsOK, StepsKeep, PTL DEF Spec

(* A check result whose keys match the disk was made from what is on disk    *)
(* (CheckCacheData::from_displayed, take_pending_files).                     *)
THEOREM CheckResultsAreSound == Spec => []CheckSound
<1>1. IInv => CheckSound
  BY InvariantSuffices
<1> QED BY <1>1, CacheInvariant, PTL

(* A file whose key is in the format cache is as its entry says              *)
(* (format_pending_file).                                                   *)
THEOREM FormatResultsAreSound == Spec => []FormatSound
<1>1. IInv => FormatSound
  BY InvariantSuffices
<1> QED BY <1>1, CacheInvariant, PTL

(* A check reports nothing older than its own run, from the cache or not.    *)
THEOREM ReportsAreOfTheirRun == Spec => []ReportOfThisRun
<1>1. IInv => ReportOfThisRun
  BY InvariantSuffices
<1> QED BY <1>1, CacheInvariant, PTL
=============================================================================
