----------------------------- MODULE ResultCache -----------------------------
(***************************************************************************)
(* The result cache on disk (shucked-cache/src/lib.rs) as `shucked check`   *)
(* and `shucked format` use it (shucked-cli/src/commands): runs of both     *)
(* side by side, each killed at any point, while an editor writes the       *)
(* files.                                                                  *)
(*                                                                         *)
(* One script stands for the inputs, and one library for what the analysis  *)
(* of the script reads besides it (a sourced file, or a missing candidate   *)
(* that may appear).  A version stands for a content and for its            *)
(* FileCacheKey, whose change time no write repeats.  Check and format keep *)
(* their results in files of their own (cache_tag).  The rule               *)
(* UnusedAssignment, which brings a comparison of its own, is not selected. *)
(***************************************************************************)
EXTENDS Naturals

CONSTANTS
  Runs,      \* processes
  MaxWrites, \* bound: how often a file is written
  MaxRuns    \* bound: how many runs there are

ASSUME BoundsAssumption == MaxWrites \in Nat /\ MaxRuns \in Nat

VARIABLES
  script,   \* version and kind of the script
  library,  \* version of the library
  cache,    \* the entry of the script in each command's cache file
  run,      \* the run of each process
  started   \* how many runs there were

vars == <<script, library, cache, run, started>>

Commands == {"check", "format"}
Kinds == {"formatted", "unformatted", "broken"}
Verdicts == {"unchanged", "parse error"}
Script == [version : Nat, kind : Kinds]
None == [none |-> TRUE]

(* CachedFile.  "data" is what the diagnostics of a check were made from and *)
(* the verdict of a format.  "raced" is not in the code: a file was written  *)
(* between the step that used it and the step that took its key.             *)
CheckEntry == [key : Nat, library : Nat, raced : BOOLEAN,
               data : [script : Nat, library : Nat]]
FormatEntry == [key : Nat, raced : BOOLEAN, verdict : Verdicts, version : Nat]

Idle == [at |-> "idle", command |-> "check", package |-> None, change |-> None, hit |-> FALSE,
         key |-> 0, source |-> None, library |-> 0, raced |-> FALSE,
         report |-> None, since |-> <<0, 0>>]

Init ==
  /\ script \in [version : {0}, kind : Kinds]
  /\ library = 0
  /\ cache = [c \in Commands |-> None]
  /\ run = [r \in Runs |-> Idle]
  /\ started = 0

-----------------------------------------------------------------------------
(* The files.                                                              *)

(* Whoever is between reading a file and taking its key has lost the race.   *)
AfterWrite(step) ==
  [r \in Runs |-> [run[r] EXCEPT !.raced = @ \/ run[r].at = step]]

WriteScript(kind) ==
  /\ script.version + library < MaxWrites
  /\ script' = [version |-> script.version + 1, kind |-> kind]
  /\ run' = AfterWrite("keying again")
  /\ UNCHANGED <<library, cache, started>>

(* The library is written, created or deleted.                               *)
WriteLibrary ==
  /\ script.version + library < MaxWrites
  /\ library' = library + 1
  /\ run' = AfterWrite("fingerprinting")
  /\ UNCHANGED <<script, cache, started>>

-----------------------------------------------------------------------------
(* A run of either command.                                                *)
GoTo(r, place) == run' = [run EXCEPT ![r].at = place]

(* PackageCache::open.  A file that is missing or cannot be decoded gives an *)
(* empty package.                                                          *)
Open(r) ==
  /\ run[r].at = "idle"
  /\ started < MaxRuns
  /\ started' = started + 1
  /\ \E c \in Commands :
       run' = [run EXCEPT ![r] =
         [Idle EXCEPT !.at = "keying", !.command = c, !.package = cache[c],
                      !.since = <<script.version, library>>]]
  /\ UNCHANGED <<script, library, cache>>

(* take_pending_files: the key is taken before the cache is asked and before *)
(* the file is read.                                                       *)
TakeKey(r) ==
  /\ run[r].at = "keying"
  /\ run' = [run EXCEPT ![r].at = "looking up", ![r].key = script.version]
  /\ UNCHANGED <<script, library, cache, started>>

(* Mutant: a hit stands whatever its dependencies are now.                   *)
DependenciesMatchAlways(entry) == TRUE

DependenciesMatch(entry) == entry.library = library

Hit(r) ==
  LET entry == run[r].package
  IN  /\ entry # None
      /\ entry.key = run[r].key
      /\ run[r].command = "check" => DependenciesMatch(entry)

LookUp(r) ==
  /\ run[r].at = "looking up"
  /\ run' = IF Hit(r)
              THEN [run EXCEPT ![r].at = "persisting", ![r].hit = TRUE,
                               ![r].report = run[r].package]
              ELSE [run EXCEPT ![r].at = "reading"]
  /\ UNCHANGED <<script, library, cache, started>>

ReadSource(r) ==
  /\ run[r].at = "reading"
  /\ run' = [run EXCEPT ![r].source = script,
               ![r].at = IF run[r].command = "check" THEN "analysing" ELSE "formatting"]
  /\ UNCHANGED <<script, library, cache, started>>

(* What a run found is reported, and inserted to be persisted.               *)
Insert(r, entry) ==
  run' = [run EXCEPT ![r].at = "persisting", ![r].change = entry, ![r].report = entry]

-----------------------------------------------------------------------------
(* shucked check.                                                          *)

(* analyze_shell_file: the semantic model reads what the script sources.     *)
ReadLibrary(r) ==
  /\ run[r].at = "analysing"
  /\ run' = [run EXCEPT ![r].at = "fingerprinting", ![r].library = library]
  /\ UNCHANGED <<script, library, cache, started>>

(* Mutant: the key is that of the file when its analysis is there.           *)
EntryKeyNow(r) == script.version

EntryKey(r) == run[r].key

(* CheckCacheData::from_displayed takes the keys of the dependencies only    *)
(* now.                                                                    *)
Fingerprint(r) ==
  /\ run[r].at = "fingerprinting"
  /\ Insert(r, [key |-> EntryKey(r), library |-> library, raced |-> run[r].raced,
                data |-> [script |-> run[r].source.version, library |-> run[r].library]])
  /\ UNCHANGED <<script, library, cache, started>>

-----------------------------------------------------------------------------
(* shucked format.                                                         *)
Verdict(source) == IF source.kind = "broken" THEN "parse error" ELSE "unchanged"

(* Mutant: a file that is not formatted counts as unchanged without a write. *)
KeepsSourceAlways(source) == TRUE

KeepsSource(source) == source.kind # "unformatted"

(* format_pending_file, of a file that is formatted or cannot be parsed.     *)
FormatSettled(r) ==
  /\ run[r].at = "formatting"
  /\ KeepsSource(run[r].source)
  /\ Insert(r, [key |-> run[r].key, raced |-> FALSE, verdict |-> Verdict(run[r].source),
                version |-> run[r].source.version])
  /\ UNCHANGED <<script, library, cache, started>>

(* --check and --diff insert nothing for a file that is not formatted.       *)
FormatReports(r) ==
  /\ run[r].at = "formatting"
  /\ ~KeepsSource(run[r].source)
  /\ GoTo(r, "persisting")
  /\ UNCHANGED <<script, library, cache, started>>

(* The formatted text is written over whatever is in the file by now.        *)
FormatWrites(r) ==
  /\ run[r].at = "formatting"
  /\ ~KeepsSource(run[r].source)
  /\ script' = [version |-> script.version + 1, kind |-> "formatted"]
  /\ run' = [AfterWrite("keying again") EXCEPT ![r].at = "keying again"]
  /\ UNCHANGED <<library, cache, started>>

(* The key is taken again from the path.                                    *)
FormatKeys(r) ==
  /\ run[r].at = "keying again"
  /\ Insert(r, [key |-> script.version, raced |-> run[r].raced, verdict |-> "unchanged",
                version |-> script.version])
  /\ UNCHANGED <<script, library, cache, started>>

-----------------------------------------------------------------------------
(* PackageCache::persist: a temporary file takes the place of the old one.   *)
(* A run that saw nothing writes nothing; an entry that was hit may be old   *)
(* enough to be pruned.                                                     *)
Persist(r) ==
  /\ run[r].at = "persisting"
  /\ \E kept \in {run[r].package, None} :
       cache' = IF run[r].change # None
                  THEN [cache EXCEPT ![run[r].command] = run[r].change]
                ELSE IF run[r].hit
                  THEN [cache EXCEPT ![run[r].command] = kept]
                ELSE cache
  /\ run' = [run EXCEPT ![r] = [Idle EXCEPT !.command = run[r].command,
                                            !.report = run[r].report, !.since = run[r].since]]
  /\ UNCHANGED <<script, library, started>>

(* The process is killed.                                                   *)
Kill(r) ==
  /\ run[r].at # "idle"
  /\ run' = [run EXCEPT ![r] = Idle]
  /\ UNCHANGED <<script, library, cache, started>>

(* shucked clean removes the files of both commands.                        *)
Clean ==
  /\ cache # [c \in Commands |-> None]
  /\ cache' = [c \in Commands |-> None]
  /\ UNCHANGED <<script, library, run, started>>

Step(r) ==
  \/ Open(r) \/ TakeKey(r) \/ LookUp(r) \/ ReadSource(r) \/ ReadLibrary(r) \/ Fingerprint(r)
  \/ FormatSettled(r) \/ FormatReports(r) \/ FormatWrites(r) \/ FormatKeys(r)
  \/ Persist(r) \/ Kill(r)

Next ==
  \/ \E kind \in Kinds : WriteScript(kind)
  \/ WriteLibrary
  \/ Clean
  \/ \E r \in Runs : Step(r)

Spec == Init /\ [][Next]_vars

-----------------------------------------------------------------------------
(* The entries a later run may come to use, in the file or in a process.     *)
EntriesOf(command) ==
  ({cache[command]} \cup {run[r].package : r \in {r \in Runs : run[r].command = command}}
                    \cup {run[r].change : r \in {r \in Runs : run[r].command = command}})
    \ {None}

(* A check result whose keys match the disk was made from what is on disk,   *)
(* whichever runs overlapped and were killed, unless a dependency was        *)
(* written between its analysis and its fingerprint (from_displayed).        *)
CheckSound ==
  \A entry \in EntriesOf("check") :
    entry.key = script.version /\ entry.library = library /\ ~entry.raced
      => entry.data = [script |-> script.version, library |-> library]

(* A file whose key is in the format cache is formatted, or cannot be        *)
(* parsed, as the entry says, unless somebody wrote it between the           *)
(* formatter's write and the key taken after it (format_pending_file).       *)
FormatSound ==
  \A entry \in EntriesOf("format") :
    entry.key = script.version /\ ~entry.raced
      => IF entry.verdict = "unchanged" THEN script.kind = "formatted"
                                        ELSE script.kind = "broken"

(* What a check reports comes from the files as they were after the run      *)
(* began, from the cache or not, unless an entry that lost the race above    *)
(* is used.                                                                *)
ReportOfThisRun ==
  \A r \in Runs :
    /\ run[r].command = "check"
    /\ run[r].report # None
    /\ ~run[r].report.raced
    => /\ run[r].report.data.script >= run[r].since[1]
       /\ run[r].report.data.library >= run[r].since[2]
=============================================================================
