--------------------------- MODULE WorkspaceIndex ----------------------------
(***************************************************************************)
(* The session's cross-file index (handlers/workspace_functions.rs): built  *)
(* on the threads of the requests that miss it, outside its lock, while the *)
(* main loop invalidates it and the files it reads change on disk.          *)
(*                                                                         *)
(* Two closed files stand for the workspace: the facts kept of Loader, its  *)
(* projection, depend on the content of Library, which it sources.  The     *)
(* open documents of a build are those of its snapshot, so the epoch stands *)
(* for them.  workspace_function_index and completion_workspace_function_   *)
(* index take the same way to an index and are the "guarded" calls; the     *)
(* function tables they derive from it change no shared state.              *)
(***************************************************************************)
EXTENDS Naturals, FiniteSets

CONSTANTS
  Calls,     \* threads that call for an index
  Contents,  \* contents of a file
  Nobody,    \* model value: the building mutex is free
  MaxEpoch,  \* bound: how often the index is invalidated
  MaxWrites, \* bound: how often a file is written
  MaxCalls   \* bound: how many calls there are

ASSUME ContentsAssumption == Contents # {}
ASSUME NobodyAssumption == Nobody \notin Calls
ASSUME BoundsAssumption == MaxEpoch \in Nat /\ MaxWrites \in Nat /\ MaxCalls \in Nat

VARIABLES
  disk,      \* content of each file
  writes,    \* how often a file was written
  epoch,     \* WorkspaceFunctionIndexCache.epoch
  built,     \* the index stored last, with its epoch and the kind of call
  building,  \* holder of the building mutex
  retained,  \* projections: what is kept of each file between builds
  call,      \* the call of each thread
  started    \* how many calls there were

diskVars == <<disk, writes>>
cacheVars == <<epoch, built, building, retained>>
vars == <<diskVars, cacheVars, call, started>>

Files == {"loader", "library"}
None == [none |-> TRUE]

(* What a build keeps of a file: its source, and for the loader the content  *)
(* of the library that its facts were made with (DependencyFingerprint).     *)
Projection == [source : Contents, library : Contents]
Index == [Files -> Projection]

Idle == [at |-> "idle", kind |-> "guarded", epoch |-> 0, cancelled |-> FALSE,
         previous |-> None, read |-> [f \in Files |-> None], files |-> <<>>,
         result |-> None, seen |-> [f \in Files |-> {}]]

Init ==
  /\ disk = [f \in Files |-> CHOOSE s \in Contents : TRUE]
  /\ writes = 0
  /\ epoch = 0
  /\ built = None
  /\ building = Nobody
  /\ retained = [f \in Files |-> None]
  /\ call = [c \in Calls |-> Idle]
  /\ started = 0

-----------------------------------------------------------------------------
(* The main loop, and whoever writes the files.                             *)

(* A snapshot is taken and a request started on it.                          *)
Start(c) ==
  /\ call[c].at \in {"idle", "returned"}
  /\ started < MaxCalls
  /\ started' = started + 1
  /\ \E kind \in {"guarded", "fresh", "cached"} :
       call' = [call EXCEPT ![c] =
         [Idle EXCEPT !.at = "checking", !.kind = kind, !.epoch = epoch,
                      !.seen = [f \in Files |-> {disk[f]}]]]
  /\ UNCHANGED <<diskVars, cacheVars>>

Cancel(c) ==
  /\ call[c].at \notin {"idle", "returned"}
  /\ ~call[c].cancelled
  /\ call' = [call EXCEPT ![c].cancelled = TRUE]
  /\ UNCHANGED <<diskVars, cacheVars, started>>

(* invalidate: the index stored last remains, for the next build to reuse.   *)
Invalidate ==
  /\ epoch < MaxEpoch
  /\ epoch' = epoch + 1
  /\ UNCHANGED <<diskVars, built, building, retained, call, started>>

(* A file changes and no watcher has told the server yet.                    *)
Write ==
  /\ writes < MaxWrites
  /\ writes' = writes + 1
  /\ \E f \in Files : \E s \in Contents \ {disk[f]} :
       /\ disk' = [disk EXCEPT ![f] = s]
       /\ call' = [c \in Calls |->
            IF call[c].at \in {"idle", "returned"} THEN call[c]
            ELSE [call[c] EXCEPT !.seen[f] = @ \cup {s}]]
  /\ UNCHANGED <<cacheVars, started>>

-----------------------------------------------------------------------------
(* A call.                                                                 *)
GoTo(c, place) == call' = [call EXCEPT ![c].at = place]

(* A guarded call drops the building mutex as it returns.                    *)
Released(c) == IF building = c THEN Nobody ELSE building

Ended(c, index) ==
  [Idle EXCEPT !.at = "returned", !.kind = call[c].kind, !.result = index,
               !.seen = IF index = None THEN @ ELSE call[c].seen]

(* Mutant: a call that gives up keeps the mutex.                             *)
GiveUpHolding(c) ==
  /\ call' = [call EXCEPT ![c] = Ended(c, None)]
  /\ UNCHANGED <<diskVars, epoch, built, building, retained>>

GiveUp(c) ==
  /\ call' = [call EXCEPT ![c] = Ended(c, None)]
  /\ building' = Released(c)
  /\ UNCHANGED <<diskVars, epoch, built, retained>>

Return(c, index) ==
  /\ call' = [call EXCEPT ![c] = Ended(c, index)]
  /\ building' = Released(c)

(* The check before and after every part of a build.                         *)
Over(c) == call[c].cancelled \/ epoch # call[c].epoch

Hit(c) == built # None /\ built.epoch = call[c].epoch /\ epoch = call[c].epoch

(* Mutant: a mutation request takes an index that is there.                  *)
TrustsCacheAlways(c) == TRUE

(* fresh_workspace_function_index looks up no index.                         *)
TrustsCache(c) == call[c].kind # "fresh"

Check(c) ==
  /\ call[c].at = "checking"
  /\ \/ Over(c) /\ GiveUp(c)
     \/ /\ ~Over(c)
        /\ IF TrustsCache(c)
             THEN call' = [call EXCEPT ![c].at = "looking up"]
             ELSE call' = [call EXCEPT ![c].at = "reading loader",
                                       ![c].previous = IF built = None THEN None ELSE built.files]
        /\ UNCHANGED <<diskVars, cacheVars>>

(* `get`, before the building mutex is asked for.                            *)
LookUp(c) ==
  /\ call[c].at = "looking up"
  /\ \/ /\ Hit(c)
        /\ Return(c, built.files)
        /\ UNCHANGED <<diskVars, epoch, built, retained>>
     \/ /\ ~Hit(c)
        /\ call[c].kind = "cached"
        /\ GiveUp(c)
     \/ /\ ~Hit(c)
        /\ call[c].kind # "cached"
        /\ GoTo(c, "waiting")
        /\ UNCHANGED <<diskVars, cacheVars>>

(* build_guard polls: between two tries the call may have become pointless.  *)
Acquire(c) ==
  /\ call[c].at = "waiting"
  /\ \/ Over(c) /\ GiveUp(c)
     \/ /\ ~Over(c)
        /\ building = Nobody
        /\ building' = c
        /\ GoTo(c, "looking again")
        /\ UNCHANGED <<diskVars, epoch, built, retained>>

(* Mutant: the index is not looked up again under the mutex.                 *)
HitAgainNever(c) == FALSE

HitAgain(c) == Hit(c)

(* `get` again, then `build` with the index stored last as `previous`.       *)
LookAgain(c) ==
  /\ call[c].at = "looking again"
  /\ \/ /\ HitAgain(c)
        /\ Return(c, built.files)
        /\ UNCHANGED <<diskVars, epoch, built, retained>>
     \/ /\ ~HitAgain(c)
        /\ call' = [call EXCEPT ![c].at = "reading loader",
                                ![c].previous = IF built = None THEN None ELSE built.files]
        /\ UNCHANGED <<diskVars, cacheVars>>

-----------------------------------------------------------------------------
(* build_projections: one file after the other.  WorkspacePathProvider keeps *)
(* what it read of a path to the end of the build.                          *)

ReadLoader(c) ==
  /\ call[c].at = "reading loader"
  /\ \/ Over(c) /\ GiveUp(c)
     \/ /\ ~Over(c)
        /\ call' = [call EXCEPT ![c].at = "projecting loader",
                                ![c].read["loader"] = disk["loader"]]
        /\ UNCHANGED <<diskVars, cacheVars>>

(* prepare_file: what is known of a file is that of the last index if the    *)
(* source is the same, and else what was retained of it.                     *)
Known(c, f) ==
  IF call[c].previous # None /\ call[c].previous[f].source = call[c].read[f]
    THEN call[c].previous[f] ELSE retained[f]

(* Mutant: facts are reused while the file itself is unchanged.              *)
ReusableIfSameSource(known, source, library) ==
  known # None /\ known.source = source

Reusable(known, source, library) ==
  known # None /\ known.source = source /\ known.library = library

Prepared(known, source, library) ==
  IF Reusable(known, source, library) THEN known
  ELSE [source |-> source, library |-> library]

(* The library is read when the loader's facts are checked or made.          *)
ProjectLoader(c) ==
  /\ call[c].at = "projecting loader"
  /\ LET library == disk["library"]
         loader == Prepared(Known(c, "loader"), call[c].read["loader"], library)
     IN  /\ call' = [call EXCEPT ![c].at = "projecting library",
                                 ![c].read["library"] = library,
                                 ![c].files = [f \in {"loader"} |-> loader]]
         /\ retained' = [retained EXCEPT !["loader"] = loader]
  /\ UNCHANGED <<diskVars, epoch, built, building>>

ProjectLibrary(c) ==
  /\ call[c].at = "projecting library"
  /\ \/ Over(c) /\ GiveUp(c)
     \/ /\ ~Over(c)
        /\ LET source == call[c].read["library"]
               library == Prepared(Known(c, "library"), source, source)
           IN  /\ call' = [call EXCEPT ![c].at = "built",
                             ![c].files = [f \in Files |->
                                IF f = "library" THEN library ELSE call[c].files[f]]]
               /\ retained' = [retained EXCEPT !["library"] = library]
        /\ UNCHANGED <<diskVars, epoch, built, building>>

Recheck(c) ==
  /\ call[c].at = "built"
  /\ \/ Over(c) /\ GiveUp(c)
     \/ ~Over(c) /\ GoTo(c, "storing") /\ UNCHANGED <<diskVars, cacheVars>>

(* Mutant: an index is stored whatever the epoch is by now.                  *)
StoresAlways(c) == TRUE

Stores(c) == epoch = call[c].epoch

(* `store`, then the call returns what it built even if it was not stored.   *)
Store(c) ==
  /\ call[c].at = "storing"
  /\ built' = IF Stores(c)
                THEN [epoch |-> call[c].epoch, files |-> call[c].files, by |-> call[c].kind]
                ELSE built
  /\ Return(c, call[c].files)
  /\ UNCHANGED <<diskVars, epoch, retained>>

Step(c) ==
  /\ \/ Check(c) \/ LookUp(c) \/ Acquire(c) \/ LookAgain(c)
     \/ ReadLoader(c) \/ ProjectLoader(c) \/ ProjectLibrary(c)
     \/ Recheck(c) \/ Store(c)
  /\ UNCHANGED started

Next ==
  \/ Invalidate
  \/ Write
  \/ \E c \in Calls : Start(c) \/ Cancel(c) \/ Step(c)

Spec == Init /\ [][Next]_vars

(* Each call runs on a thread of its own.                                    *)
FairSpec == Spec /\ \A c \in Calls : WF_vars(Step(c))

-----------------------------------------------------------------------------
Inside == {"looking again", "reading loader", "projecting loader", "projecting library",
           "built", "storing"}

(* Types, the building mutex, and that no index is stored for an epoch that  *)
(* has not come.                                                            *)
TypeOK ==
  /\ disk \in [Files -> Contents]
  /\ epoch \in Nat /\ writes \in Nat
  /\ built # None => built.files \in Index /\ built.epoch <= epoch
  /\ \A f \in Files : retained[f] \in Projection \cup {None}
  /\ \A c \in Calls :
       /\ call[c].epoch <= epoch
       /\ building = c <=> call[c].at \in Inside /\ call[c].kind = "guarded"

(* An index is of one piece: the loader's facts were made with the library   *)
(* the index holds, though parts come from earlier builds, other epochs and  *)
(* other threads, and files change in between (prepare_file).                *)
Coherent ==
  \A index \in {built.files : b \in {built} \ {None}}
               \cup {call[c].result : c \in {c \in Calls : call[c].result # None}} :
    index["loader"].library = index["library"].source

(* A mutation request sees every file as it was after the request began,     *)
(* whether or not a watcher told of the change                              *)
(* (fresh_workspace_function_index).                                        *)
FreshSeesDisk ==
  \A c \in Calls :
    call[c].kind = "fresh" /\ call[c].result # None =>
      \A f \in Files : call[c].result[f].source \in call[c].seen[f]

(* Requests that wait for a build do not repeat it: when a guarded build     *)
(* runs and the present epoch has an index, a mutation request built that.   *)
NoRepeatedBuild ==
  \A c \in Calls :
    /\ call[c].kind = "guarded"
    /\ call[c].at \in Inside \ {"looking again"}
    /\ built # None
    /\ built.epoch = call[c].epoch
    /\ epoch = call[c].epoch
    => built.by = "fresh"

(* The index stored last never gives way to one of an earlier epoch, so what *)
(* the watcher and the next build take from it is the newest there is.       *)
BuiltNeverFalls ==
  [][built # None => built'.epoch >= built.epoch]_built

(* Every call comes back, whoever holds the mutex and however often the      *)
(* index is invalidated.                                                    *)
EveryCallReturns ==
  \A c \in Calls : (call[c].at = "checking") ~> (call[c].at = "returned")
=============================================================================
