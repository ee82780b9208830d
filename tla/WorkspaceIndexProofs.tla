------------------------ MODULE WorkspaceIndexProofs -------------------------
(***************************************************************************)
(* The cross-file index is right for any number of threads, contents,       *)
(* writes and invalidations.  While a call builds, what it has read of each *)
(* file is among what the file held since the call began, and the loader's  *)
(* facts carry the content of the library that goes into the index; the     *)
(* building mutex is held by exactly the guarded calls that build.  No call  *)
(* ever goes back, and none waits for one that waits.                       *)
(***************************************************************************)
EXTENDS WorkspaceIndex, TLAPS

Kinds == {"guarded", "fresh", "cached"}

Places == {"idle", "returned", "checking", "looking up", "waiting"} \cup Inside

Stored == [epoch : Nat, files : Index, by : Kinds]

CallRecord ==
  [at : Places, kind : Kinds, epoch : Nat, cancelled : BOOLEAN,
   previous : Index \cup {None}, read : [Files -> Contents \cup {None}],
   files : {<<>>} \cup [{"loader"} -> Projection] \cup Index,
   result : Index \cup {None}, seen : [Files -> SUBSET Contents]]

(* An index of one piece, and files read since `seen` began.                 *)
Piece(index) == index["loader"].library = index["library"].source

ReadSince(index, seen) == \A f \in Files : index[f].source \in seen[f]

(* How far a build has come.                                                 *)
BuildOK(k) ==
  /\ k.at = "projecting loader" =>
       k.read["loader"] \in Contents /\ k.read["loader"] \in k.seen["loader"]
  /\ k.at = "projecting library" =>
       /\ k.files \in [{"loader"} -> Projection]
       /\ k.files["loader"].source \in k.seen["loader"]
       /\ k.files["loader"].library = k.read["library"]
       /\ k.read["library"] \in Contents /\ k.read["library"] \in k.seen["library"]
  /\ k.at \in {"built", "storing"} =>
       k.files \in Index /\ Piece(k.files) /\ ReadSince(k.files, k.seen)

(* Which call goes where: one that trusts no index builds without the mutex, *)
(* and one that only asks never builds.                                     *)
WayOK(k) ==
  /\ k.at \in {"looking up", "waiting", "looking again"} => k.kind # "fresh"
  /\ k.at \in {"waiting"} \cup Inside => k.kind # "cached"

ResultOK(k) ==
  k.result # None =>
    /\ Piece(k.result)
    /\ k.kind = "fresh" => ReadSince(k.result, k.seen)

SeenOK(k, d) == k.at \notin {"idle", "returned"} => \A f \in Files : d[f] \in k.seen[f]

CallOK(k, d, e) ==
  /\ k \in CallRecord
  /\ k.epoch <= e
  /\ SeenOK(k, d)
  /\ WayOK(k)
  /\ BuildOK(k)
  /\ ResultOK(k)

StoredOK(b, e) == b = None \/ (b \in Stored /\ b.epoch <= e /\ Piece(b.files))

Holds(k) == k.at \in Inside /\ k.kind = "guarded"

(* NoRepeatedBuild of one call.                                              *)
NotRepeating(k, b, e) ==
  /\ Holds(k) /\ k.at # "looking again"
  /\ b # None /\ b.epoch = k.epoch /\ e = k.epoch
  => b.by = "fresh"

SharedOK ==
  /\ disk \in [Files -> Contents]
  /\ writes \in Nat /\ epoch \in Nat /\ started \in Nat
  /\ building \in Calls \cup {Nobody}
  /\ retained \in [Files -> Projection \cup {None}]
  /\ StoredOK(built, epoch)

IInv ==
  /\ SharedOK
  /\ call \in [Calls -> CallRecord]
  /\ \A c \in Calls : CallOK(call[c], disk, epoch)
  /\ \A c \in Calls : building = c <=> Holds(call[c])
  /\ \A c \in Calls : NotRepeating(call[c], built, epoch)

-----------------------------------------------------------------------------
(* The invariant gives the properties.                                       *)
LEMMA InvariantSuffices ==
  IInv => TypeOK /\ Coherent /\ FreshSeesDisk /\ NoRepeatedBuild
<1> SUFFICES ASSUME IInv PROVE TypeOK /\ Coherent /\ FreshSeesDisk /\ NoRepeatedBuild
  OBVIOUS
<1>1. TypeOK
  <2>1. disk \in [Files -> Contents] /\ epoch \in Nat /\ writes \in Nat
    BY DEF IInv, SharedOK
  <2>2. built # None => built.files \in Index /\ built.epoch <= epoch
    BY DEF IInv, SharedOK, StoredOK, Stored
  <2>3. \A f \in Files : retained[f] \in Projection \cup {None}
    BY DEF IInv, SharedOK
  <2>4. \A c \in Calls : call[c].epoch <= epoch
    BY DEF IInv, CallOK
  <2>5. \A c \in Calls : building = c <=> call[c].at \in Inside /\ call[c].kind = "guarded"
    BY DEF IInv, Holds
  <2> QED BY <2>1, <2>2, <2>3, <2>4, <2>5 DEF TypeOK
<1>2. Coherent
  BY Zenon DEF Coherent, IInv, SharedOK, StoredOK, CallOK, ResultOK, Piece
<1>3. FreshSeesDisk
  BY DEF FreshSeesDisk, IInv, CallOK, ResultOK, ReadSince
<1>4. NoRepeatedBuild
  BY DEF NoRepeatedBuild, IInv, NotRepeating, Holds
<1> QED BY <1>1, <1>2, <1>3, <1>4

-----------------------------------------------------------------------------
(* The initial states satisfy the invariant.                                 *)
LEMMA IdleIsOK ==
  ASSUME NEW d, NEW e \in Nat
  PROVE  CallOK(Idle, d, e) /\ ~Holds(Idle)
<1>1. Idle \in CallRecord
  BY DEF Idle, CallRecord, Places, Kinds
<1>2. Idle.at = "idle" /\ Idle.epoch = 0 /\ Idle.result = None
  BY DEF Idle
<1>3. ~Holds(Idle)
  BY <1>2 DEF Holds, Inside
<1> QED BY <1>1, <1>2, <1>3 DEF CallOK, SeenOK, WayOK, BuildOK, ResultOK, Inside

LEMMA InitIsOK == Init => IInv
<1> SUFFICES ASSUME Init PROVE IInv
  OBVIOUS
<1>1. \E s \in Contents : TRUE
  BY ContentsAssumption
<1>2. (CHOOSE s \in Contents : TRUE) \in Contents
  BY <1>1
<1>3. SharedOK
  BY <1>2 DEF Init, SharedOK, StoredOK
<1>4. \A c \in Calls : call[c] = Idle /\ CallOK(call[c], disk, epoch) /\ ~Holds(call[c])
  BY IdleIsOK DEF Init
<1>5. call \in [Calls -> CallRecord]
  BY <1>4 DEF Init, CallOK
<1>6. \A c \in Calls : building = c <=> Holds(call[c])
  BY <1>4, NobodyAssumption DEF Init
<1>7. \A c \in Calls : NotRepeating(call[c], built, epoch)
  BY DEF Init, NotRepeating
<1> QED BY <1>3, <1>4, <1>5, <1>6, <1>7 DEF IInv

-----------------------------------------------------------------------------
(* One call moves and the others stay: the mutex passes between it and       *)
(* nobody, and it stores an index only as a fresh call or as it lets go.     *)
LEMMA OneCallMoves ==
  ASSUME IInv, NEW c \in Calls, NEW k,
         call' = [call EXCEPT ![c] = k],
         CallOK(k, disk, epoch),
         UNCHANGED <<disk, writes, epoch>>,
         started' \in Nat,
         retained' \in [Files -> Projection \cup {None}],
         StoredOK(built', epoch),
         NotRepeating(k, built', epoch),
         built' = built \/ built'.by = "fresh" \/ building = c,
         Holds(k) => building \in {c, Nobody} /\ building' = c,
         ~Holds(k) => building' = Released(c)
  PROVE  IInv'
<1>1. k \in CallRecord
  BY DEF CallOK
<1>2. building \in Calls \cup {Nobody} /\ call \in [Calls -> CallRecord]
  BY DEF IInv, SharedOK
<1>3. call'[c] = k /\ \A d \in Calls \ {c} : call'[d] = call[d]
  BY <1>2
<1>4. SharedOK'
  <2>1. building' \in Calls \cup {Nobody}
    BY <1>2 DEF Released
  <2> QED BY <2>1 DEF SharedOK, IInv
<1>5. call' \in [Calls -> CallRecord]
  BY <1>1, <1>2
<1>6. \A d \in Calls : CallOK(call'[d], disk', epoch')
  BY <1>3 DEF IInv
<1>7. \A d \in Calls : building' = d <=> Holds(call'[d])
  <2>1. CASE Holds(k)
    BY <1>3, <2>1, NobodyAssumption DEF IInv
  <2>2. CASE ~Holds(k)
    BY <1>3, <2>2, NobodyAssumption DEF IInv, Released
  <2> QED BY <2>1, <2>2
<1>8. \A d \in Calls : NotRepeating(call'[d], built', epoch')
  <2>1. NotRepeating(call'[c], built', epoch')
    BY <1>3
  <2>2. ASSUME NEW d \in Calls \ {c} PROVE NotRepeating(call'[d], built', epoch')
    <3>1. CASE built' = built
      BY <1>3, <3>1 DEF IInv
    <3>2. CASE built'.by = "fresh"
      BY <3>2 DEF NotRepeating
    <3>3. CASE building = c
      BY <1>3, <3>3 DEF IInv, NotRepeating
    <3> QED BY <3>1, <3>2, <3>3
  <2> QED BY <2>1, <2>2
<1> QED BY <1>4, <1>5, <1>6, <1>7, <1>8 DEF IInv

-----------------------------------------------------------------------------
(* A call ends, with nothing or with an index of one piece.                  *)
LEMMA EndedIsOK ==
  ASSUME IInv, NEW c \in Calls, NEW index \in Index \cup {None},
         index # None =>
           Piece(index) /\ (call[c].kind = "fresh" => ReadSince(index, call[c].seen))
  PROVE  CallOK(Ended(c, index), disk, epoch) /\ ~Holds(Ended(c, index))
<1>1. call[c] \in CallRecord /\ epoch \in Nat
  BY DEF IInv, CallOK, SharedOK
<1>2. call[c].kind \in Kinds /\ call[c].seen \in [Files -> SUBSET Contents]
  BY <1>1 DEF CallRecord
<1>3. Idle \in CallRecord /\ Idle.epoch = 0
  BY IdleIsOK, <1>1 DEF CallOK, Idle
<1> DEFINE k == Ended(c, index)
<1>4. k \in CallRecord
  BY <1>2, <1>3 DEF Ended, CallRecord, Places
<1>5. /\ k.at = "returned" /\ k.kind = call[c].kind /\ k.result = index /\ k.epoch = 0
      /\ index # None => k.seen = call[c].seen
  BY <1>3 DEF Ended, CallRecord, Idle
<1> HIDE DEF k
<1>6. ~Holds(k)
  BY <1>5 DEF Holds, Inside
<1>7. ResultOK(k)
  BY <1>5 DEF ResultOK
<1> QED BY <1>1, <1>4, <1>5, <1>6, <1>7 DEF CallOK, SeenOK, WayOK, BuildOK, Inside, k

LEMMA GiveUpKeeps ==
  ASSUME IInv, NEW c \in Calls, GiveUp(c), started' = started
  PROVE  IInv'
<1>1. CallOK(Ended(c, None), disk, epoch) /\ ~Holds(Ended(c, None))
  BY EndedIsOK
<1>2. SharedOK
  BY DEF IInv
<1>3. NotRepeating(Ended(c, None), built', epoch)
  BY <1>1 DEF NotRepeating
<1> QED BY <1>1, <1>2, <1>3, OneCallMoves DEF GiveUp, diskVars, SharedOK

LEMMA ReturnKeeps ==
  ASSUME IInv, NEW c \in Calls, NEW index \in Index,
         Piece(index), call[c].kind = "fresh" => ReadSince(index, call[c].seen),
         Return(c, index),
         UNCHANGED <<diskVars, epoch, retained, started>>,
         StoredOK(built', epoch),
         built' = built \/ built'.by = "fresh" \/ building = c
  PROVE  IInv'
<1>1. CallOK(Ended(c, index), disk, epoch) /\ ~Holds(Ended(c, index))
  BY EndedIsOK
<1>2. SharedOK
  BY DEF IInv
<1>3. NotRepeating(Ended(c, index), built', epoch)
  BY <1>1 DEF NotRepeating
<1> QED BY <1>1, <1>2, <1>3, OneCallMoves DEF Return, diskVars, SharedOK

(* A call whose place, and what belongs to it, changes, while what it shares *)
(* stays; `files` and `read` are as BuildOK asks.                            *)
LEMMA MovesOn ==
  ASSUME IInv, NEW c \in Calls, NEW k,
         call' = [call EXCEPT ![c] = k],
         UNCHANGED <<diskVars, epoch, built, building, started>>,
         retained' \in [Files -> Projection \cup {None}],
         CallOK(k, disk, epoch),
         Holds(k) <=> Holds(call[c]),
         NotRepeating(k, built, epoch)
  PROVE  IInv'
<1>1. SharedOK /\ (building = c <=> Holds(call[c]))
  BY DEF IInv
<1>2. NotRepeating(k, built', epoch)
  OBVIOUS
<1>3. /\ Holds(k) => building \in {c, Nobody} /\ building' = c
      /\ ~Holds(k) => building' = Released(c)
  BY <1>1 DEF Released
<1>4. disk' = disk /\ writes' = writes /\ epoch' = epoch /\ started' \in Nat
      /\ StoredOK(built', epoch)
  BY <1>1 DEF diskVars, SharedOK
<1> QED BY <1>2, <1>3, <1>4, OneCallMoves

-----------------------------------------------------------------------------
(* The steps of a call.                                                    *)

(* What the invariant says of the call that moves.                           *)
LEMMA CallFacts ==
  ASSUME IInv, NEW c \in Calls
  PROVE  /\ call[c] \in CallRecord
         /\ call \in [Calls -> CallRecord]
         /\ CallOK(call[c], disk, epoch)
         /\ building = c <=> Holds(call[c])
         /\ NotRepeating(call[c], built, epoch)
         /\ SharedOK
BY DEF IInv, CallOK

LEMMA PreviousIsIndex ==
  ASSUME IInv
  PROVE  (IF built = None THEN None ELSE built.files) \in Index \cup {None}
BY DEF IInv, SharedOK, StoredOK, Stored

LEMMA CheckKeeps ==
  ASSUME IInv, NEW c \in Calls, Check(c), started' = started
  PROVE  IInv'
<1>1. CASE Over(c) /\ GiveUp(c)
  BY <1>1, GiveUpKeeps
<1>2. CASE ~Over(c) /\ TrustsCache(c)
  <2> DEFINE k == [call[c] EXCEPT !.at = "looking up"]
  <2>1. call[c].at = "checking" /\ call' = [call EXCEPT ![c] = k]
        /\ UNCHANGED <<diskVars, cacheVars>>
    BY <1>2 DEF Check, GiveUp
  <2>2. k \in CallRecord
    BY CallFacts DEF CallRecord, Places
  <2>3. /\ k.at = "looking up" /\ k.kind = call[c].kind /\ k.epoch = call[c].epoch
        /\ k.seen = call[c].seen /\ k.result = call[c].result
    BY CallFacts DEF CallRecord
  <2> HIDE DEF k
  <2>4. CallOK(k, disk, epoch)
    BY <1>2, <2>1, <2>2, <2>3, CallFacts
       DEF TrustsCache, CallOK, SeenOK, WayOK, BuildOK, ResultOK, Inside
  <2>5. ~Holds(k) /\ ~Holds(call[c])
    BY <2>1, <2>3 DEF Holds, Inside
  <2> QED BY <2>1, <2>4, <2>5, CallFacts, MovesOn DEF NotRepeating, cacheVars, SharedOK
<1>3. CASE ~Over(c) /\ ~TrustsCache(c)
  <2> DEFINE k == [call[c] EXCEPT !.at = "reading loader",
                                  !.previous = IF built = None THEN None ELSE built.files]
  <2>1. call[c].at = "checking" /\ call' = [call EXCEPT ![c] = k]
        /\ UNCHANGED <<diskVars, cacheVars>>
    BY <1>3 DEF Check, GiveUp
  <2>2. k \in CallRecord
    BY CallFacts, PreviousIsIndex DEF CallRecord, Places, Inside
  <2>3. /\ k.at = "reading loader" /\ k.kind = call[c].kind /\ k.epoch = call[c].epoch
        /\ k.seen = call[c].seen /\ k.result = call[c].result
    BY CallFacts DEF CallRecord
  <2> HIDE DEF k
  <2>4. CallOK(k, disk, epoch)
    BY <1>3, <2>1, <2>2, <2>3, CallFacts
       DEF TrustsCache, CallOK, SeenOK, WayOK, BuildOK, ResultOK, Inside
  <2>5. ~Holds(k) /\ ~Holds(call[c])
    BY <1>3, <2>1, <2>3 DEF Holds, Inside, TrustsCache
  <2> QED BY <2>1, <2>4, <2>5, CallFacts, MovesOn DEF NotRepeating, cacheVars, SharedOK
<1> QED BY <1>1, <1>2, <1>3 DEF Check

(* An index found has the epoch of the call, and only calls that trust the   *)
(* cache look for one.                                                      *)
LEMMA HitKeeps ==
  ASSUME IInv, NEW c \in Calls, Hit(c), call[c].at \in {"looking up", "looking again"},
         Return(c, built.files), UNCHANGED <<diskVars, epoch, built, retained, started>>
  PROVE  IInv'
<1>1. built.files \in Index /\ Piece(built.files)
  BY DEF Hit, IInv, SharedOK, StoredOK, Stored
<1>2. call[c].kind # "fresh"
  BY CallFacts DEF CallOK, WayOK
<1> QED BY <1>1, <1>2, CallFacts, ReturnKeeps DEF SharedOK

LEMMA LookUpKeeps ==
  ASSUME IInv, NEW c \in Calls, LookUp(c), started' = started
  PROVE  IInv'
<1>1. CASE GiveUp(c)
  BY <1>1, GiveUpKeeps
<1>2. CASE ~Hit(c) /\ call[c].kind # "cached" /\ GoTo(c, "waiting")
           /\ UNCHANGED <<diskVars, cacheVars>>
  <2> DEFINE k == [call[c] EXCEPT !.at = "waiting"]
  <2>1. call[c].at = "looking up" /\ call' = [call EXCEPT ![c] = k]
    BY <1>2 DEF LookUp, GoTo
  <2>2. k \in CallRecord
    BY CallFacts DEF CallRecord, Places
  <2>3. /\ k.at = "waiting" /\ k.kind = call[c].kind /\ k.epoch = call[c].epoch
        /\ k.seen = call[c].seen /\ k.result = call[c].result
    BY CallFacts DEF CallRecord
  <2> HIDE DEF k
  <2>4. CallOK(k, disk, epoch)
    BY <1>2, <2>1, <2>2, <2>3, CallFacts
       DEF CallOK, SeenOK, WayOK, BuildOK, ResultOK, Inside
  <2>5. ~Holds(k) /\ ~Holds(call[c])
    BY <2>1, <2>3 DEF Holds, Inside
  <2> QED BY <1>2, <2>1, <2>4, <2>5, CallFacts, MovesOn DEF NotRepeating, cacheVars, SharedOK
<1>3. \/ Hit(c) /\ Return(c, built.files) /\ UNCHANGED <<diskVars, epoch, built, retained>>
      \/ GiveUp(c)
      \/ ~Hit(c) /\ call[c].kind # "cached" /\ GoTo(c, "waiting")
         /\ UNCHANGED <<diskVars, cacheVars>>
  BY DEF LookUp
<1>4. call[c].at = "looking up"
  BY DEF LookUp
<1> QED BY <1>1, <1>2, <1>3, <1>4, HitKeeps

LEMMA AcquireKeeps ==
  ASSUME IInv, NEW c \in Calls, Acquire(c), started' = started
  PROVE  IInv'
<1>1. CASE Over(c) /\ GiveUp(c)
  BY <1>1, GiveUpKeeps
<1>2. CASE /\ building = Nobody /\ building' = c /\ GoTo(c, "looking again")
           /\ UNCHANGED <<diskVars, epoch, built, retained>>
  <2> DEFINE k == [call[c] EXCEPT !.at = "looking again"]
  <2>1. call[c].at = "waiting" /\ call' = [call EXCEPT ![c] = k]
    BY <1>2 DEF Acquire, GoTo
  <2>2. k \in CallRecord
    BY CallFacts DEF CallRecord, Places, Inside
  <2>3. /\ k.at = "looking again" /\ k.kind = call[c].kind /\ k.epoch = call[c].epoch
        /\ k.seen = call[c].seen /\ k.result = call[c].result
    BY CallFacts DEF CallRecord
  <2> HIDE DEF k
  <2>4. CallOK(k, disk, epoch)
    BY <2>1, <2>2, <2>3, CallFacts DEF CallOK, SeenOK, WayOK, BuildOK, ResultOK, Inside
  <2>5. k.kind = "guarded"
    BY <2>1, <2>3, CallFacts DEF CallOK, WayOK, CallRecord, Kinds
  <2>6. Holds(k) /\ NotRepeating(k, built', epoch)
    BY <2>3, <2>5 DEF Holds, NotRepeating, Inside
  <2> QED BY <1>2, <2>1, <2>4, <2>6, CallFacts, OneCallMoves DEF diskVars, SharedOK
<1> QED BY <1>1, <1>2 DEF Acquire

(* The epoch of the present index is not that of the call, or the epoch has  *)
(* moved on: a build here repeats none.                                     *)
LEMMA LookAgainKeeps ==
  ASSUME IInv, NEW c \in Calls, LookAgain(c), started' = started
  PROVE  IInv'
<1>1. CASE ~HitAgain(c)
  <2> DEFINE k == [call[c] EXCEPT !.at = "reading loader",
                                  !.previous = IF built = None THEN None ELSE built.files]
  <2>1. call[c].at = "looking again" /\ call' = [call EXCEPT ![c] = k]
        /\ UNCHANGED <<diskVars, cacheVars>>
    BY <1>1 DEF LookAgain
  <2>2. k \in CallRecord
    BY CallFacts, PreviousIsIndex DEF CallRecord, Places, Inside
  <2>3. /\ k.at = "reading loader" /\ k.kind = call[c].kind /\ k.epoch = call[c].epoch
        /\ k.seen = call[c].seen /\ k.result = call[c].result
    BY CallFacts DEF CallRecord
  <2> HIDE DEF k
  <2>4. CallOK(k, disk, epoch)
    BY <2>1, <2>2, <2>3, CallFacts DEF CallOK, SeenOK, WayOK, BuildOK, ResultOK, Inside
  <2>5. Holds(k) <=> Holds(call[c])
    BY <2>1, <2>3 DEF Holds, Inside
  <2>6. NotRepeating(k, built, epoch)
    BY <1>1, <2>3 DEF HitAgain, Hit, NotRepeating
  <2> QED BY <2>1, <2>4, <2>5, <2>6, CallFacts, MovesOn DEF cacheVars, SharedOK
<1>2. \/ HitAgain(c) /\ Return(c, built.files) /\ UNCHANGED <<diskVars, epoch, built, retained>>
      \/ ~HitAgain(c)
  BY DEF LookAgain
<1>3. call[c].at = "looking again"
  BY DEF LookAgain
<1> QED BY <1>1, <1>2, <1>3, HitKeeps DEF HitAgain

(* A call inside the build stays inside, and its epoch and kind with it.     *)
LEMMA StillBuilding ==
  ASSUME IInv, NEW c \in Calls, NEW k,
         call[c].at \in Inside \ {"looking again"}, k.at \in Inside \ {"looking again"},
         k.kind = call[c].kind, k.epoch = call[c].epoch
  PROVE  (Holds(k) <=> Holds(call[c])) /\ NotRepeating(k, built, epoch)
BY CallFacts DEF Holds, NotRepeating

LEMMA ReadLoaderKeeps ==
  ASSUME IInv, NEW c \in Calls, ReadLoader(c), started' = started
  PROVE  IInv'
<1>1. CASE Over(c) /\ GiveUp(c)
  BY <1>1, GiveUpKeeps
<1>2. CASE ~Over(c)
  <2> DEFINE k == [call[c] EXCEPT !.at = "projecting loader",
                                  !.read["loader"] = disk["loader"]]
  <2>1. CASE /\ call' = [call EXCEPT ![c] = k] /\ UNCHANGED <<diskVars, cacheVars>>
    <3>1. call[c].at = "reading loader" /\ "loader" \in Files
      BY DEF ReadLoader, Files
    <3>2. disk["loader"] \in Contents /\ disk["loader"] \in call[c].seen["loader"]
      BY <3>1, CallFacts DEF SharedOK, CallOK, SeenOK
    <3>3. k \in CallRecord
      BY <3>2, CallFacts DEF CallRecord, Places, Inside
    <3>4. /\ k.at = "projecting loader" /\ k.kind = call[c].kind /\ k.epoch = call[c].epoch
          /\ k.seen = call[c].seen /\ k.result = call[c].result
          /\ k.read["loader"] = disk["loader"]
      BY <3>1, CallFacts DEF CallRecord
    <3> HIDE DEF k
    <3>5. CallOK(k, disk, epoch)
      BY <3>1, <3>2, <3>3, <3>4, CallFacts
         DEF CallOK, SeenOK, WayOK, BuildOK, ResultOK, Inside
    <3>6. (Holds(k) <=> Holds(call[c])) /\ NotRepeating(k, built, epoch)
      BY <3>1, <3>4, StillBuilding DEF Inside
    <3> QED BY <2>1, <3>5, <3>6, CallFacts, MovesOn DEF cacheVars, SharedOK
  <2> QED BY <1>2, <2>1 DEF ReadLoader, GiveUp
<1> QED BY <1>1, <1>2 DEF ReadLoader

(* What is reused of a file is what would be made of it: the two contents it *)
(* depends on are those it was made of.                                     *)
LEMMA PreparedIsMade ==
  ASSUME NEW known \in Projection \cup {None},
         NEW source \in Contents, NEW library \in Contents
  PROVE  Prepared(known, source, library) = [source |-> source, library |-> library]
<1>1. CASE Reusable(known, source, library)
  BY <1>1 DEF Reusable, Prepared, Projection, None
<1>2. CASE ~Reusable(known, source, library)
  BY <1>2 DEF Prepared
<1> QED BY <1>1, <1>2

LEMMA KnownIsProjection ==
  ASSUME IInv, NEW c \in Calls, NEW f \in Files
  PROVE  Known(c, f) \in Projection \cup {None}
<1>1. call[c].previous \in Index \cup {None} /\ retained[f] \in Projection \cup {None}
  BY CallFacts DEF CallRecord, SharedOK
<1> QED BY <1>1 DEF Known, Index

LEMMA ProjectLoaderKeeps ==
  ASSUME IInv, NEW c \in Calls, ProjectLoader(c), started' = started
  PROVE  IInv'
<1> DEFINE library == disk["library"]
           loader == Prepared(Known(c, "loader"), call[c].read["loader"], library)
           k == [call[c] EXCEPT !.at = "projecting library", !.read["library"] = library,
                                !.files = [f \in {"loader"} |-> loader]]
<1>1. /\ call[c].at = "projecting loader"
      /\ call' = [call EXCEPT ![c] = k]
      /\ retained' = [retained EXCEPT !["loader"] = loader]
      /\ UNCHANGED <<diskVars, epoch, built, building>>
  BY DEF ProjectLoader
<1>2. "loader" \in Files /\ "library" \in Files
  BY DEF Files
<1>3. library \in Contents /\ library \in call[c].seen["library"]
  BY <1>1, <1>2, CallFacts DEF SharedOK, CallOK, SeenOK
<1>4. call[c].read["loader"] \in Contents /\ call[c].read["loader"] \in call[c].seen["loader"]
  BY <1>1, CallFacts DEF CallOK, BuildOK
<1>5. loader = [source |-> call[c].read["loader"], library |-> library]
  BY <1>2, <1>3, <1>4, KnownIsProjection, PreparedIsMade
<1>6. loader \in Projection
  BY <1>3, <1>4, <1>5 DEF Projection
<1>7. k \in CallRecord
  BY <1>2, <1>3, <1>6, CallFacts DEF CallRecord, Places, Inside
<1>8. /\ k.at = "projecting library" /\ k.kind = call[c].kind /\ k.epoch = call[c].epoch
      /\ k.seen = call[c].seen /\ k.result = call[c].result
      /\ k.read["library"] = library /\ k.files = [f \in {"loader"} |-> loader]
  BY <1>2, CallFacts DEF CallRecord
<1>9. retained' \in [Files -> Projection \cup {None}]
  BY <1>1, <1>6, CallFacts DEF SharedOK
<1>10. /\ k.files \in [{"loader"} -> Projection]
       /\ k.files["loader"].source = call[c].read["loader"]
       /\ k.files["loader"].library = library
  BY <1>5, <1>6, <1>8
<1> HIDE DEF library, loader, k
<1>11. CallOK(k, disk, epoch)
  BY <1>1, <1>3, <1>4, <1>7, <1>8, <1>10, CallFacts
     DEF CallOK, SeenOK, WayOK, BuildOK, ResultOK, Inside
<1>12. (Holds(k) <=> Holds(call[c])) /\ NotRepeating(k, built, epoch)
  BY <1>1, <1>8, StillBuilding DEF Inside
<1> QED BY <1>1, <1>9, <1>11, <1>12, MovesOn

LEMMA ProjectLibraryKeeps ==
  ASSUME IInv, NEW c \in Calls, ProjectLibrary(c), started' = started
  PROVE  IInv'
<1> DEFINE source == call[c].read["library"]
           library == Prepared(Known(c, "library"), source, source)
           files == [f \in Files |-> IF f = "library" THEN library ELSE call[c].files[f]]
           k == [call[c] EXCEPT !.at = "built", !.files = files]
<1>1. CASE /\ call' = [call EXCEPT ![c] = k]
           /\ retained' = [retained EXCEPT !["library"] = library]
           /\ UNCHANGED <<diskVars, epoch, built, building>>
  <2>1. call[c].at = "projecting library"
    BY DEF ProjectLibrary
  <2>2. /\ source \in Contents /\ source \in call[c].seen["library"]
        /\ call[c].files \in [{"loader"} -> Projection]
        /\ call[c].files["loader"].source \in call[c].seen["loader"]
        /\ call[c].files["loader"].library = source
    BY <2>1, CallFacts DEF CallOK, BuildOK
  <2>3. library = [source |-> source, library |-> source]
    BY <2>2, KnownIsProjection, PreparedIsMade DEF Files
  <2>4. library \in Projection
    BY <2>2, <2>3 DEF Projection
  <2>5. files \in Index
    BY <2>2, <2>4 DEF Index, Files
  <2>6. files["loader"] = call[c].files["loader"] /\ files["library"] = library
    BY DEF Files
  <2>7. Piece(files) /\ ReadSince(files, call[c].seen)
    BY <2>2, <2>3, <2>6 DEF Piece, ReadSince, Files
  <2>8. k \in CallRecord
    BY <2>5, CallFacts DEF CallRecord, Places, Inside
  <2>9. /\ k.at = "built" /\ k.kind = call[c].kind /\ k.epoch = call[c].epoch
        /\ k.seen = call[c].seen /\ k.result = call[c].result /\ k.files = files
    BY CallFacts DEF CallRecord
  <2>10. retained' \in [Files -> Projection \cup {None}]
    BY <1>1, <2>4, CallFacts DEF SharedOK
  <2> HIDE DEF source, library, files, k
  <2>11. CallOK(k, disk, epoch)
    BY <2>1, <2>5, <2>7, <2>8, <2>9, CallFacts
       DEF CallOK, SeenOK, WayOK, BuildOK, ResultOK, Inside
  <2>12. (Holds(k) <=> Holds(call[c])) /\ NotRepeating(k, built, epoch)
    BY <2>1, <2>9, StillBuilding DEF Inside
  <2> QED BY <1>1, <2>10, <2>11, <2>12, MovesOn
<1> QED BY <1>1, GiveUpKeeps DEF ProjectLibrary

LEMMA RecheckKeeps ==
  ASSUME IInv, NEW c \in Calls, Recheck(c), started' = started
  PROVE  IInv'
<1>1. CASE GoTo(c, "storing") /\ UNCHANGED <<diskVars, cacheVars>>
  <2> DEFINE k == [call[c] EXCEPT !.at = "storing"]
  <2>1. call[c].at = "built" /\ call' = [call EXCEPT ![c] = k]
    BY <1>1 DEF Recheck, GoTo
  <2>2. k \in CallRecord
    BY CallFacts DEF CallRecord, Places, Inside
  <2>3. /\ k.at = "storing" /\ k.kind = call[c].kind /\ k.epoch = call[c].epoch
        /\ k.seen = call[c].seen /\ k.result = call[c].result /\ k.files = call[c].files
    BY CallFacts DEF CallRecord
  <2> HIDE DEF k
  <2>4. CallOK(k, disk, epoch)
    BY <2>1, <2>2, <2>3, CallFacts DEF CallOK, SeenOK, WayOK, BuildOK, ResultOK, Inside
  <2>5. (Holds(k) <=> Holds(call[c])) /\ NotRepeating(k, built, epoch)
    BY <2>1, <2>3, StillBuilding DEF Inside
  <2> QED BY <1>1, <2>1, <2>4, <2>5, CallFacts, MovesOn DEF cacheVars, SharedOK
<1> QED BY <1>1, GiveUpKeeps DEF Recheck

(* What is stored was made by a fresh call or by the holder of the mutex.    *)
LEMMA StoreKeeps ==
  ASSUME IInv, NEW c \in Calls, Store(c), started' = started
  PROVE  IInv'
<1> DEFINE b == [epoch |-> call[c].epoch, files |-> call[c].files, by |-> call[c].kind]
<1>1. call[c].at = "storing" /\ built' = IF Stores(c) THEN b ELSE built
  BY DEF Store
<1>2. /\ call[c].files \in Index /\ Piece(call[c].files)
      /\ ReadSince(call[c].files, call[c].seen)
  BY <1>1, CallFacts DEF CallOK, BuildOK
<1>3. StoredOK(b, epoch)
  BY <1>2, CallFacts DEF StoredOK, Stored, CallOK, CallRecord
<1>4. StoredOK(built', epoch)
  BY <1>1, <1>3, CallFacts DEF SharedOK
<1>5. call[c].kind = "fresh" \/ building = c
  BY <1>1, CallFacts DEF CallOK, WayOK, CallRecord, Kinds, Holds, Inside
<1>6. built' = built \/ built'.by = "fresh" \/ building = c
  BY <1>1, <1>5
<1> QED BY <1>2, <1>4, <1>6, ReturnKeeps DEF Store, diskVars

LEMMA StepKeeps ==
  ASSUME IInv, NEW c \in Calls, Step(c)
  PROVE  IInv'
BY CheckKeeps, LookUpKeeps, AcquireKeeps, LookAgainKeeps, ReadLoaderKeeps,
   ProjectLoaderKeeps, ProjectLibraryKeeps, RecheckKeeps, StoreKeeps DEF Step

-----------------------------------------------------------------------------
(* The main loop and the files.                                            *)
LEMMA StartKeeps ==
  ASSUME IInv, NEW c \in Calls, Start(c)
  PROVE  IInv'
<1>1. PICK kind \in Kinds :
        call' = [call EXCEPT ![c] = [Idle EXCEPT !.at = "checking", !.kind = kind,
                   !.epoch = epoch, !.seen = [f \in Files |-> {disk[f]}]]]
  BY DEF Start, Kinds
<1> DEFINE k == [Idle EXCEPT !.at = "checking", !.kind = kind, !.epoch = epoch,
                             !.seen = [f \in Files |-> {disk[f]}]]
<1>2. SharedOK /\ epoch \in Nat /\ disk \in [Files -> Contents]
  BY CallFacts DEF SharedOK
<1>3. Idle \in CallRecord
  BY <1>2, IdleIsOK DEF CallOK
<1>4. k \in CallRecord
  BY <1>2, <1>3 DEF CallRecord, Places
<1>5. /\ k.at = "checking" /\ k.epoch = epoch /\ k.result = None
      /\ k.seen = [f \in Files |-> {disk[f]}]
  BY <1>3 DEF CallRecord, Idle
<1>6. UNCHANGED <<diskVars, cacheVars>> /\ started' \in Nat
  BY <1>2 DEF Start, SharedOK
<1>7. ~Holds(call[c]) /\ building # c
  BY CallFacts DEF Start, Holds, Inside
<1>8. call' = [call EXCEPT ![c] = k]
  BY <1>1
<1> HIDE DEF k
<1>9. CallOK(k, disk, epoch)
  BY <1>2, <1>4, <1>5 DEF CallOK, SeenOK, WayOK, BuildOK, ResultOK, Inside
<1>10. ~Holds(k) /\ NotRepeating(k, built', epoch)
  BY <1>5 DEF Holds, NotRepeating, Inside
<1>11. building' = Released(c)
  BY <1>6, <1>7 DEF Released, cacheVars
<1> QED BY <1>2, <1>6, <1>8, <1>9, <1>10, <1>11, OneCallMoves
        DEF diskVars, cacheVars, SharedOK

LEMMA CancelKeeps ==
  ASSUME IInv, NEW c \in Calls, Cancel(c)
  PROVE  IInv'
<1> DEFINE k == [call[c] EXCEPT !.cancelled = TRUE]
<1>1. call' = [call EXCEPT ![c] = k] /\ UNCHANGED <<diskVars, cacheVars, started>>
  BY DEF Cancel
<1>2. k \in CallRecord
  BY CallFacts DEF CallRecord
<1>3. /\ k.at = call[c].at /\ k.kind = call[c].kind /\ k.epoch = call[c].epoch
      /\ k.seen = call[c].seen /\ k.result = call[c].result /\ k.read = call[c].read
      /\ k.files = call[c].files
  BY CallFacts DEF CallRecord
<1> HIDE DEF k
<1>4. CallOK(k, disk, epoch)
  BY <1>2, <1>3, CallFacts DEF CallOK, SeenOK, WayOK, BuildOK, ResultOK
<1>5. (Holds(k) <=> Holds(call[c])) /\ NotRepeating(k, built, epoch)
  BY <1>3, CallFacts DEF Holds, NotRepeating
<1> QED BY <1>1, <1>4, <1>5, CallFacts, MovesOn DEF cacheVars, SharedOK

(* The next epoch is one no call and no index has.                           *)
LEMMA InvalidateKeeps ==
  ASSUME IInv, Invalidate
  PROVE  IInv'
<1>1. /\ epoch' = epoch + 1
      /\ UNCHANGED <<disk, writes, built, building, retained, call, started>>
  BY DEF Invalidate, diskVars
<1>2. epoch \in Nat
  BY DEF IInv, SharedOK
<1>3. ASSUME NEW c \in Calls
      PROVE  CallOK(call[c], disk, epoch + 1) /\ NotRepeating(call[c], built, epoch + 1)
  <2>1. call[c].epoch \in Nat /\ call[c].epoch <= epoch
    BY CallFacts DEF CallOK, CallRecord
  <2>2. call[c].epoch <= epoch + 1 /\ epoch + 1 # call[c].epoch
    BY <1>2, <2>1
  <2> QED BY <2>2, CallFacts DEF CallOK, NotRepeating
<1>4. StoredOK(built, epoch + 1)
  BY <1>2 DEF IInv, SharedOK, StoredOK, Stored
<1> QED BY <1>1, <1>2, <1>3, <1>4 DEF IInv, SharedOK

(* What a file holds after a write is among what every running call may see. *)
LEMMA WriteKeeps ==
  ASSUME IInv, Write
  PROVE  IInv'
<1>1. PICK f \in Files, s \in Contents :
        /\ disk' = [disk EXCEPT ![f] = s]
        /\ call' = [c \in Calls |->
             IF call[c].at \in {"idle", "returned"} THEN call[c]
             ELSE [call[c] EXCEPT !.seen[f] = @ \cup {s}]]
  BY DEF Write
<1>2. UNCHANGED <<cacheVars, started>> /\ writes' = writes + 1
  BY DEF Write
<1>3. disk \in [Files -> Contents]
  BY DEF IInv, SharedOK
<1>4. SharedOK'
  BY <1>1, <1>2, <1>3 DEF IInv, SharedOK, cacheVars
<1>5. ASSUME NEW c \in Calls
      PROVE  /\ CallOK(call'[c], disk', epoch)
             /\ Holds(call'[c]) <=> Holds(call[c])
             /\ NotRepeating(call'[c], built, epoch)
  <2>1. CASE call[c].at \in {"idle", "returned"}
    BY <1>1, <2>1, CallFacts DEF CallOK, SeenOK
  <2>2. CASE call[c].at \notin {"idle", "returned"}
    <3> DEFINE k == [call[c] EXCEPT !.seen[f] = @ \cup {s}]
    <3>1. call'[c] = k
      BY <1>1, <2>2
    <3>2. k \in CallRecord
      BY CallFacts DEF CallRecord
    <3>3. /\ k.at = call[c].at /\ k.kind = call[c].kind /\ k.epoch = call[c].epoch
          /\ k.result = call[c].result /\ k.read = call[c].read /\ k.files = call[c].files
          /\ k.seen = [call[c].seen EXCEPT ![f] = @ \cup {s}]
      BY CallFacts DEF CallRecord
    <3>4. call[c].seen \in [Files -> SUBSET Contents]
      BY CallFacts DEF CallRecord
    <3>5. /\ \A g \in Files : call[c].seen[g] \subseteq k.seen[g]
          /\ s \in k.seen[f]
      BY <3>3, <3>4
    <3> HIDE DEF k
    <3>6. SeenOK(k, disk')
      BY <1>1, <1>3, <2>2, <3>3, <3>5, CallFacts DEF CallOK, SeenOK
    <3>7. BuildOK(k)
      BY <3>3, <3>5, CallFacts DEF CallOK, BuildOK, ReadSince, Files
    <3>8. ResultOK(k)
      BY <3>3, <3>5, CallFacts DEF CallOK, ResultOK, ReadSince
    <3>9. WayOK(k) /\ k.epoch <= epoch
      BY <3>3, CallFacts DEF CallOK, WayOK
    <3>10. (Holds(k) <=> Holds(call[c])) /\ NotRepeating(k, built, epoch)
      BY <3>3, CallFacts DEF Holds, NotRepeating
    <3> QED BY <3>1, <3>2, <3>6, <3>7, <3>8, <3>9, <3>10 DEF CallOK
  <2> QED BY <2>1, <2>2
<1>6. call' \in [Calls -> CallRecord]
  <2>1. \A c \in Calls : call'[c] \in CallRecord
    BY <1>5 DEF CallOK
  <2> QED BY <1>1, <2>1
<1> QED BY <1>2, <1>4, <1>5, <1>6 DEF IInv, cacheVars

LEMMA NextKeeps == IInv /\ [Next]_vars => IInv'
<1> SUFFICES ASSUME IInv, [Next]_vars PROVE IInv'
  OBVIOUS
<1>1. CASE Next
  BY <1>1, InvalidateKeeps, WriteKeeps, StartKeeps, CancelKeeps, StepKeeps DEF Next
<1>2. CASE UNCHANGED vars
  BY <1>2 DEF vars, diskVars, cacheVars, IInv, SharedOK
<1> QED BY <1>1, <1>2

-----------------------------------------------------------------------------
(* What a call has read, and what it builds of it, is right at every step of *)
(* every thread, and the mutex is held by the guarded calls that build       *)
(* (workspace_function_index).                                              *)
THEOREM IndexInvariant == Spec => []IInv
<1> QED BY InitIsOK, NextKeeps, PTL DEF Spec

(* Every variable keeps its type, and the building mutex is held by who is   *)
(* inside (build_guard).                                                    *)
THEOREM IndexTypeCorrect == Spec => []TypeOK
<1> QED BY IndexInvariant, InvariantSuffices, PTL

(* An index is of one piece, whatever was reused of earlier builds           *)
(* (prepare_file).                                                          *)
THEOREM IndexIsCoherent == Spec => []Coherent
<1> QED BY IndexInvariant, InvariantSuffices, PTL

(* A mutation request sees no file as it was before the request              *)
(* (fresh_workspace_function_index).                                        *)
THEOREM FreshIsFresh == Spec => []FreshSeesDisk
<1> QED BY IndexInvariant, InvariantSuffices, PTL

(* A request that waited for a build does not repeat it (get under the       *)
(* mutex).                                                                 *)
THEOREM BuildsAreNotRepeated == Spec => []NoRepeatedBuild
<1> QED BY IndexInvariant, InvariantSuffices, PTL

(* The index stored last never gives way to an older one (store).            *)
THEOREM IndexNeverFalls == Spec => BuiltNeverFalls
<1>1. IInv /\ [Next]_vars => [built # None => built'.epoch >= built.epoch]_built
  <2> SUFFICES ASSUME IInv, Next, built # None, built' # built
               PROVE  built'.epoch >= built.epoch
    BY DEF vars, cacheVars
  <2>1. PICK c \in Calls : Step(c)
    BY DEF Next, Invalidate, Write, Start, Cancel, cacheVars
  <2>2. Store(c)
    BY <2>1 DEF Step, Check, LookUp, Acquire, LookAgain, ReadLoader, ProjectLoader,
                ProjectLibrary, Recheck, GiveUp, cacheVars
  <2>3. built'.epoch = epoch
    BY <2>2 DEF Store, Stores
  <2>4. built.epoch <= epoch /\ built.epoch \in Nat /\ epoch \in Nat
    BY DEF IInv, SharedOK, StoredOK, Stored
  <2> QED BY <2>3, <2>4
<1> QED BY <1>1, IndexInvariant, PTL DEF Spec, BuiltNeverFalls

-----------------------------------------------------------------------------
(* Why every call returns, without the fairness that makes it move: a call    *)
(* only advances, and the one that holds the mutex is never one that waits. *)
Ahead == [place \in Places |->
  CASE place = "checking" -> 9
    [] place = "looking up" -> 8
    [] place = "waiting" -> 7
    [] place = "looking again" -> 6
    [] place = "reading loader" -> 5
    [] place = "projecting loader" -> 4
    [] place = "projecting library" -> 3
    [] place = "built" -> 2
    [] place = "storing" -> 1
    [] OTHER -> 0]

(* No step, of its own or of another thread, sends a call back: an index      *)
(* invalidated or rebuilt meanwhile makes it give up, never start again, and *)
(* each step of its own takes it forward.                                    *)
CallsAdvance ==
  [][\A c \in Calls :
       /\ Step(c) => Ahead[call'[c].at] < Ahead[call[c].at]
       /\ ~Step(c) /\ ~Start(c) => call'[c].at = call[c].at]_vars

(* Whoever waits for the mutex waits for another call that builds.            *)
WaitersWaitForBuilders ==
  \A c \in Calls :
    call[c].at = "waiting" /\ building # Nobody =>
      \E d \in Calls \ {c} : building = d /\ call[d].at \in Inside

LEMMA Order ==
  /\ Ahead["checking"] = 9 /\ Ahead["looking up"] = 8 /\ Ahead["waiting"] = 7
  /\ Ahead["looking again"] = 6 /\ Ahead["reading loader"] = 5
  /\ Ahead["projecting loader"] = 4 /\ Ahead["projecting library"] = 3
  /\ Ahead["built"] = 2 /\ Ahead["storing"] = 1 /\ Ahead["returned"] = 0
BY DEF Ahead, Places, Inside

LEMMA Numbers ==
  /\ 0 < 9 /\ 5 < 9 /\ 8 < 9 /\ 0 < 8 /\ 7 < 8 /\ 0 < 7 /\ 6 < 7 /\ 0 < 6
  /\ 5 < 6 /\ 0 < 5 /\ 4 < 5 /\ 3 < 4 /\ 0 < 3 /\ 2 < 3 /\ 0 < 2 /\ 1 < 2 /\ 0 < 1
OBVIOUS

(* The ways a call may go, all of them forward.                              *)
LEMMA Forward ==
  ASSUME NEW from, NEW to,
         \/ from = "checking" /\ to \in {"returned", "looking up", "reading loader"}
         \/ from = "looking up" /\ to \in {"returned", "waiting"}
         \/ from = "waiting" /\ to \in {"returned", "looking again"}
         \/ from = "looking again" /\ to \in {"returned", "reading loader"}
         \/ from = "reading loader" /\ to \in {"returned", "projecting loader"}
         \/ from = "projecting loader" /\ to = "projecting library"
         \/ from = "projecting library" /\ to \in {"returned", "built"}
         \/ from = "built" /\ to \in {"returned", "storing"}
         \/ from = "storing" /\ to = "returned"
  PROVE  Ahead[to] < Ahead[from]
<1>1. CASE from = "checking" /\ to \in {"returned", "looking up", "reading loader"}
  BY <1>1, Order, Numbers, Zenon
<1>2. CASE from = "looking up" /\ to \in {"returned", "waiting"}
  BY <1>2, Order, Numbers, Zenon
<1>3. CASE from = "waiting" /\ to \in {"returned", "looking again"}
  BY <1>3, Order, Numbers, Zenon
<1>4. CASE from = "looking again" /\ to \in {"returned", "reading loader"}
  BY <1>4, Order, Numbers, Zenon
<1>5. CASE from = "reading loader" /\ to \in {"returned", "projecting loader"}
  BY <1>5, Order, Numbers, Zenon
<1>6. CASE from = "projecting loader" /\ to = "projecting library"
  BY <1>6, Order, Numbers, Zenon
<1>7. CASE from = "projecting library" /\ to \in {"returned", "built"}
  BY <1>7, Order, Numbers, Zenon
<1>8. CASE from = "built" /\ to \in {"returned", "storing"}
  BY <1>8, Order, Numbers, Zenon
<1>9. CASE from = "storing" /\ to = "returned"
  BY <1>9, Order, Numbers, Zenon
<1> QED BY <1>1, <1>2, <1>3, <1>4, <1>5, <1>6, <1>7, <1>8, <1>9

(* What a step changes of the calls: the place of its own, and no other call. *)
Moves(c, to) == call'[c].at \in to /\ \A d \in Calls \ {c} : call'[d] = call[d]

LEMMA OwnStepAdvances ==
  ASSUME IInv, NEW c \in Calls, Step(c)
  PROVE  /\ Ahead[call'[c].at] < Ahead[call[c].at]
         /\ \A d \in Calls \ {c} : call'[d] = call[d]
<1>1. call \in [Calls -> CallRecord]
  BY DEF IInv
<1>2. GiveUp(c) => Moves(c, {"returned"})
  BY <1>1 DEF GiveUp, Ended, Idle, Moves
<1>3. ASSUME NEW index, Return(c, index) PROVE Moves(c, {"returned"})
  BY <1>1, <1>3 DEF Return, Ended, Idle, Moves
<1>4. ASSUME NEW place, GoTo(c, place) PROVE Moves(c, {place})
  BY <1>1, <1>4 DEF GoTo, CallRecord, Moves
<1>5. CASE Check(c)
  <2>1. call[c].at = "checking" /\ Moves(c, {"returned", "looking up", "reading loader"})
    <3>1. CASE Over(c)
      BY <1>2, <1>5, <3>1 DEF Check, Moves
    <3>2. CASE ~Over(c) /\ TrustsCache(c)
      <4>1. call[c].at = "checking" /\ GoTo(c, "looking up")
        BY <1>5, <3>2 DEF Check, GoTo
      <4> QED BY <1>4, <4>1 DEF Moves
    <3>3. CASE ~Over(c) /\ ~TrustsCache(c)
      BY <1>1, <1>5, <3>3 DEF Check, CallRecord, Moves
    <3> QED BY <3>1, <3>2, <3>3
  <2> QED BY <2>1, Forward DEF Moves
<1>6. CASE LookUp(c)
  <2>1. call[c].at = "looking up" /\ Moves(c, {"returned", "waiting"})
    BY <1>1, <1>2, <1>3, <1>4, <1>6 DEF LookUp, CallRecord, Moves
  <2> QED BY <2>1, Forward DEF Moves
<1>7. CASE Acquire(c)
  <2>1. call[c].at = "waiting" /\ Moves(c, {"returned", "looking again"})
    BY <1>1, <1>2, <1>3, <1>4, <1>7 DEF Acquire, CallRecord, Moves
  <2> QED BY <2>1, Forward DEF Moves
<1>8. CASE LookAgain(c)
  <2>1. call[c].at = "looking again" /\ Moves(c, {"returned", "reading loader"})
    BY <1>1, <1>2, <1>3, <1>4, <1>8 DEF LookAgain, CallRecord, Moves
  <2> QED BY <2>1, Forward DEF Moves
<1>9. CASE ReadLoader(c)
  <2>1. call[c].at = "reading loader" /\ Moves(c, {"returned", "projecting loader"})
    BY <1>1, <1>2, <1>3, <1>4, <1>9 DEF ReadLoader, CallRecord, Moves
  <2> QED BY <2>1, Forward DEF Moves
<1>10. CASE ProjectLoader(c)
  <2>1. call[c].at = "projecting loader" /\ Moves(c, {"projecting library"})
    <3>1. call[c].at = "projecting loader"
      BY <1>10 DEF ProjectLoader
    <3>2. PICK read, files :
            call' = [call EXCEPT ![c].at = "projecting library",
                                 ![c].read["library"] = read, ![c].files = files]
      BY <1>10 DEF ProjectLoader
    <3>3. \A d \in Calls \ {c} : call'[d] = call[d]
      BY <1>1, <3>2
    <3>4. call'[c].at = "projecting library"
      BY <1>1, <3>2 DEF CallRecord
    <3> QED BY <3>1, <3>3, <3>4 DEF Moves
  <2> QED BY <2>1, Forward DEF Moves
<1>11. CASE ProjectLibrary(c)
  <2>1. call[c].at = "projecting library" /\ Moves(c, {"returned", "built"})
    BY <1>1, <1>2, <1>3, <1>4, <1>11 DEF ProjectLibrary, CallRecord, Moves
  <2> QED BY <2>1, Forward DEF Moves
<1>12. CASE Recheck(c)
  <2>1. call[c].at = "built" /\ Moves(c, {"returned", "storing"})
    BY <1>1, <1>2, <1>3, <1>4, <1>12 DEF Recheck, CallRecord, Moves
  <2> QED BY <2>1, Forward DEF Moves
<1>13. CASE Store(c)
  <2>1. call[c].at = "storing" /\ Moves(c, {"returned"})
    BY <1>1, <1>2, <1>3, <1>4, <1>13 DEF Store, CallRecord, Moves
  <2> QED BY <2>1, Forward DEF Moves
<1> QED
  BY <1>5, <1>6, <1>7, <1>8, <1>9, <1>10, <1>11, <1>12, <1>13 DEF Step

(* A call only goes forward, whatever the other threads and the main loop do *)
(* (workspace_function_index has no loop but the one that polls the mutex).   *)
THEOREM NoCallGoesBack == Spec => CallsAdvance
<1>1. IInv /\ [Next]_vars =>
        [\A c \in Calls :
           /\ Step(c) => Ahead[call'[c].at] < Ahead[call[c].at]
           /\ ~Step(c) /\ ~Start(c) => call'[c].at = call[c].at]_vars
  <2> SUFFICES ASSUME IInv, Next, NEW c \in Calls
               PROVE  /\ Step(c) => Ahead[call'[c].at] < Ahead[call[c].at]
                      /\ ~Step(c) /\ ~Start(c) => call'[c].at = call[c].at
    OBVIOUS
  <2>1. Step(c) => Ahead[call'[c].at] < Ahead[call[c].at]
    BY OwnStepAdvances
  <2>2. ASSUME ~Step(c), ~Start(c) PROVE call'[c].at = call[c].at
    <3>1. call[c] \in CallRecord /\ DOMAIN call = Calls
      BY DEF IInv
    <3>2. CASE Invalidate
      BY <3>2 DEF Invalidate
    <3>3. CASE Write
      BY <3>1, <3>3 DEF Write, CallRecord
    <3>4. ASSUME NEW d \in Calls, Start(d) PROVE call'[c].at = call[c].at
      BY <2>2, <3>1, <3>4 DEF Start
    <3>5. ASSUME NEW d \in Calls, Cancel(d) PROVE call'[c].at = call[c].at
      BY <3>1, <3>5 DEF Cancel, CallRecord, IInv
    <3>6. ASSUME NEW d \in Calls, Step(d) PROVE call'[c].at = call[c].at
      BY <2>2, <3>6, OwnStepAdvances
    <3> QED BY <3>2, <3>3, <3>4, <3>5, <3>6 DEF Next
  <2> QED BY <2>1, <2>2
<1> QED BY <1>1, IndexInvariant, PTL DEF Spec, CallsAdvance

(* Nobody waits for itself, and nobody for a call that waits (build_guard).  *)
THEOREM MutexIsInUse == Spec => []WaitersWaitForBuilders
<1>1. IInv => WaitersWaitForBuilders
  BY DEF IInv, SharedOK, Holds, WaitersWaitForBuilders, Inside
<1> QED BY <1>1, IndexInvariant, PTL
=============================================================================
