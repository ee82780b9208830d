--------------------------- MODULE SemanticTokens ----------------------------
(***************************************************************************)
(* The semantic token requests of one document                              *)
(* (handlers/semantic_tokens_cache.rs) on the pool's threads, over the      *)
(* command analyses they share (handlers/commands.rs), while the main loop  *)
(* handles the notifications that move the document on.                     *)
(*                                                                         *)
(* A snapshot is taken on the main loop; everything a request looks up      *)
(* later, it looks up in caches that other requests fill.  Only the slot's  *)
(* mutex, held from the memo to the published result, orders two requests.  *)
(*                                                                         *)
(* The settings epoch moves only where the workspace epoch moves, so the    *)
(* model's key has the one and not the other; it leaves the address of the  *)
(* document out of the code's key, and the position encoding, which is      *)
(* fixed for the session.                                                   *)
(***************************************************************************)
EXTENDS TokenEncoding, FiniteSets

CONSTANTS
  Requests,    \* requests in flight at a time
  Texts,       \* contents of the document
  Scripts,     \* the contents that are shell code and get tokens
  TokenTypes,  \* types of tokens
  TokensOf(_), \* the encoded tokens of a reading
  NoRequest,   \* model value: the mutex is free
  MaxChanges,  \* bound: how often the two session counters move
  MaxRequests  \* bound: how many requests are dispatched

(* What a tokenisation saw: the snapshot's text, the generation of the       *)
(* sessions and the host it read, and whether it had the workspace index.    *)
Reading == [text : Scripts, environment : 0 .. MaxChanges, complete : BOOLEAN]
EncodedToken == [deltaLine : Nat, deltaStart : Nat, length : Nat, type : TokenTypes]

ASSUME ScriptsAssumption == Scripts \subseteq Texts
ASSUME BoundsAssumption == MaxChanges \in Nat /\ MaxRequests \in Nat
ASSUME RequestAssumption == NoRequest \notin Requests
ASSUME TokensAssumption == \A reading \in Reading : TokensOf(reading) \in Seq(EncodedToken)

VARIABLES
  doc,         \* the open document: version and text, version 0 when closed
  workspace,   \* epoch of the workspace function index
  environment, \* generation of the command service
  slots,       \* every slot made: its memo, published result and holder
  slotOf,      \* the slot in the documents map, 0 when there is none
  nextId,      \* next_result_id
  analyses,    \* the command service's cache: readings by snapshot
  request,     \* each request in flight
  dispatched,  \* how many have been dispatched
  held         \* what the client holds: the last result it received

sessionVars == <<doc, workspace, environment>>
cacheVars == <<slots, slotOf, nextId>>
clientVars == <<dispatched, held>>
vars == <<sessionVars, cacheVars, analyses, request, clientVars>>

None == [none |-> TRUE]

Snapshot == [version : Nat, text : Texts, workspace : Nat, environment : Nat]

(* TokensKey.                                                               *)
KeyWithoutWorkspace(snapshot) ==
  [version |-> snapshot.version, environment |-> snapshot.environment]

Key(snapshot) ==
  [version |-> snapshot.version, workspace |-> snapshot.workspace,
   environment |-> snapshot.environment]

EmptySlot == [memo |-> None, published |-> None, holder |-> NoRequest]

Idle == [at |-> "idle", kind |-> "range", snapshot |-> None, base |-> None,
         cancelled |-> FALSE, slot |-> 0, reading |-> None, answer |-> None]

(* A slot lives as long as the map or a request refers to it.                *)
Kept(all, mapped, requests) ==
  [s \in DOMAIN all |->
     IF s = mapped \/ \E r \in Requests : requests[r].slot = s THEN all[s] ELSE EmptySlot]

Current == [version |-> doc.version, text |-> doc.text, workspace |-> workspace,
            environment |-> environment]

(* The document has just been opened for the first time.                     *)
Init ==
  /\ \E t \in Texts : doc = [version |-> 1, text |-> t]
  /\ workspace = 0
  /\ environment = 0
  /\ slots = <<>>
  /\ slotOf = 0
  /\ nextId = 1
  /\ analyses = {}
  /\ request = [r \in Requests |-> Idle]
  /\ dispatched = 0
  /\ held = None

-----------------------------------------------------------------------------
(* The main loop.                                                          *)

MayChange == workspace + environment < MaxChanges

Evict ==
  /\ slotOf' = 0
  /\ slots' = Kept(slots, 0, request)

(* A document is opened, or opened again in place of the one that is open.   *)
DidOpen ==
  /\ MayChange
  /\ \E t \in Texts : doc' = [version |-> 1, text |-> t]
  /\ Evict
  /\ workspace' = workspace + 1
  /\ UNCHANGED <<environment, nextId, analyses, request, clientVars>>

DidChange ==
  /\ MayChange
  /\ doc.version > 0
  /\ \E t \in Texts : doc' = [version |-> doc.version + 1, text |-> t]
  /\ workspace' = workspace + 1
  /\ UNCHANGED <<environment, cacheVars, analyses, request, clientVars>>

DidClose ==
  /\ MayChange
  /\ doc.version > 0
  /\ doc' = [doc EXCEPT !.version = 0]
  /\ Evict
  /\ workspace' = workspace + 1
  /\ UNCHANGED <<environment, nextId, analyses, request, clientVars>>

(* CommandService::invalidate: the generation first, then the cache.         *)
Invalidate ==
  /\ environment' = environment + 1
  /\ analyses' = {}

(* Changed files, settings or selected environment.                          *)
Refresh ==
  /\ MayChange
  /\ workspace' = workspace + 1
  /\ Invalidate
  /\ UNCHANGED <<doc, cacheVars, request, clientVars>>

(* update_shell_session leaves the workspace epoch alone.                    *)
UpdateShellSession ==
  /\ MayChange
  /\ Invalidate
  /\ UNCHANGED <<doc, workspace, cacheVars, request, clientVars>>

(* A request is dispatched with a snapshot of the open document.  The client *)
(* asks for a delta against the result it holds.                             *)
Dispatch(r) ==
  /\ request[r].at = "idle"
  /\ doc.version > 0
  /\ dispatched < MaxRequests
  /\ dispatched' = dispatched + 1
  /\ \E kind \in {"full", "range", "delta"} :
       /\ kind = "delta" => held # None
       /\ request' = [request EXCEPT ![r] =
            [Idle EXCEPT !.at = "queued", !.kind = kind, !.snapshot = Current,
                         !.base = IF kind = "delta" THEN held ELSE None]]
  /\ UNCHANGED <<sessionVars, cacheVars, analyses, held>>

Cancel(r) ==
  /\ request[r].at # "idle"
  /\ ~request[r].cancelled
  /\ request' = [request EXCEPT ![r].cancelled = TRUE]
  /\ UNCHANGED <<sessionVars, cacheVars, analyses, clientVars>>

-----------------------------------------------------------------------------
(* A request on a thread of the pool: to its slot and the memo.              *)

(* `slot`: the document's slot, made when there is none.  A request that     *)
(* starts after its document was closed makes one for the closed document.   *)
Begin(r) ==
  /\ request[r].at = "queued"
  /\ IF request[r].cancelled
       THEN /\ request' = [request EXCEPT ![r] = Idle]
            /\ UNCHANGED <<slots, slotOf>>
       ELSE /\ slotOf' = IF slotOf = 0 THEN Len(slots) + 1 ELSE slotOf
            /\ slots' = IF slotOf = 0 THEN Append(slots, EmptySlot) ELSE slots
            /\ request' = [request EXCEPT ![r].at = "locking", ![r].slot = slotOf']
  /\ UNCHANGED <<sessionVars, nextId, analyses, clientVars>>

Memo(r) == slots[request[r].slot].memo
Published(r) == slots[request[r].slot].published

(* Mutant: the mutex is not waited for.                                      *)
UnlockedAlways(slot) == TRUE

Unlocked(slot) == slot.holder = NoRequest

(* The mutex is taken and the memo compared.  A text that is no shell code   *)
(* has no tokens: it clears the slot and the answer is null.                 *)
Lock(r) ==
  LET s == request[r].slot
      snapshot == request[r].snapshot
  IN  /\ request[r].at = "locking"
      /\ Unlocked(slots[s])
      /\ IF Memo(r) # None /\ Memo(r).key = Key(snapshot)
           THEN /\ request' = [request EXCEPT ![r].at = "tokenised",
                                              ![r].reading = Memo(r).reading]
                /\ slots' = [slots EXCEPT ![s].holder = r]
           ELSE IF snapshot.text \in Scripts
           THEN /\ request' = [request EXCEPT ![r].at = "looking up"]
                /\ slots' = [slots EXCEPT ![s].holder = r]
           ELSE /\ request' = [request EXCEPT ![r].at = "answering", ![r].slot = 0]
                /\ slots' = [slots EXCEPT ![s] = EmptySlot]
      /\ UNCHANGED <<sessionVars, slotOf, nextId, analyses, clientVars>>

-----------------------------------------------------------------------------
(* CommandService::analysis, with the slot's mutex held.                     *)

Have(r, reading) ==
  request' = [request EXCEPT ![r].at = "tokenised", ![r].reading = reading]

(* cached_analysis; when there is none the attached session and the host are *)
(* read as they are now.                                                    *)
Lookup(r) ==
  /\ request[r].at = "looking up"
  /\ \/ \E a \in analyses : a.snapshot = request[r].snapshot /\ Have(r, a.reading)
     \/ /\ \A a \in analyses : a.snapshot # request[r].snapshot
        /\ request' = [request EXCEPT
             ![r].at = "resolving",
             ![r].reading = [text |-> request[r].snapshot.text,
                             environment |-> environment, complete |-> FALSE]]
  /\ UNCHANGED <<sessionVars, cacheVars, analyses, clientVars>>

(* The workspace index is built for the snapshot's epoch or not at all: for  *)
(* a cancelled request, or after a change, the commands stay unresolved.     *)
Resolve(r) ==
  /\ request[r].at = "resolving"
  /\ request' = [request EXCEPT
       ![r].at = "comparing",
       ![r].reading.complete =
          ~request[r].cancelled /\ workspace = request[r].snapshot.workspace]
  /\ UNCHANGED <<sessionVars, cacheVars, analyses, clientVars>>

(* Mutant: a cancelled request's analysis is worth keeping.                  *)
WorthKeepingAlways(r) == environment = request[r].snapshot.environment

WorthKeeping(r) ==
  ~request[r].cancelled /\ environment = request[r].snapshot.environment

Compare(r) ==
  /\ request[r].at = "comparing"
  /\ request' = [request EXCEPT
                   ![r].at = IF WorthKeeping(r) THEN "inserting" ELSE "tokenised"]
  /\ UNCHANGED <<sessionVars, cacheVars, analyses, clientVars>>

(* An analysis that another request finished first is used instead.          *)
Insert(r) ==
  /\ request[r].at = "inserting"
  /\ \/ /\ \E a \in analyses : a.snapshot = request[r].snapshot /\ Have(r, a.reading)
        /\ UNCHANGED analyses
     \/ /\ \A a \in analyses : a.snapshot # request[r].snapshot
        /\ analyses' = analyses \cup {[snapshot |-> request[r].snapshot,
                                       reading |-> request[r].reading]}
        /\ request' = [request EXCEPT ![r].at = "tokenised"]
  /\ UNCHANGED <<sessionVars, cacheVars, clientVars>>

(* An entry grows old, or makes room for another.                            *)
Forget ==
  /\ \E a \in analyses : analyses' = analyses \ {a}
  /\ UNCHANGED <<sessionVars, cacheVars, request, clientVars>>

-----------------------------------------------------------------------------
(* The result: memo, publish and unlock.                                    *)

(* `shared`: the published data is the memo's own (Arc::ptr_eq).             *)
Publishes(slot, id, data) ==
  [slot EXCEPT !.published = [id |-> id, data |-> data, shared |-> TRUE]]

(* The memo of a tokenisation; its data is nobody else's yet.                *)
Memoised(slot, memo) ==
  [slot EXCEPT !.memo = memo,
               !.published = IF @ = None THEN None ELSE [@ EXCEPT !.shared = FALSE]]

(* Mutant: any published result will do as the baseline.                     *)
IsBaselineAny(published, id) == published # None

IsBaseline(published, id) == published # None /\ published.id = id

(* Mutant: a delta leaves the result its id.                                 *)
DeltaIdKept(edits, id) == id

DeltaId(edits, id) == IF edits = {} THEN id ELSE nextId

Answers(r, slot, answer) ==
  /\ request' = [request EXCEPT ![r].at = "answering", ![r].slot = 0, ![r].answer = answer]
  /\ slots' = Kept([slots EXCEPT ![request[r].slot] = [slot EXCEPT !.holder = NoRequest]],
                   slotOf, request')
  /\ nextId' = IF answer # None /\ answer.id = nextId THEN nextId + 1 ELSE nextId
  /\ UNCHANGED <<sessionVars, slotOf, analyses, clientVars>>

(* The slot once the request has its tokens: they were its memo, or are now. *)
SlotWithMemo(r) ==
  LET slot == slots[request[r].slot]
      memo == [key |-> Key(request[r].snapshot), reading |-> request[r].reading]
  IN  IF slot.memo = memo THEN slot ELSE Memoised(slot, memo)

(* publish: the id stays with data the client already has.                   *)
PublishFull(r, slot) ==
  LET same == slot.published # None /\ slot.published.shared
      id == IF same THEN slot.published.id ELSE nextId
      data == TokensOf(request[r].reading)
  IN  Answers(r, IF same THEN slot ELSE Publishes(slot, id, data),
              [type |-> "tokens", id |-> id, edits |-> {}])

AnswerFull(r) ==
  /\ request[r].at = "tokenised"
  /\ request[r].kind = "full"
  /\ PublishFull(r, SlotWithMemo(r))

AnswerRange(r) ==
  /\ request[r].at = "tokenised"
  /\ request[r].kind = "range"
  /\ Answers(r, SlotWithMemo(r), None)

(* delta: edits when the client holds the published result, all the tokens   *)
(* when it does not.                                                        *)
AnswerDelta(r) ==
  /\ request[r].at = "tokenised"
  /\ request[r].kind = "delta"
  /\ LET slot == SlotWithMemo(r)
         data == TokensOf(request[r].reading)
         edits == IF slot.published.shared THEN {} ELSE Edits(slot.published.data, data)
         id == DeltaId(edits, request[r].base.id)
     IN  IF IsBaseline(slot.published, request[r].base.id)
           THEN Answers(r, Publishes(slot, id, data),
                        [type |-> "edits", id |-> id, edits |-> edits])
           ELSE PublishFull(r, slot)

-----------------------------------------------------------------------------
(* The answer reaches the client, in any order with those of other threads.  *)
Rebuilt(r) ==
  IF request[r].answer.type = "edits"
    THEN ApplyEdits(request[r].base.data, request[r].answer.edits)
    ELSE TokensOf(request[r].reading)

Deliver(r) ==
  /\ request[r].at = "answering"
  /\ request' = [request EXCEPT ![r] = Idle]
  /\ held' = IF request[r].cancelled \/ request[r].answer = None THEN held
             ELSE [id |-> request[r].answer.id, data |-> Rebuilt(r)]
  /\ UNCHANGED <<sessionVars, cacheVars, analyses, dispatched>>

Notification == DidOpen \/ DidChange \/ DidClose \/ Refresh \/ UpdateShellSession

Analysis(r) ==
  Lookup(r) \/ Resolve(r) \/ Compare(r) \/ Insert(r)

Handling(r) ==
  \/ Begin(r) \/ Lock(r) \/ Analysis(r)
  \/ AnswerFull(r) \/ AnswerRange(r) \/ AnswerDelta(r) \/ Deliver(r)

Next ==
  \/ Notification
  \/ Forget
  \/ \E r \in Requests : Dispatch(r) \/ Cancel(r) \/ Handling(r)

Spec == Init /\ [][Next]_vars

-----------------------------------------------------------------------------
Holding == {"looking up", "resolving", "comparing", "inserting", "tokenised"}

(* Types of the variables, and the mutex: a slot's holder is the one request *)
(* between its lock and its answer.                                         *)
TypeOK ==
  /\ Current \in Snapshot
  /\ nextId \in Nat
  /\ slotOf \in 0 .. Len(slots)
  /\ \A s \in DOMAIN slots :
       /\ slots[s].holder \in Requests \cup {NoRequest}
       /\ slots[s].memo # None => slots[s].memo.reading \in Reading
       /\ \A r \in Requests :
            slots[s].holder = r <=> request[r].slot = s /\ request[r].at \in Holding
  /\ \A r \in Requests :
       /\ request[r].at \in Holding \cup {"idle", "queued", "locking", "answering"}
       /\ request[r].at # "idle" => request[r].snapshot \in Snapshot
       /\ request[r].reading \in Reading \cup {None}

(* The tokens a client rebuilds from edits are the tokens of the document:   *)
(* a delta is computed against what the client holds, however many requests  *)
(* published in between (SemanticTokensCache::delta).                        *)
DeltaRebuilds ==
  \A r \in Requests :
    request[r].at = "answering" /\ request[r].answer # None =>
      Rebuilt(r) = TokensOf(request[r].reading)

(* Every result the client holds, bases a request on, is being sent or that  *)
(* a slot has published.                                                    *)
Results ==
  {[id |-> held.id, data |-> held.data] : h \in {held} \ {None}}
  \cup {[id |-> request[r].base.id, data |-> request[r].base.data] :
          r \in {r \in Requests : request[r].base # None}}
  \cup {[id |-> request[r].answer.id, data |-> Rebuilt(r)] :
          r \in {r \in Requests : request[r].answer # None}}
  \cup {[id |-> slots[s].published.id, data |-> slots[s].published.data] :
          s \in {s \in DOMAIN slots : slots[s].published # None}}

(* A result id means one result for the whole session, across requests,      *)
(* closed documents and slots: the next delta trusts it (publish, delta).    *)
OneResultPerId == \A a, b \in Results : a.id = b.id => a.data = b.data

(* A request is answered from the text of its own snapshot and from no older *)
(* environment, whoever did the tokenising (tokens_key, analysis_key).       *)
OwnState ==
  \A r \in Requests :
    request[r].at = "answering" /\ request[r].reading # None =>
      /\ request[r].reading.text = request[r].snapshot.text
      /\ request[r].reading.environment >= request[r].snapshot.environment

(* The analysis that later requests of the present state share was made with *)
(* the workspace index, though requests without it end there too             *)
(* (CommandService::analysis).                                              *)
SharedAnalysisComplete ==
  \A a \in analyses : a.snapshot.workspace = workspace => a.reading.complete

(* "Full tokens for the snapshot, reused from the memo when the document     *)
(* state is unchanged": a request that nothing disturbed gets tokens that    *)
(* were made with the workspace index.                                       *)
CompleteTokens ==
  \A r \in Requests :
    /\ request[r].at = "answering"
    /\ request[r].reading # None
    /\ ~request[r].cancelled
    /\ request[r].snapshot = Current
    => request[r].reading.complete
=============================================================================
