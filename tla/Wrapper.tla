------------------------------- MODULE Wrapper ------------------------------
(***************************************************************************)
(* A client as an application sees it: the TypeScript IdCompressor, which  *)
(* caches session tokens (SessionTokens.tla), on the wasm adapter, which   *)
(* converts, on the compressor (Compressor.tla). The application generates *)
(* IDs, sends its ranges and finalizes them and those of others, sets any  *)
(* capacity, normalizes IDs of any originator, and closes the compressor   *)
(* and opens it again from its serialized form.                            *)
(***************************************************************************)
EXTENDS WasmAdapter

CONSTANTS LocalSession,
          NoSession,            \* lastUsedSessionId = undefined
          MaxSize, Target,      \* of the token cache
          CapacityNumbers,      \* what the application sets as a capacity
          RemoteRanges,         \* the ranges of other sessions that may come
          MaxGenerated          \* bound on the IDs generated

ASSUME WrapperAssumption ==
    /\ LocalSession \in Sessions /\ NoSession \notin Sessions
    /\ MaxSize \in Nat /\ Target \in 1..MaxSize
    /\ \A s \in Sessions : s < StableLimit
    /\ RemoteRanges \subseteq [session : Sessions \ {LocalSession}, first : Positive, count : Nat]
    /\ MaxGenerated \in Nat

VARIABLES compressor,
          stats,                \* its telemetry counters
          counted,              \* history: those handed out, or lost on closing
          sessionTokens, lastUsedSessionId, lastUsedToken, trapped,
          sent,                 \* the ranges taken that are not back, as numbers
          issued                \* history: the numbers given as IDs

cache == <<sessionTokens, lastUsedSessionId, lastUsedToken>>
vars == <<compressor, stats, counted, cache, trapped, sent, issued>>

Tokens == INSTANCE SessionTokens WITH sessions <- compressor.sessions

Sum(a, b) == [field \in DOMAIN a |-> a[field] + b[field]]

Init ==
    /\ compressor = NewCompressor(LocalSession)
    /\ stats = EmptyStats
    /\ counted = EmptyStats
    /\ Tokens!Init
    /\ sent = <<>>
    /\ issued = <<>>

Generate ==
    /\ compressor.generatedIdCount < MaxGenerated
    /\ compressor' = GenerateNextId(compressor)
    /\ stats' = StatsAfterGenerate(compressor, stats)
    /\ issued' = Append(issued, NextIdNumber(compressor))
    /\ UNCHANGED <<counted, cache, trapped, sent>>

Take ==
    /\ UntakenCount(compressor) # 0
    /\ compressor' = TakeNextRange(compressor)
    /\ sent' = Append(sent, NextRangeNumbers(compressor))
    /\ UNCHANGED <<stats, counted, cache, trapped, issued>>

Report(after) ==
    /\ counted' = Sum(counted, after)
    /\ stats' = EmptyStats

(* The wrapper forgets a nil token before the range is looked at.  Counters
   are handed out with the result, and kept if there is an error instead.  *)
FinalizeCreationRange(s, first, count) ==
    \E r \in RangeOfNumbers(ToUuid(s), first, count) :
        /\ compressor' = FinalizeRange(compressor, r)
        /\ Tokens!Forget(s)
        /\ IF FinalizeResult(compressor, r) = "Ok"
           THEN Report(StatsAfterClaim(compressor, stats, r))
           ELSE UNCHANGED <<stats, counted>>
        /\ UNCHANGED <<trapped, issued>>

FinalizeOwn ==
    /\ sent # <<>>
    /\ FinalizeCreationRange(LocalSession, Head(sent).first, Head(sent).count)
    /\ sent' = Tail(sent)

(* Ranges of others, in order or not, empty ones included. *)
FinalizeOther ==
    /\ \E r \in RemoteRanges : FinalizeCreationRange(r.session, r.first, r.count)
    /\ UNCHANGED sent

(* The range of a session that has generated nothing since its last one. *)
FinalizeNothing ==
    /\ \E s \in Sessions : Tokens!Forget(s)
    /\ UNCHANGED <<compressor, stats, counted, trapped, sent, issued>>

SetCapacity ==
    /\ \E x \in CapacityNumbers : compressor' = SetClusterCapacityNumber(compressor, x)
    /\ UNCHANGED <<stats, counted, cache, trapped, sent, issued>>

(* What is answered is left to AnswersAreCurrent. *)
Normalize ==
    /\ UNCHANGED <<compressor, stats, counted, sent, issued>>
    /\ \E origin \in Sessions : \E kind \in Tokens!IdKinds :
          Tokens!NormalizeToSessionSpace(origin, kind)

(* A new wrapper has an empty cache, and a new compressor no counts. *)
Reopen ==
    /\ compressor' \in DeserializeFor(SerializeWithLocal(compressor), ToUuid(LocalSession))
    /\ stats' = EmptyStats
    /\ counted' = Sum(counted, stats)
    /\ sessionTokens' = <<>>
    /\ lastUsedSessionId' = NoSession
    /\ lastUsedToken' = NilToken
    /\ UNCHANGED <<trapped, sent, issued>>

Next ==
    /\ ~trapped
    /\ \/ Generate \/ Take \/ FinalizeOwn \/ FinalizeOther \/ FinalizeNothing
       \/ SetCapacity \/ Normalize \/ Reopen

Spec == Init /\ [][Next]_vars

-----------------------------------------------------------------------------
(* The types of the variables. *)
TypeOK ==
    /\ compressor \in Compressors
    /\ stats \in Stats /\ counted \in Stats
    /\ Tokens!TypeOK
    /\ sent \in Seq([first : Nat, count : Nat])
    /\ issued \in Seq(Int)

TokensCurrent == Tokens!RememberedTokensCurrent
LastUsedIsCached == Tokens!LastUsedIsCached
CacheBounded == Tokens!CacheBounded

(* Number.isSafeInteger: no other integer has the same f64. *)
IsSafe(x) == -ExactLimit < x /\ x < ExactLimit

(* An ID the application was given, if a safe integer, decompresses to the
   UUID its place in the session gives it; that UUID is accepted and
   compresses into the very number; and the number comes back from op space:
   through both casts, the fields of the UUID with carries across them, and
   a close and reopen (stable_id.rs:39-63, wasm lib.rs:106-213).           *)
IdsCrossTheBoundary ==
    \A g \in DOMAIN issued : IsSafe(issued[g]) =>
        LET uuid == ToUuid(LocalSession + g - 1)
            opId == NormalizeToOpSpaceNumber(compressor, issued[g])
        IN  /\ DecompressNumber(compressor, issued[g]) = {uuid}
            /\ RecompressUuid(compressor, uuid) = {issued[g]}
            /\ IsSafe(opId) => NormalizeToSessionSpaceNumber(compressor, opId, 0) = issued[g]

(* The token the wrapper would pass for an originator now. *)
TokenFor(origin) ==
    IF origin = lastUsedSessionId THEN {lastUsedToken}
    ELSE IF Tokens!Cached(origin) # {}
         THEN {sessionTokens[i].token : i \in Tokens!Cached(origin)}
         ELSE GetToken(compressor, ToUuid(origin))

(* The answer to a local ID by a remembered token is the answer by the session's
   ID, whatever was finalized, evicted or reopened since the token was looked
   up: a token stays the index of its session (wasm lib.rs:164-189).       *)
AnswersAreCurrent ==
    \A origin \in Sessions : \A token \in TokenFor(origin) \ {NilToken} :
        \A id \in -(MaxGenerated + 1)..-1 :
            NormalizeToSessionSpaceNumber(compressor, id, token)
                = OrNaN(NormalizeToSessionSpace(compressor, id, origin))

(* Every ID and every cluster is counted once, as what it is, however calls
   that fail and calls that hand the counters out follow each other; and a
   change of clusters is handed out by the call that made it, as the event
   the wrapper logs for its range presumes (IdCompressor.ts:112-125).      *)
StatsAddUp ==
    LET all == Sum(counted, stats)
        locals == Cardinality(compressor.normalizer)
    IN  /\ all.local = locals
        /\ all.eager = compressor.generatedIdCount - locals
        /\ all.creations = Len(compressor.clusters)
        /\ stats.creations = 0 /\ stats.expansions = 0

-----------------------------------------------------------------------------
(* The inductive invariant behind the above. *)

(* x is the number for the ID that c issued as its g-th one. *)
IsNumberOf(c, g, x) ==
    IF -g \in c.normalizer THEN x = AsF64(-g)
    ELSE \E i \in Chain(c.clusters, c.sessionId) :
           /\ HoldsLocal(c.clusters[i], -g)
           /\ x = AsF64(AllocatedFinal(c.clusters[i], -g))

IssuedInv ==
    /\ Len(issued) = compressor.generatedIdCount
    /\ \A g \in DOMAIN issued : IsNumberOf(compressor, g, issued[g])

(* No range on its way names an ID that is yet to be generated. *)
SentInv ==
    \A i \in DOMAIN sent :
        /\ sent[i].first # 0
        /\ sent[i].first + sent[i].count <= compressor.generatedIdCount + 1

(* The inductive invariant. *)
WrapperInv ==
    /\ TypeOK
    /\ compressor.sessionId = LocalSession
    /\ CompressorInv(compressor)
    /\ compressor.generatedIdCount <= MaxGenerated
    /\ IssuedInv /\ SentInv
    /\ TokensCurrent /\ LastUsedIsCached /\ CacheBounded
    /\ StatsAddUp

(* The premises of the proofs.  Counts and tokens are exact as f64; what the
   session may generate reaches neither another session ID nor the end of the
   UUIDs, as session IDs are random.                                       *)
CountsExact ==
    /\ SessionsFit
    /\ Cardinality(Sessions) <= ExactLimit
    /\ MaxGenerated <= ExactLimit

OwnIdsApart ==
    /\ LocalSession + MaxGenerated <= StableLimit
    /\ \A s \in Sessions : LocalSession < s => LocalSession + MaxGenerated <= s
=============================================================================
