--------------------------- MODULE RewriteSystem ---------------------------
(***************************************************************************)
(* One IdCompressor of the TypeScript rewrite, called in every way that    *)
(* IdCompressor.tla calls that of Rust, and the sense in which it          *)
(* implements it: the same calls take both through the same states.        *)
(* This holds as long as sessions are farther apart than their claims      *)
(* reach; where they are not, the two detect collisions differently.       *)
(***************************************************************************)
EXTENDS Rewrite

CONSTANTS LocalSession,     \* the session of this compressor
          Capacities,       \* the values the capacity is set to
          MaxGenerated      \* bound on generation counts

ASSUME SystemAssumption ==
    /\ LocalSession \in Sessions
    /\ Capacities \subseteq Nat \ {0}
    /\ MaxGenerated \in Nat

VARIABLES rewrite,      \* the record of its fields
          taken,        \* history: the ranges taken
          issued        \* history: issued[g] is the ID generated g-th

vars == <<rewrite, taken, issued>>

RemoteRanges == [session : Sessions \ {LocalSession},
                 base : 1..MaxGenerated, len : 0..MaxGenerated]

Init ==
    /\ rewrite = Create(LocalSession)
    /\ taken = {}
    /\ issued = <<>>

Generate ==
    /\ rewrite.generatedIdCount < MaxGenerated
    /\ rewrite' = GenerateCompressedId(rewrite)
    /\ issued' = Append(issued, NextId(rewrite))
    /\ UNCHANGED taken

Take ==
    /\ NextCreationRange(rewrite).len # 0
    /\ rewrite' = TakeNextCreationRange(rewrite)
    /\ taken' = taken \cup {NextCreationRange(rewrite)}
    /\ UNCHANGED issued

Finalize(r) ==
    /\ rewrite' = FinalizeCreationRange(rewrite, r)
    /\ UNCHANGED <<taken, issued>>

FinalizeOwn == \E r \in taken : Finalize(r)

FinalizeRemote == \E r \in RemoteRanges : Finalize(r)

SetCapacity ==
    \E capacity \in Capacities :
        /\ rewrite' = SetClusterCapacity(rewrite, capacity)
        /\ UNCHANGED <<taken, issued>>

Next == Generate \/ Take \/ FinalizeOwn \/ FinalizeRemote \/ SetCapacity

Spec == Init /\ [][Next]_vars

-----------------------------------------------------------------------------
(* The types of the variables. *)
TypeOK ==
    /\ rewrite \in Compressor
    /\ taken \subseteq [session : Sessions, base : Nat \ {0}, len : Nat]
    /\ issued \in Seq(Int)

(* The compressor of Rust with the same clusters, sessions and IDs. *)
Abstraction(c) ==
    [sessionId |-> c.localSessionId,
     generatedIdCount |-> c.generatedIdCount,
     nextRangeBase |-> c.nextRangeBase,
     finalIdLimit |-> FinalIdLimit(c),
     clusterCapacity |-> c.clusterCapacity,
     sessions |-> c.sessionList,
     clusters |-> FinalSpace(c),
     normalizer |-> {local \in -MaxGenerated..-1 : ContainsLocal(c.normalizer, local)}]

Rust == INSTANCE IdCompressor WITH compressor <- Abstraction(rewrite)

(* Every step of the rewrite is the step of the Rust compressor for the same
   call: both refuse the same ranges, place the others in the same way, and
   issue the same IDs.                                                     *)
ImplementsRust == Rust!Spec

(* The chains hold the clusters of the final space and no other, each once
   and in the same order, and each in the chain of its own session.        *)
Linked(c) ==
    \A s \in Sessions :
        LET refs == {i \in DOMAIN c.clusterList : c.clusterList[i].session = s}
        IN  /\ DOMAIN c.chains[s] = {c.clusterList[i].place : i \in refs}
            /\ \A i, j \in refs : i < j => c.clusterList[i].place < c.clusterList[j].place
            /\ \A place \in DOMAIN c.chains[s] : c.chains[s][place].session = s

SpacesAgree == Linked(rewrite)

Ids == -(MaxGenerated + 1)..(NextBaseFinal(rewrite) + 1)
Stables == UNION {(s - 2)..(s + MaxGenerated + 4) : s \in Sessions}

HeldByOwn(final) == ByAllocatedFinal(rewrite.chains[LocalSession], final) # {}

(* Searches in chains, final space and map give, for any ID, the answer that
   the Rust compressor's tables give, but for the final ID limit, which the
   rewrite normalizes as the last ID below it (IdCompressor.ts:302).       *)
TranslationsAgree ==
    \A id \in Ids :
        /\ NormalizeToOpSpace(rewrite, id) = Rust!NormalizeToOpSpace(Abstraction(rewrite), id)
        /\ TryDecompress(rewrite, id) = Rust!Decompress(Abstraction(rewrite), id)
        /\ id # FinalIdLimit(rewrite) \/ HeldByOwn(id) =>
              \A s \in Sessions :
                 NormalizeToSessionSpace(rewrite, id, s) =
                     Rust!NormalizeToSessionSpace(Abstraction(rewrite), id, s)

ReservedByRemote(stable) ==
    \E k \in GetContainingCluster(rewrite, stable) :
        /\ k.session # LocalSession
        /\ -(stable - k.session) - 1 < LastFinalizedLocal(k)

(* So does recompression, but for UUIDs that a remote session has reserved
   and not finalized: a generation count is compared with a local ID, which
   is always the smaller (IdCompressor.ts:436).                            *)
RecompressionAgrees ==
    \A stable \in Stables :
        ReservedByRemote(stable) \/
            TryRecompress(rewrite, stable) = Rust!Recompress(Abstraction(rewrite), stable)

(* A compressor that closes and resumes from its serialized local state is
   the very compressor that was closed, if it could be serialized.         *)
ResumeIsExact ==
    MaySerialize(rewrite, TRUE) =>
        Deserialize(Serialize(rewrite, TRUE), {}) = {rewrite}

(* A new session that loads a summary agrees on every cluster and on the next
   claim, and a session that the summary already has cannot be begun again,
   whether or not the writer's own session was left out.                   *)
SummariesConverge ==
    MaySerialize(rewrite, FALSE) =>
        \A s \in Sessions :
            LET loaded == Deserialize(Serialize(rewrite, FALSE), {s})
            IN  IF ~IsEmpty(rewrite, s) THEN loaded = {}
                ELSE \E c \in loaded :
                        /\ loaded = {c}
                        /\ c.chains = rewrite.chains
                        /\ c.clusterList = rewrite.clusterList
                        /\ c.clusterCapacity = rewrite.clusterCapacity
                        /\ c.localSessionId = s

-----------------------------------------------------------------------------
(* The inductive invariant behind the above. *)

AllCapacities == Capacities \cup {DefaultClusterCapacity}

(* No cluster reserves more than was spare when it was last claimed. *)
Reserved(c) ==
    /\ c.clusterCapacity \in AllCapacities
    /\ \A i \in DOMAIN c.clusterList :
          \E capacity \in AllCapacities : Remaining(FinalSpace(c)[i]) <= capacity

(* The runs of the map descend with a gap between any two, and hold the local
   IDs that were issued.                                                   *)
RunsHold(m, locals) ==
    /\ \A i \in DOMAIN m : m[i].key - (m[i].value - 1) \in locals
    /\ \A i, j \in DOMAIN m : i < j => m[j].key < m[i].key - m[i].value
    /\ \A local \in -MaxGenerated..-1 : ContainsLocal(m, local) <=> local \in locals

IssuedLocals == {issued[g] : g \in DOMAIN issued} \cap -MaxGenerated..-1

RewriteInv ==
    /\ TypeOK
    /\ Rust!IndInv
    /\ Linked(rewrite)
    /\ Reserved(rewrite)
    /\ RunsHold(rewrite.normalizer, IssuedLocals)

(* The premise of the refinement: session IDs are random, so that none falls
   among the UUIDs that another can reserve.                               *)
SessionsFarApart ==
    \A s, u \in Sessions : \A capacity \in AllCapacities :
        s < u => s + 2 * MaxGenerated + capacity <= u

-----------------------------------------------------------------------------
(* What the repository says and the code does where sessions are far apart,
   but not where they are close, nor when a summary is due too early.      *)

(* types/idCompressor.ts:61: an ID this session was given decompresses to the
   same UUID for the lifetime of the session.                              *)
IssuedIdsDecompress ==
    \A g \in DOMAIN issued :
        TryDecompress(rewrite, issued[g]) = {LocalSession + g - 1}

(* sessions.ts:91-98: of two chains that overlap, one would have been detected
   to collide with the other when it was added.                            *)
ChainsDisjoint ==
    \A i, j \in DOMAIN rewrite.clusterList :
        LET a == FinalSpace(rewrite)[i]
            b == FinalSpace(rewrite)[j]
        IN  a.session < b.session =>
                StableOf(a.session, LastAllocatedLocal(a)) < StableOf(b.session, b.baseLocal)

(* IdCompressor.ts:461: only the local session can be empty, and it is left
   out of summaries, so that the assertion on each written session holds.  *)
SummariesCanBeWritten == MaySerialize(rewrite, FALSE)
=============================================================================
