---------------------------- MODULE Persistence -----------------------------
(***************************************************************************)
(* The serialized form of an IdCompressor (compressor/persistence.rs) and  *)
(* how it is loaded.  Only what cannot be recomputed is written: a cluster *)
(* is its session's index, capacity and count, and its base IDs are summed *)
(* up again on loading.                                                    *)
(*                                                                         *)
(* The bytes are taken four at a time.  A u32 is one such word, a u64 is   *)
(* two, the low one first.  A u128 is never read in parts and counts as    *)
(* one.  A reader that expects other fields or widths than were written    *)
(* finds itself between two numbers, as it does in the code.               *)
(***************************************************************************)
EXTENDS Compressor, StableIds, LocalRanges, FiniteSets

CONSTANT NarrowLimit    \* 2^32 in the code: numbers below it fit 32 bits

ASSUME NarrowLimitAssumption == NarrowLimit \in Positive \ {1}

Seqs == INSTANCE SequencesExt

-----------------------------------------------------------------------------
(* Writing. *)

U32(n) == <<n % NarrowLimit>>
U64(n) == <<n % NarrowLimit, n \div NarrowLimit>>
U128(n) == <<n>>
Flag(b) == U32(IF b THEN 1 ELSE 0)

MaxFinal(t) == IF t = <<>> THEN 0 ELSE MaxAllocatedFinal(t[Len(t)])

\* Mutant of Is32Bit: the width is chosen from the finalized IDs alone.
IsLimit32Bit(c) == c.finalIdLimit < NarrowLimit - 1

Is32Bit(c) == MaxFinal(c.clusters) < NarrowLimit - 1

SerializeHeader(c, isLocal) == U32(1) \o Flag(isLocal) \o Flag(Is32Bit(c))

(* The ranges of the normalizer, as its local IDs were added one by one. *)
LeadingLocals(c) ==
    LET ranges[g \in 0..c.generatedIdCount] ==
            IF g = 0 THEN <<>>
            ELSE IF -g \in c.normalizer THEN AddLocalRange(ranges[g - 1], -g, 1)
            ELSE ranges[g - 1]
    IN  ranges[c.generatedIdCount]

WriteEnds(range) == U64(GenCount(range.base)) \o U64(GenCount(range.base) + range.count - 1)

\* Mutant of SerializeNormalizer: ranges are written as their first and last ID.
SerializeNormalizerEnds(c) ==
    LET ranges == LeadingLocals(c)
    IN  U64(Len(ranges)) \o Seqs!FlattenSeq([i \in DOMAIN ranges |-> WriteEnds(ranges[i])])

WriteRange(range) == U64(GenCount(range.base)) \o U64(range.count)

SerializeNormalizer(c) ==
    LET ranges == LeadingLocals(c)
    IN  U64(Len(ranges)) \o Seqs!FlattenSeq([i \in DOMAIN ranges |-> WriteRange(ranges[i])])

(* The local session is left out, and the indices shifted, if it is certain
   that it has no cluster.                                                 *)
SessionCountDelta(c) == IF c.generatedIdCount = 0 THEN 1 ELSE 0

WriteCluster(c, cluster) ==
    LET Number(n) == IF Is32Bit(c) THEN U32(n) ELSE U64(n)
    IN  Number(Token(c, cluster.session) - SessionCountDelta(c))
            \o Number(cluster.capacity) \o Number(cluster.count)

SerializeFinalized(c) ==
    LET sessions == SubSeq(c.sessions, 1 + SessionCountDelta(c), Len(c.sessions))
    IN  U64(c.clusterCapacity)
            \o U64(Len(sessions))
            \o Seqs!FlattenSeq([i \in DOMAIN sessions |-> U128(sessions[i])])
            \o U64(Len(c.clusters))
            \o Seqs!FlattenSeq([i \in DOMAIN c.clusters |-> WriteCluster(c, c.clusters[i])])

Serialize(c) == SerializeHeader(c, FALSE) \o SerializeFinalized(c)

(* The local session is written as a UUID, unlike the list of sessions. *)
SerializeWithLocal(c) ==
    SerializeHeader(c, TRUE)
        \o U128(ToUuid(c.sessionId))
        \o U64(c.generatedIdCount)
        \o U64(c.nextRangeBase)
        \o SerializeNormalizer(c)
        \o SerializeFinalized(c)

-----------------------------------------------------------------------------
(* Loading.  A reader is given the words and where to start. *)

TakeU64(words, i) == words[i] + words[i + 1] * NarrowLimit

HasLocal(words) == words[2] # 0
Reads32Bit(words) == words[3] # 0

DeserializeNormalizer(words, i) ==
    LET Range(k) == LET base == TakeU64(words, i + 4 * k - 2)
                        count == TakeU64(words, i + 4 * k)
                    IN  {-g : g \in base..(base + count - 1)}
    IN  UNION {Range(k) : k \in 1..TakeU64(words, i)}

DeserializeLocal(words) ==
    [NewCompressor(FromUuid(words[4])) EXCEPT
        !.generatedIdCount = TakeU64(words, 5),
        !.nextRangeBase = TakeU64(words, 7),
        !.normalizer = DeserializeNormalizer(words, 9)]

FinalizedStart(words) == IF HasLocal(words) THEN 11 + 4 * TakeU64(words, 9) ELSE 4

DeserializeSessions(words, i) == [k \in 1..TakeU64(words, i) |-> words[i + 1 + k]]

(* The clusters as they were written: index, capacity and count. *)
DeserializeClusters(words, i) ==
    LET width == IF Reads32Bit(words) THEN 1 ELSE 2
        Number(at) == IF Reads32Bit(words) THEN words[at] ELSE TakeU64(words, at)
        At(at) == [index    |-> Number(at),
                   capacity |-> Number(at + width),
                   count    |-> Number(at + 2 * width)]
    IN  [k \in 1..TakeU64(words, i) |-> At(i + 2 + (k - 1) * 3 * width)]

NextBaseLocal(t, s) ==
    IF Chain(t, s) = {} THEN -1
    ELSE TailCluster(t, s).baseLocal - TailCluster(t, s).capacity

(* A session is looked up by its place in the written list, then by its ID. *)
LoadCluster(t, sessions, w) ==
    LET s == sessions[w.index + 1]
    IN  Append(t, NewCluster(t, s, NextBaseLocal(t, s), w.capacity, w.count))

LoadClusters(sessions, written) ==
    LET loaded[k \in 0..Len(written)] ==
            IF k = 0 THEN <<>> ELSE LoadCluster(loaded[k - 1], sessions, written[k])
    IN  loaded[Len(written)]

LoadSessions(own, sessions) ==
    LET loaded[k \in 0..Len(sessions)] ==
            IF k = 0 THEN own ELSE GetOrCreate(loaded[k - 1], sessions[k])
    IN  loaded[Len(sessions)]

\* Mutant of WithLimit: the final ID limit is not recomputed.
WithoutLimit(c) == c

WithLimit(c) == [c EXCEPT !.finalIdLimit = FinalLimit(c.clusters)]

(* {} if the version is unknown, or if the new session is one of the written
   ones (InvalidResumedSession).                                           *)
Deserialize(words, newSession) ==
    LET i == FinalizedStart(words)
        sessions == DeserializeSessions(words, i + 2)
        clusters == DeserializeClusters(words, i + 4 + Len(sessions))
        shell == IF HasLocal(words) THEN DeserializeLocal(words) ELSE NewCompressor(newSession)
    IN  IF words[1] # 1 \/ (~HasLocal(words) /\ newSession \in Elements(sessions))
        THEN {}
        ELSE {WithLimit([shell EXCEPT
                 !.clusterCapacity = TakeU64(words, i),
                 !.sessions = LoadSessions(@, sessions),
                 !.clusters = LoadClusters(sessions, clusters)])}

-----------------------------------------------------------------------------
(* The width of a summary's numbers is chosen without regard to the number of
   sessions: their indices are taken to fit it.                            *)
SessionsFit == IsFiniteSet(Sessions) /\ Cardinality(Sessions) <= NarrowLimit
=============================================================================
