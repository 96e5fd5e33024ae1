----------------------------- MODULE Compressor -----------------------------
(***************************************************************************)
(* The operations of IdCompressor (compressor.rs) as operators on a record *)
(* that holds its fields.  The session at index 1 of "sessions" is the one *)
(* whose token is 0, and is always the local session.  The normalizer is   *)
(* the set of local IDs it holds; SessionSpaceNormalizer.tla shows that    *)
(* its range list implements that set.  Telemetry counters are left out.   *)
(***************************************************************************)
EXTENDS ClusterTable

CONSTANT DefaultClusterCapacity

ASSUME CapacityAssumption == DefaultClusterCapacity \in Positive

NilToken == -1

Distinct(seq) == \A i, j \in DOMAIN seq : seq[i] = seq[j] => i = j

Elements(seq) == {seq[i] : i \in DOMAIN seq}

Compressors ==
    [sessionId : Sessions,
     generatedIdCount : Nat,
     nextRangeBase : Positive,      \* next_range_base_generation_count
     finalIdLimit : Nat,
     clusterCapacity : Positive,
     sessions : Seq(Sessions),
     clusters : Seq(Cluster),
     normalizer : SUBSET LocalIds]

NewCompressor(s) ==
    [sessionId |-> s,
     generatedIdCount |-> 0,
     nextRangeBase |-> 1,
     finalIdLimit |-> 0,
     clusterCapacity |-> DefaultClusterCapacity,
     sessions |-> <<s>>,
     clusters |-> <<>>,
     normalizer |-> {}]

Known(c) == Elements(c.sessions)

Token(c, s) == IF s \in Known(c)
               THEN (CHOOSE i \in DOMAIN c.sessions : c.sessions[i] = s) - 1
               ELSE NilToken

-----------------------------------------------------------------------------
(* Generation. *)

SetClusterCapacity(c, capacity) == [c EXCEPT !.clusterCapacity = capacity]

NextGenCount(c) == c.generatedIdCount + 1

ClusterOffset(c) ==
    NextGenCount(c) - GenCount(TailCluster(c.clusters, c.sessionId).baseLocal)

\* Mutant of IsNextEager: one ID more than the cluster has reserved.
IsNextEagerInclusive(c) ==
    /\ Chain(c.clusters, c.sessionId) # {}
    /\ TailCluster(c.clusters, c.sessionId).capacity >= ClusterOffset(c)

IsNextEager(c) ==
    /\ Chain(c.clusters, c.sessionId) # {}
    /\ TailCluster(c.clusters, c.sessionId).capacity > ClusterOffset(c)

NextId(c) == IF IsNextEager(c)
             THEN TailCluster(c.clusters, c.sessionId).baseFinal + ClusterOffset(c)
             ELSE -NextGenCount(c)

\* Mutant of GenerateNextId: an eager final ID is entered as a local one too.
GenerateIntoNormalizer(c) ==
    [c EXCEPT !.generatedIdCount = NextGenCount(c),
              !.normalizer = @ \cup {-NextGenCount(c)}]

GenerateNextId(c) ==
    [c EXCEPT !.generatedIdCount = NextGenCount(c),
              !.normalizer = IF IsNextEager(c) THEN @ ELSE @ \cup {NextId(c)}]

-----------------------------------------------------------------------------
(* Ranges: base is the generation count of the first ID, len their number. *)

Ranges == [session : Sessions, base : Positive, len : Nat]

\* Mutant of UntakenCount: the base of the next range is taken for its offset.
UntakenAfterBase(c) == c.generatedIdCount - c.nextRangeBase

UntakenCount(c) == c.generatedIdCount - (c.nextRangeBase - 1)

NextRange(c) ==
    [session |-> c.sessionId, base |-> c.nextRangeBase, len |-> UntakenCount(c)]

\* Mutant of TakeNextRange: the next range begins with the last ID of this one.
TakeOverlapping(c) == [c EXCEPT !.nextRangeBase = c.generatedIdCount]

TakeNextRange(c) == [c EXCEPT !.nextRangeBase = c.generatedIdCount + 1]

-----------------------------------------------------------------------------
(* Finalization. *)

Collides(c, r) ==
    LET rangeBase == StableOf(r.session, -r.base)
    IN  RangeCollides(Known(c), c.clusters, r.session,
                      rangeBase, rangeBase + r.len + c.clusterCapacity)

\* Mutant of IsInOrder: only a session's first range has to be in order.
IsFirstInOrder(t, r) == Chain(t, r.session) = {} => r.base = 1

\* Mutant of IsInOrder: a range has to follow what is reserved, not what is
\* finalized.
IsAfterReserved(t, r) ==
    IF Chain(t, r.session) = {}
    THEN -r.base = -1
    ELSE TailCluster(t, r.session).baseLocal - TailCluster(t, r.session).capacity = -r.base

IsInOrder(t, r) ==
    IF Chain(t, r.session) = {}
    THEN -r.base = -1
    ELSE TailCluster(t, r.session).baseLocal - TailCluster(t, r.session).count = -r.base

FinalizeResult(c, r) ==
    IF r.len = 0 THEN "MalformedIdRange"
    ELSE IF Collides(c, r) THEN "ClusterCollision"
    ELSE IF ~IsInOrder(c.clusters, r) THEN "RangeFinalizedOutOfOrder"
    ELSE "Ok"

\* Mutant of GetOrCreate: a new session is put first.
GetOrPrepend(sessions, s) ==
    IF s \in Elements(sessions) THEN sessions ELSE <<s>> \o sessions

GetOrCreate(sessions, s) ==
    IF s \in Elements(sessions) THEN sessions ELSE Append(sessions, s)

Remaining(t, s) == TailCluster(t, s).capacity - TailCluster(t, s).count

ClaimFirstCluster(t, r, capacity) ==
    Append(t, NewCluster(t, r.session, -r.base, capacity + r.len, r.len))

\* Mutant of FillTail: the count is replaced instead of increased.
FillTailAnew(t, r) ==
    LET i == TailIndex(t, r.session) IN Resize(t, i, t[i].capacity, r.len)

FillTail(t, r) ==
    LET i == TailIndex(t, r.session)
    IN  Resize(t, i, t[i].capacity, t[i].count + r.len)

ExpandTail(t, r, capacity) ==
    LET i == TailIndex(t, r.session)
        overflow == r.len - Remaining(t, r.session)
    IN  Resize(t, i, t[i].capacity + (overflow + capacity), t[i].count + r.len)

\* Mutant of OverflowToNew: the new cluster starts at the base of the range
\* instead of its first ID that did not fit.
OverflowFromRangeBase(t, r, capacity) ==
    LET i == TailIndex(t, r.session)
        overflow == r.len - Remaining(t, r.session)
    IN  Append(Resize(t, i, t[i].capacity, t[i].capacity),
               NewCluster(t, r.session, -r.base, overflow + capacity, overflow))

OverflowToNew(t, r, capacity) ==
    LET i == TailIndex(t, r.session)
        remaining == Remaining(t, r.session)
        overflow == r.len - remaining
    IN  Append(Resize(t, i, t[i].capacity, t[i].capacity),
               NewCluster(t, r.session, -r.base - remaining,
                          overflow + capacity, overflow))

\* Mutant of TailIsLast: every tail cluster is expanded, not just the last.
TailExists(t, s) == Chain(t, s) # {}

TailIsLast(t, s) == TailCluster(t, s).baseFinal = t[Len(t)].baseFinal

Claim(t, r, capacity) ==
    IF Chain(t, r.session) = {} THEN ClaimFirstCluster(t, r, capacity)
    ELSE IF Remaining(t, r.session) >= r.len THEN FillTail(t, r)
    ELSE IF TailIsLast(t, r.session) THEN ExpandTail(t, r, capacity)
    ELSE OverflowToNew(t, r, capacity)

\* Mutant of FinalizeRange: the final ID limit is not updated.
FinalizeKeepingLimit(c, r) ==
    IF FinalizeResult(c, r) = "Ok"
    THEN [c EXCEPT !.sessions = GetOrCreate(@, r.session),
                   !.clusters = Claim(@, r, c.clusterCapacity)]
    ELSE c

(* A range refused as out of order has already created its session. *)
FinalizeRange(c, r) ==
    LET result == FinalizeResult(c, r)
        claimed == Claim(c.clusters, r, c.clusterCapacity)
    IN  CASE result = "Ok" ->
               [c EXCEPT !.sessions = GetOrCreate(@, r.session),
                         !.clusters = claimed,
                         !.finalIdLimit = FinalLimit(claimed)]
          [] result = "RangeFinalizedOutOfOrder" ->
               [c EXCEPT !.sessions = GetOrCreate(@, r.session)]
          [] OTHER -> c

-----------------------------------------------------------------------------
(* Normalization. *)

NormalizeToOpSpace(c, id) ==
    IF id >= 0 THEN {id}
    ELSE IF id \notin c.normalizer THEN {}
    ELSE LET final == TryConvertToAllocated(c.clusters, c.sessionId, id)
         IN  IF final = {} THEN {id} ELSE final

NormalizeOwnLocal(c, id) ==
    IF id \in c.normalizer THEN {id}
    ELSE IF GenCount(id) <= c.generatedIdCount
         THEN TryConvertToAllocated(c.clusters, c.sessionId, id)
         ELSE {}

NormalizeFinal(c, id) ==
    LET own == Search(c.clusters, id) \cap Chain(c.clusters, c.sessionId)
        Own(local) == IF local \in c.normalizer THEN {local}
                      ELSE IF GenCount(local) <= c.generatedIdCount THEN {id}
                      ELSE {}
    IN  IF own # {} THEN UNION {Own(AlignedLocal(c.clusters[i], id)) : i \in own}
        ELSE IF id >= c.finalIdLimit THEN {}
        ELSE {id}

\* Mutant of NormalizeToSessionSpace: an unknown originator is an error even
\* for a final ID.
NormalizeFromKnown(c, id, originator) ==
    IF originator \notin Known(c) THEN {}
    ELSE IF id >= 0 THEN NormalizeFinal(c, id)
    ELSE IF originator = c.sessionId THEN NormalizeOwnLocal(c, id)
    ELSE TryConvertToFinal(c.clusters, originator, id)

(* An originator that is not known has no token, which is an error for a
   local ID and of no consequence for a final one.                         *)
NormalizeToSessionSpace(c, id, originator) ==
    IF id >= 0 THEN NormalizeFinal(c, id)
    ELSE IF originator \notin Known(c) THEN {}
    ELSE IF originator = c.sessionId THEN NormalizeOwnLocal(c, id)
    ELSE TryConvertToFinal(c.clusters, originator, id)

-----------------------------------------------------------------------------
(* Compression. *)

MayDecompress(c, cluster, local) ==
    \/ local >= MaxLocal(cluster)
    \/ /\ cluster.session = c.sessionId
       /\ local \notin c.normalizer
       /\ GenCount(local) <= c.generatedIdCount

Decompress(c, id) ==
    IF id < 0
    THEN IF id \in c.normalizer THEN {StableOf(c.sessionId, id)} ELSE {}
    ELSE LET t == c.clusters
         IN  {StableOf(t[i].session, AlignedLocal(t[i], id)) :
                 i \in {j \in Search(t, id) :
                           MayDecompress(c, t[j], AlignedLocal(t[j], id))}}

RecompressUnclustered(c, stable) ==
    LET local == -(stable - c.sessionId + 1)
    IN  IF /\ stable >= c.sessionId
           /\ GenCount(local) <= c.generatedIdCount
           /\ local \in c.normalizer
        THEN {local} ELSE {}

\* Mutant of RecompressIn: an own ID issued as a local one becomes final.
RecompressToFinal(c, cluster, local) ==
    IF IF cluster.session = c.sessionId
       THEN GenCount(local) <= c.generatedIdCount
       ELSE GenCount(local) < GenCount(cluster.baseLocal) + cluster.count
    THEN {AllocatedFinal(cluster, local)} ELSE {}

\* Mutant of RecompressIn: the last finalized ID of a remote cluster is missed.
RecompressBelowLast(c, cluster, local) ==
    IF cluster.session = c.sessionId
    THEN IF local \in c.normalizer THEN {local}
         ELSE IF GenCount(local) <= c.generatedIdCount
              THEN {AllocatedFinal(cluster, local)} ELSE {}
    ELSE IF GenCount(local) - GenCount(cluster.baseLocal) < cluster.count - 1
         THEN {AllocatedFinal(cluster, local)} ELSE {}

RecompressIn(c, cluster, local) ==
    IF cluster.session = c.sessionId
    THEN IF local \in c.normalizer THEN {local}
         ELSE IF GenCount(local) <= c.generatedIdCount
              THEN {AllocatedFinal(cluster, local)} ELSE {}
    ELSE IF GenCount(local) < GenCount(cluster.baseLocal) + cluster.count
         THEN {AllocatedFinal(cluster, local)} ELSE {}

Recompress(c, stable) ==
    LET t == c.clusters
        found == ContainingClusters(Known(c), t, stable)
    IN  IF found = {} THEN RecompressUnclustered(c, stable)
        ELSE UNION {RecompressIn(c, t[i], OriginatorLocal(t[i].session, stable)) : i \in found}

-----------------------------------------------------------------------------
(* What makes a compressor correct. *)

(* id is the ID the session of c was given as its g-th one: a local ID if the
   normalizer holds it, and the final ID its cluster holds for it if not.  *)
Issued(c, g, id) ==
    IF -g \in c.normalizer THEN id = -g
    ELSE \E i \in Chain(c.clusters, c.sessionId) :
           /\ HoldsLocal(c.clusters[i], -g)
           /\ id = AllocatedFinal(c.clusters[i], -g)

Held(c, g) ==
    \/ -g \in c.normalizer
    \/ \E i \in Chain(c.clusters, c.sessionId) : HoldsLocal(c.clusters[i], -g)

(* At any time the tables are correct; nothing of the own session is finalized
   or taken before it is generated, so that the subtractions of
   generate_next_id and take_next_range are never negative (compressor.rs:158,
   188); every session has one token, the own one 0, and every cluster a
   session with a token; each generated ID is held, as local or as final.  *)
CompressorInv(c) ==
    /\ c \in Compressors
    /\ TableInv(c.clusters)
    /\ c.finalIdLimit = FinalLimit(c.clusters)
    /\ c.nextRangeBase <= c.generatedIdCount + 1
    /\ NextBase(c.clusters, c.sessionId) <= c.generatedIdCount + 1
    /\ c.sessions # <<>> /\ c.sessions[1] = c.sessionId
    /\ Distinct(c.sessions)
    /\ \A i \in DOMAIN c.clusters : c.clusters[i].session \in Known(c)
    /\ c.normalizer \subseteq {-g : g \in 1..c.generatedIdCount}
    /\ \A g \in 1..c.generatedIdCount : Held(c, g)
=============================================================================
