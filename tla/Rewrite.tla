------------------------------ MODULE Rewrite ------------------------------
(***************************************************************************)
(* The IdCompressor of the TypeScript rewrite (IdCompressor.ts,            *)
(* sessions.ts, finalSpace.ts), as operators on a record of its fields.    *)
(*                                                                         *)
(* A cluster lives in the chain of its session; the final space refers to  *)
(* it by session and place in the chain.  The two can come apart: a        *)
(* cluster that is found to collide stays in its chain.  A session is the  *)
(* number of its UUID, an operation that throws returns what it had        *)
(* changed by then, and a lookup returns a set: {} for undefined and for   *)
(* an error, {x} for x.  Logging and telemetry counters are left out.      *)
(***************************************************************************)
EXTENDS AppendOnlySortedMap

CONSTANTS Sessions, DefaultClusterCapacity

ASSUME RewriteAssumption ==
    /\ Sessions \subseteq Nat \ {0}
    /\ DefaultClusterCapacity \in Nat \ {0}

IdCluster == [session : Sessions, baseFinal : Nat, baseLocal : {i \in Int : i < 0},
              capacity : Nat \ {0}, count : Nat]

Compressor ==
    [localSessionId : Sessions,
     generatedIdCount : Nat,
     nextRangeBase : Nat \ {0},
     clusterCapacity : Nat \ {0},
     sessionList : Seq(Sessions),
     chains : [Sessions -> Seq(IdCluster)],
     clusterList : Seq([session : Sessions, place : Nat \ {0}]),
     normalizer : Seq([key : {i \in Int : i < 0}, value : Nat \ {0}])]

Create(s) ==
    [localSessionId |-> s,
     generatedIdCount |-> 0,
     nextRangeBase |-> 1,
     clusterCapacity |-> DefaultClusterCapacity,
     sessionList |-> <<s>>,
     chains |-> [o \in Sessions |-> <<>>],
     clusterList |-> <<>>,
     normalizer |-> <<>>]

Known(c) == {c.sessionList[i] : i \in DOMAIN c.sessionList}

IsEmpty(c, s) == c.chains[s] = <<>>

TailOf(c, s) == c.chains[s][Len(c.chains[s])]

(* The clusters the final space refers to, in its order. *)
FinalSpace(c) ==
    [i \in DOMAIN c.clusterList |-> c.chains[c.clusterList[i].session][c.clusterList[i].place]]

-----------------------------------------------------------------------------
(* One cluster. *)

LastAllocatedFinal(k) == k.baseFinal + (k.capacity - 1)
LastAllocatedLocal(k) == k.baseLocal - (k.capacity - 1)
LastFinalizedLocal(k) == k.baseLocal - (k.count - 1)

GetAllocatedFinal(k, local) ==
    {k.baseFinal + offset : offset \in {o \in {k.baseLocal - local} : o < k.capacity}}

GetAlignedLocal(k, final) == k.baseLocal - (final - k.baseFinal)

StableOf(s, local) == s + (-local - 1)

-----------------------------------------------------------------------------
(* Searches. *)

ByLocal(c, s, local, includeAllocated) ==
    {k \in {c.chains[s][i] : i \in DOMAIN c.chains[s]} :
        /\ local <= k.baseLocal
        /\ local >= IF includeAllocated THEN LastAllocatedLocal(k) ELSE LastFinalizedLocal(k)}

ByAllocatedFinal(clusters, final) ==
    {k \in {clusters[i] : i \in DOMAIN clusters} :
        k.baseFinal <= final /\ final <= LastAllocatedFinal(k)}

TryConvertToAllocated(c, s, local) ==
    UNION {GetAllocatedFinal(k, local) : k \in ByLocal(c, s, local, TRUE)}

TryConvertToFinal(c, s, local) ==
    UNION {GetAllocatedFinal(k, local) : k \in ByLocal(c, s, local, FALSE)}

Closest(sessions, stable) ==
    {s \in sessions : s <= stable /\ \A u \in sessions : u <= stable => u <= s}

GetContainingCluster(c, stable) ==
    UNION {ByLocal(c, s, -(stable - s) - 1, TRUE) :
              s \in Closest(Known(c), stable)}

FinalIdLimit(c) ==
    LET space == FinalSpace(c)
    IN  IF space = <<>> THEN 0 ELSE space[Len(space)].baseFinal + space[Len(space)].count

-----------------------------------------------------------------------------
(* Generation. *)

SetClusterCapacity(c, capacity) == [c EXCEPT !.clusterCapacity = capacity]

ClusterOffset(c) ==
    c.generatedIdCount + 1 + TailOf(c, c.localSessionId).baseLocal

HasEager(c) ==
    /\ ~IsEmpty(c, c.localSessionId)
    /\ TailOf(c, c.localSessionId).capacity > ClusterOffset(c)

NextId(c) ==
    IF HasEager(c) THEN TailOf(c, c.localSessionId).baseFinal + ClusterOffset(c)
    ELSE -(c.generatedIdCount + 1)

GenerateCompressedId(c) ==
    [c EXCEPT !.generatedIdCount = @ + 1,
              !.normalizer = IF HasEager(c) THEN @ ELSE AddLocals(@, NextId(c), 1)]

(* A range names its session, first generation count and length. *)
NextCreationRange(c) ==
    [session |-> c.localSessionId, base |-> c.nextRangeBase,
     len |-> c.generatedIdCount - (c.nextRangeBase - 1)]

TakeNextCreationRange(c) == [c EXCEPT !.nextRangeBase = c.generatedIdCount + 1]

-----------------------------------------------------------------------------
(* Finalization. *)

GetOrCreate(c, s) ==
    IF s \in Known(c) THEN c ELSE [c EXCEPT !.sessionList = Append(@, s)]

NextBaseFinal(c) ==
    LET space == FinalSpace(c)
    IN  IF space = <<>> THEN 0
        ELSE space[Len(space)].baseFinal + space[Len(space)].capacity

\* Mutant of ClusterCollides: the nearest session is too near however far it is.
ClusterCollidesWithNearest(c, s, baseLocal, capacity) ==
    LET others == {o \in Known(c) \ {s} : ~IsEmpty(c, o)}
    IN  Closest(others, StableOf(s, baseLocal) + (capacity - 1)) # {}

(* Whether the UUIDs of a cluster reach into those of the nearest other
   session that has any.                                                   *)
ClusterCollides(c, s, baseLocal, capacity) ==
    LET base   == StableOf(s, baseLocal)
        others == {o \in Known(c) \ {s} : ~IsEmpty(c, o)}
    IN  \E o \in Closest(others, base + (capacity - 1)) :
            StableOf(o, LastAllocatedLocal(TailOf(c, o))) >= base

(* The cluster is pushed to its chain before it is tested for a collision,
   which keeps it from the final space and from being filled.              *)
AddCluster(c, s, baseLocal, capacity, count) ==
    LET collides == ClusterCollides(c, s, baseLocal, capacity)
        cluster  == [session |-> s, baseFinal |-> NextBaseFinal(c),
                     baseLocal |-> baseLocal, capacity |-> capacity,
                     count |-> IF collides THEN 0 ELSE count]
    IN  [c EXCEPT !.chains[s] = Append(@, cluster),
                  !.clusterList =
                      IF collides THEN @
                      ELSE Append(@, [session |-> s, place |-> Len(c.chains[s]) + 1])]

ChangeTail(c, s, capacity, count) ==
    [c EXCEPT !.chains[s][Len(c.chains[s])].capacity = capacity,
              !.chains[s][Len(c.chains[s])].count = count]

TailIsLast(c, s) ==
    /\ c.clusterList # <<>>
    /\ c.clusterList[Len(c.clusterList)] = [session |-> s, place |-> Len(c.chains[s])]

IsInOrder(c, r) ==
    IF IsEmpty(c, r.session) THEN -r.base = -1
    ELSE TailOf(c, r.session).baseLocal - TailOf(c, r.session).count = -r.base

Remaining(k) == k.capacity - k.count

\* Mutant of Fits: a range that fills the cluster exactly does not fit.
FitsWithRoom(k, r) == Remaining(k) > r.len

Fits(k, r) == Remaining(k) >= r.len

Claim(c, r) ==
    LET s == r.session
        tail == TailOf(c, s)
        remaining == Remaining(tail)
        claimed == (r.len - remaining) + c.clusterCapacity
    IN  IF IsEmpty(c, s) THEN AddCluster(c, s, -r.base, c.clusterCapacity + r.len, r.len)
        ELSE IF Fits(tail, r) THEN ChangeTail(c, s, tail.capacity, tail.count + r.len)
        ELSE IF TailIsLast(c, s)
             THEN ChangeTail(c, s, tail.capacity + claimed, tail.count + r.len)
        ELSE AddCluster(ChangeTail(c, s, tail.capacity, tail.capacity),
                        s, -r.base - remaining, claimed, r.len - remaining)

(* The session is created before the order of the range is looked at. *)
FinalizeCreationRange(c, r) ==
    LET created == GetOrCreate(c, r.session)
    IN  IF r.len = 0 THEN c
        ELSE IF ~IsInOrder(created, r) THEN created
        ELSE Claim(created, r)

-----------------------------------------------------------------------------
(* Normalization. *)

NormalizeToOpSpace(c, id) ==
    IF id >= 0 THEN {id}
    ELSE IF ~ContainsLocal(c.normalizer, id) THEN {}
    ELSE LET final == TryConvertToAllocated(c, c.localSessionId, id)
         IN  IF final = {} THEN {id} ELSE final

NormalizeOwnFinal(c, id, local) ==
    IF ContainsLocal(c.normalizer, local) THEN {local}
    ELSE IF -local <= c.generatedIdCount THEN {id}
    ELSE {}

NormalizeFinal(c, id) ==
    LET own == ByAllocatedFinal(c.chains[c.localSessionId], id)
    IN  IF own # {} THEN UNION {NormalizeOwnFinal(c, id, GetAlignedLocal(k, id)) : k \in own}
        ELSE IF id > FinalIdLimit(c) THEN {}
        ELSE {id}

NormalizeOwnLocal(c, id) ==
    IF ContainsLocal(c.normalizer, id) THEN {id}
    ELSE IF -id <= c.generatedIdCount THEN TryConvertToAllocated(c, c.localSessionId, id)
    ELSE {}

\* Mutant of NormalizeToSessionSpace: IDs that a remote session has merely
\* reserved are normalized too.
NormalizeReserved(c, id, originSessionId) ==
    IF id >= 0 THEN NormalizeFinal(c, id)
    ELSE IF originSessionId = c.localSessionId THEN NormalizeOwnLocal(c, id)
    ELSE IF originSessionId \notin Known(c) THEN {}
    ELSE TryConvertToAllocated(c, originSessionId, id)

NormalizeToSessionSpace(c, id, originSessionId) ==
    IF id >= 0 THEN NormalizeFinal(c, id)
    ELSE IF originSessionId = c.localSessionId THEN NormalizeOwnLocal(c, id)
    ELSE IF originSessionId \notin Known(c) THEN {}
    ELSE TryConvertToFinal(c, originSessionId, id)

-----------------------------------------------------------------------------
(* Compression. *)

MayDecompress(c, k, local) ==
    \/ local >= LastFinalizedLocal(k)
    \/ /\ k.session = c.localSessionId
       /\ ~ContainsLocal(c.normalizer, local)
       /\ -local <= c.generatedIdCount

TryDecompress(c, id) ==
    IF id >= 0
    THEN {StableOf(k.session, GetAlignedLocal(k, id)) :
             k \in {k \in ByAllocatedFinal(FinalSpace(c), id) :
                       MayDecompress(c, k, GetAlignedLocal(k, id))}}
    ELSE IF ContainsLocal(c.normalizer, id) THEN {StableOf(c.localSessionId, id)}
    ELSE {}

RecompressUnclustered(c, stable) ==
    LET local == -(stable - c.localSessionId + 1)
    IN  IF ContainsLocal(c.normalizer, local) THEN {local} ELSE {}

\* Mutant of RecompressIn: an own ID issued as a local one becomes final.
RecompressToFinal(c, k, local) ==
    IF k.session = c.localSessionId
    THEN IF -local <= c.generatedIdCount THEN GetAllocatedFinal(k, local) ELSE {}
    ELSE IF -local >= LastFinalizedLocal(k) THEN GetAllocatedFinal(k, local)
    ELSE {}

(* For a remote session the code compares a generation count with a local ID,
   which is always the smaller of the two.                                 *)
RecompressIn(c, k, local) ==
    IF k.session = c.localSessionId
    THEN IF ContainsLocal(c.normalizer, local) THEN {local}
         ELSE IF -local <= c.generatedIdCount THEN GetAllocatedFinal(k, local)
         ELSE {}
    ELSE IF -local >= LastFinalizedLocal(k) THEN GetAllocatedFinal(k, local)
    ELSE {}

TryRecompress(c, stable) ==
    LET found == GetContainingCluster(c, stable)
    IN  IF found = {} THEN RecompressUnclustered(c, stable)
        ELSE UNION {RecompressIn(c, k, -(stable - k.session) - 1) : k \in found}

-----------------------------------------------------------------------------
(* Persistence. *)

IndexOffset(c, withSession) ==
    IF ~withSession /\ c.generatedIdCount = 0 THEN 1 ELSE 0

WrittenSessions(c, withSession) ==
    SubSeq(c.sessionList, 1 + IndexOffset(c, withSession), Len(c.sessionList))

(* The assertion on each session that is written. *)
MaySerialize(c, withSession) ==
    \A i \in DOMAIN WrittenSessions(c, withSession) :
        LET s == WrittenSessions(c, withSession)[i]
        IN  ~IsEmpty(c, s) \/ (withSession /\ s = c.localSessionId)

Flag(b) == IF b THEN 1 ELSE 0

(* Numbers, a flag and UUIDs, each of a width of its own, which are counted as
   one word each.  The local state is in two parts, the sessions in between. *)
Serialize(c, withSession) ==
    LET sessions == WrittenSessions(c, withSession)
        IndexOf(s) == (CHOOSE i \in DOMAIN sessions : sessions[i] = s) - 1
        pairs == [i \in DOMAIN c.normalizer |-> <<-c.normalizer[i].key, c.normalizer[i].value>>]
        clusters == [i \in DOMAIN c.clusterList |->
                        LET k == FinalSpace(c)[i] IN <<IndexOf(k.session), k.capacity, k.count>>]
    IN  <<1, Flag(withSession)>>
        \o (IF withSession THEN <<c.localSessionId>> ELSE <<>>)
        \o <<Len(sessions)>> \o sessions
        \o (IF withSession THEN <<c.generatedIdCount, c.nextRangeBase, Len(pairs)>>
                                    \o Seqs!FlattenSeq(pairs)
                           ELSE <<>>)
        \o <<c.clusterCapacity, Len(clusters)>> \o Seqs!FlattenSeq(clusters)

HasLocalState(words) == words[2] = 1

(* Where the reader finds the three parts. *)
SessionsAt(words) == IF HasLocalState(words) THEN 4 ELSE 3
LocalAt(words) == SessionsAt(words) + words[SessionsAt(words)] + 1
ClustersAt(words) ==
    IF HasLocalState(words) THEN LocalAt(words) + 3 + 2 * words[LocalAt(words) + 2]
    ELSE LocalAt(words)

LoadedNormalizer(words) ==
    LET at == LocalAt(words) + 2
        loaded[i \in 0..words[at]] ==
            IF i = 0 THEN <<>>
            ELSE AddLocals(loaded[i - 1], -words[at + 2 * i - 1], words[at + 2 * i])
    IN  loaded[words[at]]

\* Mutant of LoadLocal: the base of the next range starts over.
LoadLocalAnew(c, words) ==
    IF ~HasLocalState(words) THEN c
    ELSE [c EXCEPT !.generatedIdCount = words[LocalAt(words)],
                   !.normalizer = LoadedNormalizer(words)]

LoadLocal(c, words) ==
    IF ~HasLocalState(words) THEN c
    ELSE [c EXCEPT !.generatedIdCount = words[LocalAt(words)],
                   !.nextRangeBase = words[LocalAt(words) + 1],
                   !.normalizer = LoadedNormalizer(words)]

(* Loading adds a cluster without testing it for a collision. *)
LoadCluster(c, session, capacity, count) ==
    [c EXCEPT
        !.chains[session] =
            Append(@, [session |-> session,
                       baseFinal |-> NextBaseFinal(c),
                       baseLocal |-> IF IsEmpty(c, session) THEN -1
                                     ELSE LastAllocatedLocal(TailOf(c, session)) - 1,
                       capacity |-> capacity,
                       count |-> count]),
        !.clusterList = Append(@, [session |-> session, place |-> Len(c.chains[session]) + 1])]

WrittenList(words) == SubSeq(words, SessionsAt(words) + 1, LocalAt(words) - 1)

\* Mutant of LoadedSessions: the new session is added after the written ones.
LoadedSessionsLast(words, own) ==
    WrittenList(words) \o (IF HasLocalState(words) THEN <<>> ELSE <<own>>)

(* The new session comes first, which shifts the written indices. *)
LoadedSessions(words, own) ==
    (IF HasLocalState(words) THEN <<>> ELSE <<own>>) \o WrittenList(words)

(* The session to begin is the one given; none may be if one is resumed.  {}
   for a failed assertion, which is also that a session is listed twice.   *)
Deserialize(words, given) ==
    LET at == ClustersAt(words)
        own == IF HasLocalState(words) THEN words[3] ELSE CHOOSE s \in given : TRUE
        sessions == LoadedSessions(words, own)
        offset == Flag(~HasLocalState(words))
        shell == [Create(own) EXCEPT !.sessionList = sessions, !.clusterCapacity = words[at]]
        loaded[i \in 0..words[at + 1]] ==
            IF i = 0 THEN LoadLocal(shell, words)
            ELSE LoadCluster(loaded[i - 1], sessions[words[at + 3 * i - 1] + offset + 1],
                             words[at + 3 * i], words[at + 3 * i + 1])
    IN  IF \/ HasLocalState(words) = (given # {})
           \/ \E i, j \in DOMAIN sessions : i # j /\ sessions[i] = sessions[j]
        THEN {}
        ELSE {loaded[words[at + 1]]}
=============================================================================
