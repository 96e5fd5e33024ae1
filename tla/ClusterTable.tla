---------------------------- MODULE ClusterTable ----------------------------
(***************************************************************************)
(* The tables of an ID compressor: the clusters of final IDs that sessions *)
(* have claimed (compressor/tables/session_space.rs and final_space.rs).   *)
(*                                                                         *)
(* The code keeps each cluster in the chain of its session and a reference *)
(* to it in the final space; every insertion pushes to both.  The model    *)
(* keeps one sequence t of clusters in final-space order, each carrying    *)
(* its session: the chain of s is the subsequence Chain(t, s).             *)
(*                                                                         *)
(* A session ID is the number of its StableId, so that SessionId + LocalId *)
(* is integer arithmetic; 0 is the nil UUID.  A local ID is a negative     *)
(* integer, a final ID a natural number.  A lookup that may fail returns a *)
(* set: {} is None / Err, {x} is Some(x) / Ok(x).  A binary search returns *)
(* whatever element its comparator calls Equal.                            *)
(***************************************************************************)
EXTENDS Integers, Sequences

CONSTANT Sessions       \* the session IDs that occur

ASSUME SessionsAssumption == Sessions \subseteq Nat \ {0}

LocalIds == {i \in Int : i < 0}
Positive == Nat \ {0}

Cluster == [session : Sessions, baseFinal : Nat, baseLocal : LocalIds,
            capacity : Positive, count : Positive]

-----------------------------------------------------------------------------
(* Local IDs and stable IDs. *)

GenCount(local) == -local

StableOf(session, local) == session + GenCount(local) - 1

-----------------------------------------------------------------------------
(* One cluster. *)

MaxLocal(c) == c.baseLocal - (c.count - 1)
MaxAllocatedLocal(c) == c.baseLocal - (c.capacity - 1)
MaxAllocatedFinal(c) == c.baseFinal + (c.capacity - 1)

AllocatedFinal(c, local) ==
    c.baseFinal + (GenCount(local) - GenCount(c.baseLocal))

AlignedLocal(c, final) == c.baseLocal - (final - c.baseFinal)

HoldsFinal(c, final) == c.baseFinal <= final /\ final <= MaxAllocatedFinal(c)

HoldsLocal(c, local) == MaxAllocatedLocal(c) <= local /\ local <= c.baseLocal
HoldsFinalizedLocal(c, local) == MaxLocal(c) <= local /\ local <= c.baseLocal

-----------------------------------------------------------------------------
(* The chain of a session. *)

Chain(t, s) == {i \in DOMAIN t : t[i].session = s}

IsTail(t, s, i) == i \in Chain(t, s) /\ \A j \in Chain(t, s) : j <= i

TailIndex(t, s) == CHOOSE i \in Chain(t, s) : IsTail(t, s, i)

TailCluster(t, s) == t[TailIndex(t, s)]

Resize(t, i, capacity, count) ==
    [t EXCEPT ![i].capacity = capacity, ![i].count = count]

MaxAllocatedStable(t, s) ==
    IF Chain(t, s) = {}
    THEN s
    ELSE StableOf(s, MaxAllocatedLocal(TailCluster(t, s)))

(* Where the next range of a session has to begin: right after its finalized
   local IDs.                                                              *)
NextBase(t, s) ==
    IF Chain(t, s) = {} THEN 1
    ELSE TailCluster(t, s).count - TailCluster(t, s).baseLocal

(* The final ID of a local ID of session s: at most one, since the clusters
   of a chain cover disjoint local IDs.  try_convert_to_final with and without
   include_allocated.                                                      *)
TryConvertToAllocated(t, s, local) ==
    {AllocatedFinal(t[i], local) : i \in {j \in Chain(t, s) : HoldsLocal(t[j], local)}}

TryConvertToFinal(t, s, local) ==
    {AllocatedFinal(t[i], local) :
        i \in {j \in Chain(t, s) : HoldsFinalizedLocal(t[j], local)}}

-----------------------------------------------------------------------------
(* The final space. *)

\* Mutant of NextBaseFinal: IDs reserved but not yet finalized are given away.
NextBaseFinalByCount(t) ==
    IF t = <<>> THEN 0 ELSE t[Len(t)].baseFinal + t[Len(t)].count

NextBaseFinal(t) ==
    IF t = <<>> THEN 0 ELSE t[Len(t)].baseFinal + t[Len(t)].capacity

\* Mutant of FinalLimit: the last finalized ID instead of the first beyond it.
LastFinal(t) ==
    IF t = <<>> THEN 0 ELSE t[Len(t)].baseFinal + t[Len(t)].count - 1

FinalLimit(t) ==
    IF t = <<>> THEN 0 ELSE t[Len(t)].baseFinal + t[Len(t)].count

Search(t, final) == {i \in DOMAIN t : HoldsFinal(t[i], final)}

NewCluster(t, s, baseLocal, capacity, count) ==
    [session |-> s, baseFinal |-> NextBaseFinal(t), baseLocal |-> baseLocal,
     capacity |-> capacity, count |-> count]

-----------------------------------------------------------------------------
(* Lookups by stable ID go to the nearest known session at or below it. *)

Nearest(known, stable) ==
    {s \in known : s <= stable /\ \A u \in known : u <= stable => u <= s}

RangeCollides(known, t, originator, rangeBase, rangeMax) ==
    \E s \in Nearest(known, rangeMax) :
        originator # s /\ rangeBase <= MaxAllocatedStable(t, s)

OriginatorLocal(s, stable) == -(stable - s) - 1

ContainingClusters(known, t, stable) ==
    {i \in DOMAIN t :
        LET s == t[i].session IN
        /\ s \in Nearest(known, stable)
        /\ stable <= MaxAllocatedStable(t, s)
        /\ HoldsLocal(t[i], OriginatorLocal(s, stable))}

-----------------------------------------------------------------------------
(* What makes a table correct. *)

(* Claims are permanent and exclusive: whatever mixture of first clusters,
   expansions and overflows the ranges caused, the clusters tile the final
   IDs from 0 with no gap and no overlap (compressor.rs:298-319).          *)
FinalsTile(t) ==
    \A i \in DOMAIN t :
        t[i].baseFinal = IF i = 1 THEN 0 ELSE t[i-1].baseFinal + t[i-1].capacity

(* The chain of each session tiles its local IDs from -1: a cluster starts
   where an earlier one of its session ends, all but the last are full, and
   none is over-full (compressor.rs:259-288).                              *)
LocalsTile(t) ==
    \A i \in DOMAIN t :
        LET earlier == {j \in Chain(t, t[i].session) : j < i}
        IN  /\ t[i].count <= t[i].capacity
            /\ IF earlier = {} THEN t[i].baseLocal = -1
               ELSE \E j \in earlier : t[i].baseLocal = t[j].baseLocal - t[j].capacity

FinalsOrdered(t) ==
    \A i, j \in DOMAIN t :
        i < j => t[i].baseFinal + t[i].capacity <= t[j].baseFinal

ChainsOrdered(t) ==
    \A i, j \in DOMAIN t :
        i < j /\ t[i].session = t[j].session =>
            /\ t[i].count = t[i].capacity
            /\ t[j].baseLocal <= t[i].baseLocal - t[i].capacity

ChainsHaveTails(t) ==
    \A s \in Sessions : Chain(t, s) # {} => \E i \in Chain(t, s) : IsTail(t, s, i)

TableInv(t) ==
    /\ t \in Seq(Cluster)
    /\ FinalsTile(t)
    /\ FinalsOrdered(t)
    /\ LocalsTile(t)
    /\ ChainsOrdered(t)
    /\ ChainsHaveTails(t)

(* Nothing t holds is taken back in u. *)
Grows(t, u) ==
    /\ Len(t) <= Len(u)
    /\ \A i \in DOMAIN t :
          /\ u[i].session = t[i].session
          /\ u[i].baseFinal = t[i].baseFinal
          /\ u[i].baseLocal = t[i].baseLocal
          /\ t[i].capacity <= u[i].capacity
          /\ t[i].count <= u[i].count
=============================================================================
