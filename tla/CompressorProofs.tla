-------------------------- MODULE CompressorProofs --------------------------
(***************************************************************************)
(* Lemmas about the cluster tables: what the two ways of changing a table  *)
(* (resizing the tail cluster of a chain, appending a cluster) preserve;   *)
(* and about the operations of the compressor: what finalizing a range     *)
(* does to the tables, along each of its four paths.                       *)
(***************************************************************************)
EXTENDS Compressor, SequenceTheorems, WellFoundedInduction, TLAPS

(* u is t with cluster k given another capacity and count. *)
Resized(t, u, k) ==
    /\ u \in Seq(Cluster)
    /\ Len(u) = Len(t)
    /\ k \in DOMAIN t
    /\ \A i \in DOMAIN t : i # k => u[i] = t[i]
    /\ u[k].session = t[k].session
    /\ u[k].baseFinal = t[k].baseFinal
    /\ u[k].baseLocal = t[k].baseLocal
    /\ t[k].capacity <= u[k].capacity
    /\ t[k].count <= u[k].count
    /\ u[k].count <= u[k].capacity

-----------------------------------------------------------------------------
(* A table's clusters are records of numbers, indexed from 1. *)
LEMMA TableTypes ==
    ASSUME NEW t \in Seq(Cluster)
    PROVE  /\ Len(t) \in Nat
           /\ DOMAIN t = 1..Len(t)
           /\ \A i \in DOMAIN t :
                 /\ t[i] \in Cluster
                 /\ t[i].session \in Sessions
                 /\ t[i].baseFinal \in Nat
                 /\ t[i].baseLocal \in Int /\ t[i].baseLocal < 0
                 /\ t[i].capacity \in Nat /\ t[i].capacity > 0
                 /\ t[i].count \in Nat /\ t[i].count > 0
<1>1. Len(t) \in Nat /\ DOMAIN t = 1..Len(t)
  OBVIOUS
<1>2. \A i \in DOMAIN t : t[i] \in Cluster
  BY <1>1
<1>3. ASSUME NEW c \in Cluster
      PROVE  /\ c.session \in Sessions
             /\ c.baseFinal \in Nat
             /\ c.baseLocal \in Int /\ c.baseLocal < 0
             /\ c.capacity \in Nat /\ c.capacity > 0
             /\ c.count \in Nat /\ c.count > 0
  BY DEF Cluster, Positive, LocalIds
<1> QED
  BY <1>1, <1>2, <1>3

(* A session with a cluster has a tail cluster, and TailIndex finds it. *)
LEMMA TailIndexIsTail ==
    ASSUME NEW t, TableInv(t), NEW s \in Sessions, Chain(t, s) # {}
    PROVE  /\ IsTail(t, s, TailIndex(t, s))
           /\ TailIndex(t, s) \in DOMAIN t
           /\ t[TailIndex(t, s)].session = s
<1>1. PICK i \in Chain(t, s) : IsTail(t, s, i)
  BY DEF TableInv, ChainsHaveTails
<1>2. IsTail(t, s, TailIndex(t, s))
  BY <1>1 DEF TailIndex
<1> QED
  BY <1>2 DEF IsTail, Chain

(* There is only one tail. *)
LEMMA TailIsUnique ==
    ASSUME NEW t \in Seq(Cluster), NEW s, NEW i, NEW j, IsTail(t, s, i), IsTail(t, s, j)
    PROVE  i = j
BY TableTypes DEF IsTail, Chain

(* Resizing a cluster leaves every chain and every tail where it was. *)
LEMMA ResizedSameChains ==
    ASSUME NEW t \in Seq(Cluster), NEW u, NEW k, Resized(t, u, k)
    PROVE  /\ DOMAIN u = DOMAIN t
           /\ \A i \in DOMAIN t : u[i].session = t[i].session
           /\ \A s : Chain(u, s) = Chain(t, s)
<1>1. u \in Seq(Cluster) /\ DOMAIN u = DOMAIN t
  BY TableTypes DEF Resized
<1>2. \A i \in DOMAIN t : u[i].session = t[i].session
  BY DEF Resized
<1> QED
  BY <1>1, <1>2 DEF Chain

(* A resize that shrinks neither capacity nor count makes the table grow. *)
LEMMA ResizedGrows ==
    ASSUME NEW t \in Seq(Cluster), NEW u, NEW k, Resized(t, u, k)
    PROVE  Grows(t, u)
<1>1. ASSUME NEW i \in DOMAIN t
      PROVE  /\ u[i].session = t[i].session
             /\ u[i].baseFinal = t[i].baseFinal
             /\ u[i].baseLocal = t[i].baseLocal
             /\ t[i].capacity <= u[i].capacity
             /\ t[i].count <= u[i].count
  <2>1. CASE i = k
    BY <2>1 DEF Resized
  <2>2. CASE i # k
    <3>1. u[i] = t[i]
      BY <2>2 DEF Resized
    <3> QED
      BY <3>1, TableTypes
  <2> QED
    BY <2>1, <2>2
<1>2. Len(t) <= Len(u)
  BY TableTypes DEF Resized
<1> QED
  BY <1>1, <1>2 DEF Grows

(* Giving a tail cluster more IDs, and more room if it is also the last one
   of the final space, keeps the table correct.                            *)
LEMMA ResizeTail ==
    ASSUME NEW t, TableInv(t), NEW u, NEW k, Resized(t, u, k),
           IsTail(t, t[k].session, k),
           u[k].capacity = t[k].capacity \/ k = Len(t)
    PROVE  TableInv(u)
<1> t \in Seq(Cluster) /\ u \in Seq(Cluster) /\ k \in DOMAIN t
  BY DEF TableInv, Resized
<1> USE TableTypes
<1>0. /\ DOMAIN u = DOMAIN t
      /\ \A i \in DOMAIN t : u[i].session = t[i].session
      /\ \A s : Chain(u, s) = Chain(t, s)
  BY ResizedSameChains
<1>1. \A i \in DOMAIN t : /\ u[i].baseFinal = t[i].baseFinal
                          /\ u[i].baseLocal = t[i].baseLocal
                          /\ i # k => u[i] = t[i]
                          /\ i # Len(t) => u[i].capacity = t[i].capacity
  BY DEF Resized
<1>2. FinalsTile(u)
  <2> SUFFICES ASSUME NEW i \in DOMAIN t
               PROVE  u[i].baseFinal = IF i = 1 THEN 0
                                       ELSE u[i-1].baseFinal + u[i-1].capacity
    BY <1>0 DEF FinalsTile
  <2>1. t[i].baseFinal = IF i = 1 THEN 0 ELSE t[i-1].baseFinal + t[i-1].capacity
    BY DEF TableInv, FinalsTile
  <2>2. i # 1 => i-1 \in DOMAIN t /\ i-1 # Len(t)
    OBVIOUS
  <2> QED
    BY <1>1, <2>1, <2>2
<1>3. FinalsOrdered(u)
  BY <1>0, <1>1 DEF TableInv, FinalsOrdered
<1>4. ASSUME NEW i \in DOMAIN t, NEW j \in DOMAIN t, i < j, t[i].session = t[j].session
      PROVE  u[i] = t[i]
  <2>1. i # k
    BY <1>4 DEF IsTail, Chain
  <2> QED
    BY <2>1, <1>1
<1>5. LocalsTile(u)
  <2> SUFFICES ASSUME NEW i \in DOMAIN u
               PROVE  LET earlier == {j \in Chain(u, u[i].session) : j < i}
                      IN  /\ u[i].count <= u[i].capacity
                          /\ IF earlier = {} THEN u[i].baseLocal = -1
                             ELSE \E j \in earlier : u[i].baseLocal = u[j].baseLocal - u[j].capacity
    BY DEF LocalsTile
  <2> DEFINE earlier == {j \in Chain(t, t[i].session) : j < i}
  <2>1. earlier = {j \in Chain(u, u[i].session) : j < i}
    BY <1>0
  <2>2. u[i].count <= u[i].capacity
    BY <1>0, <1>1 DEF Resized, TableInv, LocalsTile
  <2>3. IF earlier = {} THEN t[i].baseLocal = -1
        ELSE \E j \in earlier : t[i].baseLocal = t[j].baseLocal - t[j].capacity
    BY <1>0 DEF TableInv, LocalsTile
  <2>4. \A j \in earlier : u[j] = t[j]
    BY <1>0, <1>4 DEF Chain
  <2> QED
    BY <1>0, <1>1, <2>1, <2>2, <2>3, <2>4
<1>6. ChainsOrdered(u)
  BY <1>0, <1>1, <1>4 DEF TableInv, ChainsOrdered
<1>7. ChainsHaveTails(u)
  BY <1>0 DEF TableInv, ChainsHaveTails, IsTail
<1> QED
  BY <1>2, <1>3, <1>5, <1>6, <1>7 DEF TableInv

-----------------------------------------------------------------------------
(* u is t with cluster c appended. *)
LEMMA AppendedTable ==
    ASSUME NEW t \in Seq(Cluster), NEW c \in Cluster
    PROVE  /\ Append(t, c) \in Seq(Cluster)
           /\ Len(Append(t, c)) = Len(t) + 1
           /\ DOMAIN Append(t, c) = 1..(Len(t) + 1)
           /\ \A i \in DOMAIN t : Append(t, c)[i] = t[i]
           /\ Append(t, c)[Len(t) + 1] = c
BY AppendProperties

(* c may follow the clusters of t: it starts at the first unclaimed final ID
   and at the first local ID its session's chain, which is full, lacks.    *)
MayFollow(t, c) ==
    /\ c \in Cluster
    /\ c.baseFinal = NextBaseFinal(t)
    /\ c.count <= c.capacity
    /\ Chain(t, c.session) = {} => c.baseLocal = -1
    /\ \A k \in Chain(t, c.session) : IsTail(t, c.session, k) =>
          /\ t[k].count = t[k].capacity
          /\ c.baseLocal = t[k].baseLocal - t[k].capacity

(* Appending a cluster that may follow preserves the table's invariant, and
   the table only grows.                                                   *)
LEMMA AddCluster ==
    ASSUME NEW t, TableInv(t), NEW c, MayFollow(t, c)
    PROVE  TableInv(Append(t, c)) /\ Grows(t, Append(t, c))
<1> DEFINE u == Append(t, c)
           n == Len(t) + 1
<1> t \in Seq(Cluster) /\ c \in Cluster
  BY DEF TableInv, MayFollow
<1> USE TableTypes
<1>0. /\ u \in Seq(Cluster)
      /\ Len(u) = n /\ n \in Nat
      /\ DOMAIN t = 1..Len(t)
      /\ DOMAIN u = 1..n /\ DOMAIN t \subseteq DOMAIN u /\ n \in DOMAIN u
      /\ \A i \in DOMAIN t : u[i] = t[i] /\ i < n
      /\ \A i \in DOMAIN u : i = n \/ i \in DOMAIN t
      /\ u[n] = c
  BY AppendedTable
<1> HIDE DEF u, n
<1>1. /\ \A s : s # c.session => Chain(u, s) = Chain(t, s)
      /\ Chain(u, c.session) = Chain(t, c.session) \cup {n}
      /\ \A s : \A j \in Chain(t, s) : j \in DOMAIN t /\ t[j].session = s
  <2>1. ASSUME NEW s
        PROVE  Chain(u, s) = IF s = c.session THEN Chain(t, s) \cup {n} ELSE Chain(t, s)
    <3>1. \A j \in DOMAIN u : u[j].session = IF j = n THEN c.session ELSE t[j].session
      BY <1>0
    <3>2. \A j : j \in DOMAIN u <=> j = n \/ j \in DOMAIN t
      BY <1>0
    <3>3. \A j \in DOMAIN t : j # n
      BY <1>0
    <3> QED
      BY <3>1, <3>2, <3>3 DEF Chain
  <2> QED
    BY <2>1 DEF Chain
<1>2. ASSUME NEW i \in DOMAIN t
      PROVE  t[i].baseFinal + t[i].capacity <= c.baseFinal
  <2>1. c.baseFinal = t[Len(t)].baseFinal + t[Len(t)].capacity /\ Len(t) \in DOMAIN t
    BY <1>0 DEF MayFollow, NextBaseFinal
  <2>2. CASE i = Len(t)
    BY <2>1, <2>2
  <2>3. CASE i # Len(t)
    <3>1. i < Len(t)
      BY <2>3, <1>0
    <3>2. t[i].baseFinal + t[i].capacity <= t[Len(t)].baseFinal
      BY <2>1, <3>1 DEF TableInv, FinalsOrdered
    <3> QED
      BY <2>1, <3>2
  <2> QED
    BY <2>2, <2>3
<1>3. ASSUME NEW i \in Chain(t, c.session)
      PROVE  /\ t[i].count = t[i].capacity
             /\ c.baseLocal <= t[i].baseLocal - t[i].capacity
  <2> DEFINE k == TailIndex(t, c.session)
  <2>1. IsTail(t, c.session, k) /\ k \in DOMAIN t /\ k \in Chain(t, c.session)
    <3>1. c.session \in Sessions
      BY DEF Cluster
    <3> QED
      BY <3>1, TailIndexIsTail DEF IsTail
  <2> HIDE DEF k
  <2>2. t[k].count = t[k].capacity /\ c.baseLocal = t[k].baseLocal - t[k].capacity
    BY <2>1 DEF MayFollow
  <2>3. CASE i = k
    BY <2>1, <2>2, <2>3
  <2>4. CASE i # k
    <3>1. i \in DOMAIN t /\ i < k /\ t[i].session = t[k].session
      BY <2>1, <2>4, <1>1 DEF IsTail
    <3>2. t[i].count = t[i].capacity /\ t[k].baseLocal <= t[i].baseLocal - t[i].capacity
      BY <2>1, <3>1 DEF TableInv, ChainsOrdered
    <3> QED
      BY <2>1, <2>2, <3>1, <3>2
  <2> QED
    BY <2>3, <2>4
<1>4. FinalsTile(u)
  <2> SUFFICES ASSUME NEW i \in DOMAIN u
               PROVE  u[i].baseFinal = IF i = 1 THEN 0
                                       ELSE u[i-1].baseFinal + u[i-1].capacity
    BY DEF FinalsTile
  <2>1. CASE i \in DOMAIN t
    <3>1. t[i].baseFinal = IF i = 1 THEN 0 ELSE t[i-1].baseFinal + t[i-1].capacity
      BY <2>1 DEF TableInv, FinalsTile
    <3>2. i # 1 => i-1 \in DOMAIN t
      BY <2>1, <1>0
    <3> QED
      BY <1>0, <2>1, <3>1, <3>2
  <2>2. CASE i = n
    <3>1. CASE t = <<>>
      BY <3>1, <2>2, <1>0 DEF MayFollow, NextBaseFinal, n
    <3>2. CASE t # <<>>
      <4>1. Len(t) \in DOMAIN t /\ n - 1 = Len(t) /\ n # 1
        BY <3>2, <1>0 DEF n
      <4>2. c.baseFinal = t[Len(t)].baseFinal + t[Len(t)].capacity
        BY <3>2 DEF MayFollow, NextBaseFinal
      <4> QED
        BY <4>1, <4>2, <2>2, <1>0
    <3> QED
      BY <3>1, <3>2
  <2> QED
    BY <2>1, <2>2, <1>0
<1>5. FinalsOrdered(u)
  <2> SUFFICES ASSUME NEW i \in DOMAIN u, NEW j \in DOMAIN u, i < j
               PROVE  u[i].baseFinal + u[i].capacity <= u[j].baseFinal
    BY DEF FinalsOrdered
  <2>1. i \in DOMAIN t /\ u[i] = t[i]
    BY <1>0
  <2>2. CASE j \in DOMAIN t
    BY <2>1, <2>2, <1>0 DEF TableInv, FinalsOrdered
  <2>3. CASE j = n
    BY <2>1, <2>3, <1>0, <1>2
  <2> QED
    BY <2>2, <2>3, <1>0
<1>6. LocalsTile(u)
  <2> SUFFICES ASSUME NEW i \in DOMAIN u
               PROVE  LET earlier == {j \in Chain(u, u[i].session) : j < i}
                      IN  /\ u[i].count <= u[i].capacity
                          /\ IF earlier = {} THEN u[i].baseLocal = -1
                             ELSE \E j \in earlier : u[i].baseLocal = u[j].baseLocal - u[j].capacity
    BY DEF LocalsTile
  <2>1. CASE i \in DOMAIN t
    <3>1. {j \in Chain(u, u[i].session) : j < i} = {j \in Chain(t, t[i].session) : j < i}
      <4>1. u[i].session = t[i].session
        BY <2>1, <1>0
      <4>2. \A j \in Chain(u, t[i].session) : j = n \/ j \in Chain(t, t[i].session)
        BY <1>1
      <4>3. Chain(t, t[i].session) \subseteq Chain(u, t[i].session)
        BY <1>1
      <4>4. ~(n < i)
        BY <2>1, <1>0
      <4> QED
        BY <4>1, <4>2, <4>3, <4>4
    <3>2. LET earlier == {j \in Chain(t, t[i].session) : j < i}
          IN  /\ t[i].count <= t[i].capacity
              /\ IF earlier = {} THEN t[i].baseLocal = -1
                 ELSE \E j \in earlier : t[i].baseLocal = t[j].baseLocal - t[j].capacity
      BY <2>1 DEF TableInv, LocalsTile
    <3>3. \A j \in Chain(t, t[i].session) : u[j] = t[j]
      BY <1>0, <1>1
    <3> QED
      BY <2>1, <3>1, <3>2, <3>3, <1>0
  <2>2. CASE i = n
    <3>1. {j \in Chain(u, u[i].session) : j < i} = Chain(t, c.session)
      BY <2>2, <1>0, <1>1
    <3>2. Chain(t, c.session) # {} =>
            \E j \in Chain(t, c.session) : c.baseLocal = t[j].baseLocal - t[j].capacity
      <4>1. c.session \in Sessions
        BY DEF Cluster
      <4> QED
        BY <4>1, TailIndexIsTail DEF MayFollow, IsTail
    <3> QED
      BY <2>2, <3>1, <3>2, <1>0, <1>1 DEF MayFollow
  <2> QED
    BY <2>1, <2>2, <1>0
<1>7. ChainsOrdered(u)
  <2> SUFFICES ASSUME NEW i \in DOMAIN u, NEW j \in DOMAIN u,
                      i < j, u[i].session = u[j].session
               PROVE  /\ u[i].count = u[i].capacity
                      /\ u[j].baseLocal <= u[i].baseLocal - u[i].capacity
    BY DEF ChainsOrdered
  <2>1. i \in DOMAIN t /\ u[i] = t[i]
    BY <1>0
  <2>2. CASE j \in DOMAIN t
    BY <2>1, <2>2, <1>0 DEF TableInv, ChainsOrdered
  <2>3. CASE j = n
    BY <2>1, <2>3, <1>0, <1>3 DEF Chain
  <2> QED
    BY <2>2, <2>3, <1>0
<1>8. ChainsHaveTails(u)
  <2> SUFFICES ASSUME NEW s \in Sessions, Chain(u, s) # {}
               PROVE  \E i \in Chain(u, s) : IsTail(u, s, i)
    BY DEF ChainsHaveTails
  <2>1. CASE s = c.session
    <3>1. n \in Chain(u, s)
      BY <2>1, <1>1
    <3>2. \A j \in Chain(u, s) : j <= n
      BY <1>0 DEF Chain
    <3> QED
      BY <3>1, <3>2 DEF IsTail
  <2>2. CASE s # c.session
    BY <2>2, <1>1 DEF TableInv, ChainsHaveTails, IsTail
  <2> QED
    BY <2>1, <2>2
<1>9. Grows(t, u)
  BY <1>0 DEF Grows, n
<1> QED
  BY <1>0, <1>4, <1>5, <1>6, <1>7, <1>8, <1>9 DEF TableInv, u

-----------------------------------------------------------------------------
(* Within one cluster, final and local IDs correspond. *)
LEMMA ClusterInverse ==
    ASSUME NEW c \in Cluster
    PROVE  /\ \A local \in Int : HoldsLocal(c, local) =>
                 /\ AllocatedFinal(c, local) \in Nat
                 /\ HoldsFinal(c, AllocatedFinal(c, local))
                 /\ AlignedLocal(c, AllocatedFinal(c, local)) = local
           /\ \A final \in Int : HoldsFinal(c, final) =>
                 /\ AlignedLocal(c, final) \in LocalIds
                 /\ HoldsLocal(c, AlignedLocal(c, final))
                 /\ AllocatedFinal(c, AlignedLocal(c, final)) = final
<1>1. /\ c.baseFinal \in Nat
      /\ c.baseLocal \in Int /\ c.baseLocal < 0
      /\ c.capacity \in Nat /\ c.capacity > 0
  BY DEF Cluster, Positive, LocalIds
<1> QED
  BY <1>1 DEF HoldsLocal, HoldsFinal, AllocatedFinal, AlignedLocal, GenCount,
              MaxAllocatedLocal, MaxAllocatedFinal, LocalIds

(* A final ID is in one cluster. *)
LEMMA FinalsDisjoint ==
    ASSUME NEW t, TableInv(t), NEW i \in DOMAIN t, NEW final \in Int, HoldsFinal(t[i], final)
    PROVE  Search(t, final) = {i}
<1> t \in Seq(Cluster)
  BY DEF TableInv
<1>1. ASSUME NEW j \in DOMAIN t, HoldsFinal(t[j], final)
      PROVE  j = i
  <2>1. i \in Int /\ j \in Int
    BY TableTypes
  <2>2. ~(i < j)
    BY <1>1, TableTypes DEF TableInv, FinalsOrdered, HoldsFinal, MaxAllocatedFinal
  <2>3. ~(j < i)
    BY <1>1, TableTypes DEF TableInv, FinalsOrdered, HoldsFinal, MaxAllocatedFinal
  <2> QED
    BY <2>1, <2>2, <2>3
<1> QED
  BY <1>1 DEF Search

(* A local ID is in one cluster of its chain. *)
LEMMA LocalsDisjoint ==
    ASSUME NEW t, TableInv(t), NEW s, NEW i \in Chain(t, s), NEW j \in Chain(t, s),
           NEW local \in Int, HoldsLocal(t[i], local), HoldsLocal(t[j], local)
    PROVE  j = i
<1> t \in Seq(Cluster) /\ i \in DOMAIN t
  BY DEF TableInv, Chain
<1>1. j \in DOMAIN t /\ t[j].session = t[i].session /\ i \in Int /\ j \in Int
  BY TableTypes DEF Chain
<1>2. ASSUME NEW a \in DOMAIN t, NEW b \in DOMAIN t, a < b,
             t[a].session = t[b].session,
             HoldsLocal(t[a], local), HoldsLocal(t[b], local)
      PROVE  FALSE
  <2>1. t[b].baseLocal <= t[a].baseLocal - t[a].capacity
    BY <1>2 DEF TableInv, ChainsOrdered
  <2>2. t[a].baseLocal \in Int /\ t[a].capacity \in Int /\ t[b].baseLocal \in Int
    BY TableTypes
  <2>3. t[a].baseLocal - (t[a].capacity - 1) <= local /\ local <= t[b].baseLocal
    BY <1>2 DEF HoldsLocal, MaxAllocatedLocal
  <2>4. \A base, capacity, next \in Int :
           ~(next <= base - capacity /\ base - (capacity - 1) <= local /\ local <= next)
    OBVIOUS
  <2> QED
    BY <2>1, <2>2, <2>3, <2>4
<1>3. ~(i < j) /\ ~(j < i)
  BY <1>1, <1>2
<1> QED
  BY <1>1, <1>3

(* A local ID that a cluster reserves converts to exactly one final ID. *)
LEMMA AllocatedLocalConverts ==
    ASSUME NEW t, TableInv(t), NEW s, NEW i \in Chain(t, s), NEW local \in Int,
           HoldsLocal(t[i], local)
    PROVE  TryConvertToAllocated(t, s, local) = {AllocatedFinal(t[i], local)}
<1>1. {j \in Chain(t, s) : HoldsLocal(t[j], local)} = {i}
  BY LocalsDisjoint
<1> QED
  BY <1>1 DEF TryConvertToAllocated

(* What is finalized is allocated. *)
LEMMA FinalizedLocalConverts ==
    ASSUME NEW t, TableInv(t), NEW s, NEW i \in Chain(t, s), NEW local \in Int,
           HoldsFinalizedLocal(t[i], local)
    PROVE  TryConvertToFinal(t, s, local) = {AllocatedFinal(t[i], local)}
<1>1. ASSUME NEW j \in Chain(t, s), HoldsFinalizedLocal(t[j], local)
      PROVE  HoldsLocal(t[j], local)
  <2>1. t[j].count <= t[j].capacity /\ t \in Seq(Cluster) /\ j \in DOMAIN t
    BY DEF TableInv, LocalsTile, Chain
  <2> QED
    BY <1>1, <2>1, TableTypes DEF HoldsLocal, HoldsFinalizedLocal, MaxLocal, MaxAllocatedLocal
<1>2. {j \in Chain(t, s) : HoldsFinalizedLocal(t[j], local)} = {i}
  BY <1>1, LocalsDisjoint
<1> QED
  BY <1>2 DEF TryConvertToFinal

(* As a table grows, what a cluster holds it goes on holding, at the same
   final and local IDs.                                                    *)
LEMMA GrowsHolds ==
    ASSUME NEW t \in Seq(Cluster), NEW u \in Seq(Cluster), Grows(t, u), NEW i \in DOMAIN t
    PROVE  /\ i \in DOMAIN u
           /\ u[i].session = t[i].session
           /\ \A final \in Int : /\ HoldsFinal(t[i], final) => HoldsFinal(u[i], final)
                                 /\ AlignedLocal(u[i], final) = AlignedLocal(t[i], final)
           /\ \A local \in Int :
                 /\ HoldsLocal(t[i], local) => HoldsLocal(u[i], local)
                 /\ HoldsFinalizedLocal(t[i], local) => HoldsFinalizedLocal(u[i], local)
                 /\ AllocatedFinal(u[i], local) = AllocatedFinal(t[i], local)
           /\ MaxLocal(u[i]) <= MaxLocal(t[i])
<1>1. i \in DOMAIN u
  BY TableTypes DEF Grows
<1>2. /\ u[i].session = t[i].session
      /\ u[i].baseFinal = t[i].baseFinal
      /\ u[i].baseLocal = t[i].baseLocal
      /\ t[i].capacity <= u[i].capacity
      /\ t[i].count <= u[i].count
  BY DEF Grows
<1>3. /\ t[i].baseFinal \in Int /\ t[i].baseLocal \in Int
      /\ t[i].capacity \in Int /\ t[i].count \in Int
      /\ u[i].capacity \in Int /\ u[i].count \in Int
  BY <1>1, TableTypes
<1>4. \A final \in Int : /\ HoldsFinal(t[i], final) => HoldsFinal(u[i], final)
                         /\ AlignedLocal(u[i], final) = AlignedLocal(t[i], final)
  <2>1. \A base, m, n, final \in Int : m <= n /\ final <= base + (m - 1) => final <= base + (n - 1)
    OBVIOUS
  <2>2. \A final \in Int : final <= MaxAllocatedFinal(t[i]) => final <= MaxAllocatedFinal(u[i])
    BY <1>2, <1>3, <2>1 DEF MaxAllocatedFinal
  <2> QED
    BY <1>2, <2>2 DEF HoldsFinal, AlignedLocal
<1>5. /\ MaxLocal(u[i]) <= MaxLocal(t[i])
      /\ MaxAllocatedLocal(u[i]) <= MaxAllocatedLocal(t[i])
      /\ MaxLocal(u[i]) \in Int /\ MaxAllocatedLocal(u[i]) \in Int
      /\ MaxLocal(t[i]) \in Int /\ MaxAllocatedLocal(t[i]) \in Int
  <2>1. ASSUME NEW b \in Int, NEW m \in Int, NEW n \in Int, m <= n
        PROVE  b - (n - 1) <= b - (m - 1)
    BY <2>1
  <2>2. /\ MaxLocal(u[i]) = t[i].baseLocal - (u[i].count - 1)
        /\ MaxAllocatedLocal(u[i]) = t[i].baseLocal - (u[i].capacity - 1)
    BY <1>2 DEF MaxLocal, MaxAllocatedLocal
  <2>3. /\ MaxLocal(t[i]) = t[i].baseLocal - (t[i].count - 1)
        /\ MaxAllocatedLocal(t[i]) = t[i].baseLocal - (t[i].capacity - 1)
    BY DEF MaxLocal, MaxAllocatedLocal
  <2>4. t[i].capacity <= u[i].capacity /\ t[i].count <= u[i].count
    BY <1>2
  <2>5. /\ MaxLocal(u[i]) \in Int /\ MaxAllocatedLocal(u[i]) \in Int
        /\ MaxLocal(t[i]) \in Int /\ MaxAllocatedLocal(t[i]) \in Int
    <3>1. \A b, m \in Int : b - (m - 1) \in Int
      OBVIOUS
    <3> QED
      BY <1>3, <2>2, <2>3, <3>1
  <2>6. MaxLocal(u[i]) <= MaxLocal(t[i])
    BY <1>3, <2>1, <2>2, <2>3, <2>4
  <2>7. MaxAllocatedLocal(u[i]) <= MaxAllocatedLocal(t[i])
    BY <1>3, <2>1, <2>2, <2>3, <2>4
  <2> QED
    BY <2>5, <2>6, <2>7
<1>6. \A local \in Int :
         /\ HoldsLocal(t[i], local) => HoldsLocal(u[i], local)
         /\ HoldsFinalizedLocal(t[i], local) => HoldsFinalizedLocal(u[i], local)
  BY <1>2, <1>3, <1>5 DEF HoldsLocal, HoldsFinalizedLocal
<1>7. \A local \in Int : AllocatedFinal(u[i], local) = AllocatedFinal(t[i], local)
  BY <1>2 DEF AllocatedFinal
<1> QED
  BY <1>1, <1>2, <1>4, <1>5, <1>6, <1>7
-----------------------------------------------------------------------------
(* Every non-empty set of naturals has a least element, and every bounded one
   a greatest.                                                             *)
LEMMA Least ==
    ASSUME NEW S \in SUBSET Nat, S # {}
    PROVE  \E n \in S : \A m \in S : n <= m
<1> DEFINE R == {ss \in Nat \X Nat : ss[1] < ss[2]}
<1>1. IsWellFoundedOn(R, Nat)
  BY NatLessThanWellFounded DEF OpToRel
<1>2. PICK x \in S : \A y \in S : ~(<<y, x>> \in R)
  BY <1>1, WFMin
<1>3. \A y \in S : ~(y < x)
  BY <1>2
<1> QED
  BY <1>3

LEMMA Greatest ==
    ASSUME NEW S \in SUBSET Nat, S # {}, NEW max \in Nat, \A n \in S : n <= max
    PROVE  \E n \in S : \A m \in S : m <= n
<1> DEFINE T == {max - n : n \in S}
<1>1. T \in SUBSET Nat /\ T # {}
  <2>1. \A n \in S : n \in Nat /\ max - n \in Nat
    OBVIOUS
  <2>2. PICK n : n \in S
    OBVIOUS
  <2>3. max - n \in T
    BY <2>2
  <2> QED
    BY <2>1, <2>3
<1>2. PICK d \in T : \A e \in T : d <= e
  BY <1>1, Least
<1>3. PICK n \in S : d = max - n
  BY <1>2
<1>4. \A m \in S : max - n <= max - m
  BY <1>2, <1>3
<1>5. \A m \in S : m <= n
  BY <1>4
<1> QED
  BY <1>5

-----------------------------------------------------------------------------
(* Recursion and induction over the natural numbers, about sets and functions. *)

LEMMA SetInduction ==
    ASSUME NEW S \in SUBSET Nat, 0 \in S, \A n \in S : n + 1 \in S
    PROVE  \A n \in Nat : n \in S
<1> SUFFICES ASSUME Nat \ S # {} PROVE FALSE
  OBVIOUS
<1>1. PICK n \in Nat \ S : \A m \in Nat \ S : n <= m
  BY Least
<1>2. n - 1 \in Nat /\ ~(n <= n - 1)
  BY <1>1
<1>3. n - 1 \in S
  BY <1>1, <1>2
<1>4. (n - 1) + 1 = n
  BY <1>1
<1> QED BY <1>1, <1>3, <1>4

(* A function can be defined by recursion up to any number. *)
IsRecursive(f, n, base, step) ==
    \A i \in 0..n : f[i] = IF i = 0 THEN base ELSE step[<<i, f[i - 1]>>]

LEMMA Recursion ==
    ASSUME NEW V, NEW base \in V, NEW step \in [Nat \X V -> V], NEW n \in Nat
    PROVE  \E f \in [0..n -> V] : IsRecursive(f, n, base, step)
<1> DEFINE S == {m \in Nat : \E f \in [0..m -> V] : IsRecursive(f, m, base, step)}
<1>1. 0 \in S
  <2>1. /\ [i \in 0..0 |-> base] \in [0..0 -> V]
        /\ IsRecursive([i \in 0..0 |-> base], 0, base, step)
    BY DEF IsRecursive
  <2> QED BY <2>1
<1>2. ASSUME NEW m \in S PROVE m + 1 \in S
  <2>1. PICK f \in [0..m -> V] : IsRecursive(f, m, base, step)
    OBVIOUS
  <2> DEFINE last == step[<<m + 1, f[m]>>]
             g == [i \in 0..(m + 1) |-> IF i = m + 1 THEN last ELSE f[i]]
  <2>2. m \in Nat /\ m + 1 \in Nat /\ (m + 1) - 1 = m /\ m + 1 # 0
    OBVIOUS
  <2>3. f[m] \in V /\ last \in V
    BY <2>1, <2>2 DEF IsRecursive
  <2>4. g \in [0..(m + 1) -> V]
    BY <2>1, <2>2, <2>3
  <2>5. ASSUME NEW i \in 0..(m + 1)
        PROVE  g[i] = IF i = 0 THEN base ELSE step[<<i, g[i - 1]>>]
    <3>1. CASE i = m + 1
      <4>1. m \in 0..(m + 1) /\ m # m + 1 /\ g[m + 1] = last
        BY <2>2
      <4>2. g[m] = f[m]
        BY <4>1
      <4> QED BY <3>1, <4>1, <4>2, <2>2
    <3>2. CASE i # m + 1
      <4>1. i \in 0..m /\ (i # 0 => i - 1 \in 0..(m + 1) /\ i - 1 # m + 1)
        BY <3>2, <2>2
      <4>2. g[i] = f[i] /\ (i # 0 => g[i - 1] = f[i - 1])
        BY <3>2, <4>1
      <4> QED BY <2>1, <4>1, <4>2 DEF IsRecursive
    <3> QED BY <3>1, <3>2
  <2>6. IsRecursive(g, m + 1, base, step)
    BY <2>5 DEF IsRecursive
  <2> QED BY <2>2, <2>4, <2>6
<1>3. n \in S
  <2> HIDE DEF S
  <2>1. S \in SUBSET Nat
    BY DEF S
  <2> QED BY <1>1, <1>2, <2>1, SetInduction
<1> QED BY <1>3

(* Two sequences one behind the other. *)
LEMMA Joined ==
    ASSUME NEW X, NEW s \in Seq(X), NEW u \in Seq(X)
    PROVE  /\ s \o u \in Seq(X)
           /\ Len(s \o u) = Len(s) + Len(u)
           /\ \A j \in 1..Len(s) : (s \o u)[j] = s[j]
           /\ \A j \in 1..Len(u) : (s \o u)[Len(s) + j] = u[j]
OBVIOUS

(* The same of sequences of words. *)
LEMMA JoinedWords ==
    ASSUME NEW s \in Seq(Int), NEW u \in Seq(Int)
    PROVE  s \o u \in Seq(Int) /\ Len(s \o u) = Len(s) + Len(u)
OBVIOUS

LEMMA JoinedElements ==
    ASSUME NEW s \in Seq(Int), NEW u \in Seq(Int)
    PROVE  /\ \A j \in 1..Len(s) : (s \o u)[j] = s[j]
           /\ \A j \in 1..Len(u) : (s \o u)[Len(s) + j] = u[j]
OBVIOUS

(* The places of the fields of a fixed width. *)
LEMMA Places ==
    ASSUME NEW p \in {1, 2, 3, 4, 6}, NEW n \in Nat
    PROVE  /\ 0 * p = 0 /\ n * p \in Nat /\ (n + 1) * p = n * p + p
           /\ \A k \in 1..n : \A j \in 1..p : (k - 1) * p + j \in 1..(n * p)
           /\ \A k \in Nat : k = n + 1 => (k - 1) * p = n * p
<1>1. CASE p = 1 BY <1>1
<1>2. CASE p = 2 BY <1>2
<1>3. CASE p = 3 BY <1>3
<1>4. CASE p = 4 BY <1>4
<1>5. CASE p = 6 BY <1>5
<1> QED BY <1>1, <1>2, <1>3, <1>4, <1>5

(* The fields of a sequence one behind the other: those of the same width p
   are found at multiples of p.                                            *)
Flattened(fields) ==
    LET flat[i \in 1..Len(fields)] ==
            IF i = 1 THEN fields[i] ELSE flat[i - 1] \o fields[i]
    IN  flat[Len(fields)]

LEMMA FlattenedFields ==
    ASSUME NEW p \in {1, 2, 3, 4, 6}, NEW n \in Nat, n # 0, NEW fields \in [1..n -> Seq(Int)],
           \A i \in 1..n : Len(fields[i]) = p
    PROVE  LET flat == Flattened(fields)
           IN  /\ flat \in Seq(Int)
               /\ Len(flat) = n * p
               /\ \A k \in 1..n : \A j \in 1..p : flat[(k - 1) * p + j] = fields[k][j]
<1> DEFINE Flat(f) == f = [i \in 1..n |-> IF i = 1 THEN fields[i] ELSE f[i - 1] \o fields[i]]
           flat == CHOOSE f : Flat(f)
           Good(s, m) ==
              /\ s \in Seq(Int)
              /\ Len(s) = m * p
              /\ \A k \in 1..m : \A j \in 1..p : s[(k - 1) * p + j] = fields[k][j]
<1>0. Len(fields) = n /\ DOMAIN fields = 1..n
  OBVIOUS
<1>1. Flattened(fields) = flat[n]
  BY <1>0 DEF Flattened
<1>2. \E f : Flat(f)
  <2> DEFINE V == Seq(Int)
             step == [x \in Nat \X V |->
                        IF x[1] \in 1..n THEN x[2] \o fields[x[1]] ELSE x[2]]
             none == <<>>
  <2>1. none \in V /\ step \in [Nat \X V -> V]
    OBVIOUS
  <2>2. PICK f \in [0..n -> V] : IsRecursive(f, n, none, step)
    <3> HIDE DEF step, V, none
    <3> QED BY <2>1, Recursion
  <2> DEFINE g == [i \in 1..n |-> f[i]]
  <2>3. f[0] = none
    <3>1. 0 \in 0..n
      OBVIOUS
    <3> QED BY <2>2, <3>1 DEF IsRecursive
  <2>4. ASSUME NEW i \in 1..n
        PROVE  f[i] = f[i - 1] \o fields[i] /\ f[i - 1] \in V
    <3>1. i \in 0..n /\ i # 0 /\ i \in Nat /\ i - 1 \in 0..n
      OBVIOUS
    <3>2. f[i] = step[<<i, f[i - 1]>>] /\ f[i - 1] \in V
      BY <2>2, <3>1 DEF IsRecursive
    <3> QED BY <3>1, <3>2
  <2>5. ASSUME NEW i \in 1..n
        PROVE  g[i] = IF i = 1 THEN fields[i] ELSE g[i - 1] \o fields[i]
    <3>1. CASE i = 1
      <4>1. f[1] = <<>> \o fields[1] /\ fields[1] \in Seq(Int)
        <5>1. 1 \in 1..n /\ 1 - 1 = 0
          BY <3>1
        <5>2. f[1] = f[0] \o fields[1] /\ fields[1] \in Seq(Int)
          BY <2>4, <5>1
        <5> QED BY <2>3, <5>2
      <4>2. <<>> \o fields[1] = fields[1]
        BY <4>1
      <4> QED BY <3>1, <4>1, <4>2
    <3>2. CASE i # 1
      <4>1. i - 1 \in 1..n
        BY <3>2
      <4> QED BY <2>4, <3>2, <4>1
    <3> QED BY <3>1, <3>2
  <2>6. Flat(g)
    BY <2>5
  <2> QED BY <2>6
<1>3. Flat(flat)
  <2> HIDE DEF Flat
  <2> QED BY <1>2
<1> DEFINE S == {m \in Nat : m + 1 \in 1..n => Good(flat[m + 1], m + 1)}
<1> HIDE DEF flat
<1>4. 0 \in S
  <2>1. 1 \in 1..n /\ flat[1] = fields[1]
    BY <1>3
  <2>2. 1 * p = p /\ (1 - 1) * p = 0 /\ \A j \in 1..p : 0 + j = j
    OBVIOUS
  <2>3. \A k \in 1..1 : k = 1
    OBVIOUS
  <2>4. Good(flat[1], 1)
    BY <2>1, <2>2, <2>3
  <2>5. 0 + 1 = 1 /\ 0 \in Nat
    OBVIOUS
  <2> HIDE DEF Good
  <2>6. Good(flat[0 + 1], 0 + 1)
    BY ONLY <2>4, <2>5
  <2> QED BY ONLY <2>5, <2>6 DEF S
<1>5. ASSUME NEW m \in S PROVE m + 1 \in S
  <2> DEFINE i == m + 1
             prior == flat[i]
             both == prior \o fields[i + 1]
  <2> SUFFICES ASSUME i + 1 \in 1..n PROVE Good(flat[i + 1], i + 1)
    OBVIOUS
  <2>1. /\ i \in Nat /\ i \in 1..n /\ i + 1 # 1 /\ (i + 1) - 1 = i
    OBVIOUS
  <2>2. Good(prior, i)
    BY <2>1
  <2>3. flat[i + 1] = both
    <3>1. flat = [k \in 1..n |-> IF k = 1 THEN fields[k] ELSE flat[k - 1] \o fields[k]]
      BY ONLY <1>3
    <3>2. flat[i + 1] = IF i + 1 = 1 THEN fields[i + 1] ELSE flat[(i + 1) - 1] \o fields[i + 1]
      BY ONLY <3>1, i + 1 \in 1..n
    <3> QED BY ONLY <2>1, <3>2
  <2>4. fields[i + 1] \in Seq(Int) /\ Len(fields[i + 1]) = p
    BY ONLY fields \in [1..n -> Seq(Int)], \A k \in 1..n : Len(fields[k]) = p, i + 1 \in 1..n
  <2>5. /\ both \in Seq(Int) /\ Len(both) = Len(prior) + p
        /\ \A j \in 1..Len(prior) : both[j] = prior[j]
        /\ \A j \in 1..p : both[Len(prior) + j] = fields[i + 1][j]
    <3> DEFINE e == fields[i + 1]
    <3>1. prior \in Seq(Int) /\ e \in Seq(Int) /\ Len(e) = p
      BY <2>2, <2>4
    <3>2. /\ prior \o e \in Seq(Int) /\ Len(prior \o e) = Len(prior) + Len(e)
          /\ \A j \in 1..Len(prior) : (prior \o e)[j] = prior[j]
          /\ \A j \in 1..Len(e) : (prior \o e)[Len(prior) + j] = e[j]
      <4> HIDE DEF prior, e
      <4>1. prior \o e \in Seq(Int) /\ Len(prior \o e) = Len(prior) + Len(e)
        BY ONLY <3>1, JoinedWords
      <4>2. /\ \A j \in 1..Len(prior) : (prior \o e)[j] = prior[j]
            /\ \A j \in 1..Len(e) : (prior \o e)[Len(prior) + j] = e[j]
        BY ONLY <3>1, JoinedElements
      <4> QED BY ONLY <4>1, <4>2
    <3> QED BY <3>1, <3>2
  <2> HIDE DEF both
  <2>6. Len(prior) = i * p /\ Len(both) = (i + 1) * p
    BY <2>1, <2>2, <2>5, Places
  <2>7. ASSUME NEW k \in 1..(i + 1), NEW j \in 1..p
        PROVE  both[(k - 1) * p + j] = fields[k][j]
    <3>1. CASE k = i + 1
      <4>1. (k - 1) * p = Len(prior)
        BY <2>1, <2>6, <3>1, Places
      <4> QED BY <2>5, <3>1, <4>1
    <3>2. CASE k # i + 1
      <4>1. k \in 1..i
        BY <2>1, <3>2
      <4>2. (k - 1) * p + j \in 1..Len(prior)
        BY <2>1, <2>6, <4>1, Places
      <4>3. prior[(k - 1) * p + j] = fields[k][j]
        BY <2>2, <4>1
      <4> QED BY <2>5, <4>2, <4>3
    <3> QED BY <3>1, <3>2
  <2> QED BY <2>3, <2>5, <2>6, <2>7
<1>6. Good(flat[n], n)
  <2>1. S \in SUBSET Nat
    OBVIOUS
  <2>2. n - 1 \in Nat /\ (n - 1) + 1 = n /\ n \in 1..n
    OBVIOUS
  <2>3. n - 1 \in S
    <3> HIDE DEF S
    <3> QED BY <1>4, <1>5, <2>1, <2>2, SetInduction
  <2> QED BY <2>2, <2>3
<1> QED BY <1>1, <1>6

(* The fields follow each other in a sequence, p elements each. *)
FieldsFollow(flat, fields, n, p) ==
    /\ Len(flat) = n * p
    /\ \A m \in 1..n : \A j \in 1..p : flat[(m - 1) * p + j] = fields[m][j]

(* The same, with what follows named. *)
LEMMA FlattenedFollow ==
    ASSUME NEW p \in {1, 2, 3, 4, 6}, NEW n \in Nat, n # 0, NEW fields \in [1..n -> Seq(Int)],
           \A i \in 1..n : Len(fields[i]) = p
    PROVE  Flattened(fields) \in Seq(Int) /\ FieldsFollow(Flattened(fields), fields, n, p)
<1>1. /\ Flattened(fields) \in Seq(Int)
      /\ Len(Flattened(fields)) = n * p
      /\ \A k \in 1..n : \A j \in 1..p : Flattened(fields)[(k - 1) * p + j] = fields[k][j]
  BY FlattenedFields, ZenonT(60)
<1> QED BY ONLY <1>1 DEF FieldsFollow


(* It comes right after the finalized IDs of the tail cluster. *)
LEMMA NextBaseOfTail ==
    ASSUME NEW t, TableInv(t), NEW s \in Sessions, NEW k, IsTail(t, s, k)
    PROVE  /\ TailIndex(t, s) = k
           /\ NextBase(t, s) = t[k].count - t[k].baseLocal
<1>1. k \in Chain(t, s) /\ t \in Seq(Cluster)
  BY DEF IsTail, TableInv
<1>2. TailIndex(t, s) = k
  BY <1>1, TailIndexIsTail, TailIsUnique
<1> QED
  BY <1>1, <1>2 DEF NextBase, TailCluster

(* It is a generation count. *)
LEMMA NextBaseType ==
    ASSUME NEW t, TableInv(t), NEW s \in Sessions
    PROVE  NextBase(t, s) \in Nat /\ NextBase(t, s) > 0
<1>1. CASE Chain(t, s) = {}
  BY <1>1 DEF NextBase
<1>2. CASE Chain(t, s) # {}
  <2> DEFINE k == TailIndex(t, s)
  <2>1. IsTail(t, s, k) /\ k \in DOMAIN t /\ t \in Seq(Cluster)
    BY <1>2, TailIndexIsTail DEF TableInv
  <2>2. NextBase(t, s) = t[k].count - t[k].baseLocal
    BY <2>1, NextBaseOfTail
  <2>3. /\ t[k].baseLocal \in Int /\ t[k].baseLocal < 0
        /\ t[k].count \in Nat /\ t[k].count > 0
    BY <2>1, TableTypes
  <2>4. \A b, n \in Int : b < 0 /\ n > 0 => n - b \in Nat /\ n - b > 0
    OBVIOUS
  <2> QED
    BY <2>2, <2>3, <2>4
<1> QED
  BY <1>1, <1>2

(* Nothing from it on is finalized. *)
LEMMA FinalizedBelowNext ==
    ASSUME NEW t, TableInv(t), NEW s \in Sessions, NEW i \in Chain(t, s)
    PROVE  GenCount(MaxLocal(t[i])) \in Int /\ GenCount(MaxLocal(t[i])) < NextBase(t, s)
<1> DEFINE k == TailIndex(t, s)
<1>1. /\ IsTail(t, s, k) /\ k \in DOMAIN t /\ t[k].session = s
      /\ t \in Seq(Cluster) /\ i \in DOMAIN t /\ t[i].session = s
  BY TailIndexIsTail DEF TableInv, Chain
<1>2. /\ t[i].baseLocal \in Int /\ t[i].count \in Int /\ t[i].count > 0
      /\ t[k].baseLocal \in Int /\ t[k].count \in Int /\ t[k].count > 0
      /\ t[i].capacity \in Int /\ i \in Int /\ k \in Int
  BY <1>1, TableTypes
<1>3. NextBase(t, s) = t[k].count - t[k].baseLocal
  BY <1>1, NextBaseOfTail
<1>4. GenCount(MaxLocal(t[i])) = -(t[i].baseLocal - (t[i].count - 1))
  BY DEF GenCount, MaxLocal
<1>5. CASE i = k
  BY <1>2, <1>3, <1>4, <1>5
<1>6. CASE i # k
  <2>1. i < k
    BY <1>1, <1>2, <1>6 DEF IsTail
  <2>2. t[i].count = t[i].capacity /\ t[k].baseLocal <= t[i].baseLocal - t[i].capacity
    BY <1>1, <2>1 DEF TableInv, ChainsOrdered
  <2>3. \A b, n, b2, n2 \in Int : b2 <= b - n /\ n2 > 0 => -(b - (n - 1)) < n2 - b2
    OBVIOUS
  <2>4. -(t[i].baseLocal - (t[i].count - 1)) < t[k].count - t[k].baseLocal
    BY <1>2, <2>2, <2>3
  <2>5. \A b, n \in Int : -(b - (n - 1)) \in Int
    OBVIOUS
  <2> QED
    BY <1>2, <1>3, <1>4, <2>4, <2>5
<1> QED
  BY <1>5, <1>6

(* A local ID below a cluster's base that is not beyond its finalized ones. *)
LEMMA BelowNextIsFinalized ==
    ASSUME NEW t, TableInv(t), NEW s \in Sessions, NEW g \in Int, 1 <= g, g < NextBase(t, s)
    PROVE  \E i \in Chain(t, s) : HoldsFinalizedLocal(t[i], -g)
<1> DEFINE chain == Chain(t, s)
           begun == {i \in chain : -g <= t[i].baseLocal}
<1>1. /\ t \in Seq(Cluster) /\ chain # {} /\ chain \subseteq DOMAIN t
      /\ DOMAIN t = 1..Len(t) /\ Len(t) \in Nat
      /\ \A i \in chain : /\ i \in Nat /\ i <= Len(t) /\ t[i].session = s
                          /\ t[i].baseLocal \in Int /\ t[i].count \in Int
                          /\ t[i].capacity \in Int
  <2>1. t \in Seq(Cluster) /\ chain # {} /\ chain \subseteq DOMAIN t
    BY DEF NextBase, TableInv, Chain
  <2> QED
    BY <2>1, TableTypes DEF Chain
<1>2. begun # {}
  <2>1. chain \in SUBSET Nat
    BY <1>1
  <2>2. PICK i \in chain : \A j \in chain : i <= j
    BY <1>1, <2>1, Least
  <2>3. {j \in Chain(t, t[i].session) : j < i} = {}
    BY <1>1, <2>1, <2>2
  <2>4. t[i].baseLocal = -1
    BY <1>1, <2>2, <2>3 DEF TableInv, LocalsTile
  <2> QED
    BY <2>2, <2>4
<1>3. PICK i \in begun : \A j \in begun : j <= i
  <2>1. begun \in SUBSET Nat /\ \A j \in begun : j <= Len(t)
    BY <1>1
  <2> QED
    BY <1>1, <1>2, <2>1, Greatest
<1>4. i \in chain /\ -g <= t[i].baseLocal
  BY <1>3
<1>5. t[i].baseLocal - t[i].count < -g
  <2>1. CASE IsTail(t, s, i)
    <3>1. NextBase(t, s) = t[i].count - t[i].baseLocal
      BY <2>1, NextBaseOfTail
    <3>2. \A b, n \in Int : g < n - b => b - n < -g
      OBVIOUS
    <3> QED
      BY <1>1, <1>4, <3>1, <3>2
  <2>2. CASE ~IsTail(t, s, i)
    <3> DEFINE later == {j \in chain : i < j}
    <3>1. later \in SUBSET Nat /\ later # {}
      BY <1>1, <1>4, <2>2 DEF IsTail
    <3>2. PICK n \in later : \A j \in later : n <= j
      BY <3>1, Least
    <3>3. n \in chain /\ i < n /\ \A j \in chain : j < n => j <= i
      <4>1. n \in chain /\ i < n
        BY <3>2
      <4>2. ASSUME NEW j \in chain, j < n PROVE j <= i
        <5>1. j \in Nat /\ n \in Nat /\ i \in Nat
          BY <1>1, <1>4, <4>1
        <5>2. i < j => n <= j
          BY <3>2
        <5> QED BY ONLY <4>2, <5>1, <5>2
      <4> QED BY ONLY <4>1, <4>2
    <3>4. ~(-g <= t[n].baseLocal)
      BY <1>1, <1>3, <1>4, <3>3
    <3>5. t[i].count = t[i].capacity /\ t[n].baseLocal <= t[i].baseLocal - t[i].capacity
      <4>1. i \in DOMAIN t /\ n \in DOMAIN t /\ i < n /\ t[i].session = t[n].session
        BY <1>1, <1>4, <3>3
      <4> HIDE DEF chain, later
      <4> QED BY <4>1 DEF TableInv, ChainsOrdered
    <3>6. PICK j \in chain : j < n /\ t[n].baseLocal = t[j].baseLocal - t[j].capacity
      <4>1. i \in {j \in Chain(t, t[n].session) : j < n}
        BY <1>1, <1>4, <3>3
      <4> QED
        BY <1>1, <3>3, <4>1 DEF TableInv, LocalsTile
    <3>7. t[j].baseLocal - t[j].capacity >= t[i].baseLocal - t[i].capacity
      <4>1. CASE j = i
        BY <1>1, <1>4, <4>1
      <4>2. CASE j # i
        <5>1. j < i
          BY <1>1, <1>4, <3>3, <3>6, <4>2
        <5>2. t[i].baseLocal <= t[j].baseLocal - t[j].capacity
          BY <1>1, <1>4, <3>6, <5>1 DEF TableInv, ChainsOrdered
        <5>3. /\ t[i].capacity > 0 /\ t[i].capacity \in Int /\ t[i].baseLocal \in Int
              /\ t[j].baseLocal - t[j].capacity \in Int
          BY <1>1, <1>4, <3>6, TableTypes
        <5>4. \A x, base, capacity \in Int : base <= x /\ capacity > 0 => x >= base - capacity
          OBVIOUS
        <5> QED
          BY <5>2, <5>3, <5>4
      <4> QED
        BY <4>1, <4>2
    <3>8. /\ t[n].baseLocal \in Int /\ -g \in Int /\ t[i].count = t[i].capacity
          /\ t[n].baseLocal >= t[i].baseLocal - t[i].capacity
          /\ t[i].baseLocal - t[i].capacity \in Int
      BY <1>1, <1>4, <3>3, <3>5, <3>6, <3>7, TableTypes
    <3>9. \A x, y, z \in Int : ~(z <= y) /\ y >= x => x < z
      OBVIOUS
    <3> QED
      BY <3>4, <3>8, <3>9
  <2> QED
    BY <2>1, <2>2
<1>6. \A b, n \in Int : b - n < -g => b - (n - 1) <= -g
  OBVIOUS
<1>7. HoldsFinalizedLocal(t[i], -g)
  BY <1>1, <1>4, <1>5, <1>6 DEF HoldsFinalizedLocal, MaxLocal
<1> QED
  BY <1>4, <1>7

-----------------------------------------------------------------------------
(* Parts of a table and of a sequence. *)

(* The first k clusters of a table. *)
Prefix(t, k) == [i \in 1..k |-> t[i]]

LEMMA PrefixTypes ==
    ASSUME NEW t \in Seq(Cluster), NEW k \in 0..Len(t)
    PROVE  /\ Prefix(t, k) \in Seq(Cluster)
           /\ Len(Prefix(t, k)) = k
           /\ DOMAIN Prefix(t, k) = 1..k
           /\ \A i \in 1..k : Prefix(t, k)[i] = t[i] /\ i \in DOMAIN t
           /\ k < Len(t) => Append(Prefix(t, k), t[k + 1]) = Prefix(t, k + 1)
<1>1. k \in Nat /\ Len(t) \in Nat /\ \A i \in 1..k : t[i] \in Cluster /\ i \in DOMAIN t
  OBVIOUS
<1>2. /\ Prefix(t, k) \in [1..k -> Cluster]
      /\ \A i \in 1..k : Prefix(t, k)[i] = t[i]
  BY <1>1 DEF Prefix
<1>3. Prefix(t, k) \in Seq(Cluster) /\ Len(Prefix(t, k)) = k /\ DOMAIN Prefix(t, k) = 1..k
  BY <1>1, <1>2
<1>4. ASSUME k < Len(t) PROVE Append(Prefix(t, k), t[k + 1]) = Prefix(t, k + 1)
  <2> DEFINE u == Append(Prefix(t, k), t[k + 1])
             v == Prefix(t, k + 1)
  <2>1. t[k + 1] \in Cluster
    BY <1>1, <1>4
  <2>2. /\ u \in Seq(Cluster) /\ Len(u) = k + 1
        /\ \A i \in 1..k : u[i] = t[i]
        /\ u[k + 1] = t[k + 1]
    BY <1>2, <1>3, <2>1, AppendedTable
  <2>3. /\ v \in [1..(k + 1) -> Cluster]
        /\ \A i \in 1..(k + 1) : v[i] = t[i]
    BY <1>1, <1>4 DEF Prefix
  <2>4. \A i \in 1..(k + 1) : i \in 1..k \/ i = k + 1
    BY <1>1
  <2> HIDE DEF u, v
  <2>5. \A i \in 1..(k + 1) : u[i] = v[i]
    BY <2>2, <2>3, <2>4
  <2>6. DOMAIN u = 1..(k + 1) /\ u \in [1..(k + 1) -> Cluster]
    BY <1>1, <2>2
  <2> QED BY <2>3, <2>5, <2>6 DEF u, v
<1> QED BY <1>1, <1>2, <1>3, <1>4

(* A cluster begins in both spaces where the clusters before it end. *)
LEMMA NextCluster ==
    ASSUME NEW t, TableInv(t), NEW k \in 0..Len(t), k < Len(t),
           NEW p, p = Prefix(t, k), NEW s, s = t[k + 1].session
    PROVE  /\ t[k + 1] \in Cluster
           /\ NextBaseFinal(p) = t[k + 1].baseFinal
           /\ Chain(p, s) = {} => t[k + 1].baseLocal = -1
           /\ Chain(p, s) # {} =>
                 TailCluster(p, s).baseLocal - TailCluster(p, s).capacity = t[k + 1].baseLocal
<1>1. /\ t \in Seq(Cluster) /\ Len(t) \in Nat /\ k \in Nat
      /\ k + 1 \in DOMAIN t /\ (k + 1) - 1 = k
      /\ t[k + 1] \in Cluster
      /\ p \in Seq(Cluster) /\ Len(p) = k /\ DOMAIN p = 1..k
      /\ \A i \in 1..k : p[i] = t[i] /\ i \in DOMAIN t
  BY PrefixTypes DEF TableInv
<1>2. NextBaseFinal(p) = t[k + 1].baseFinal
  <2>1. CASE k = 0
    <3>1. p = <<>>
      BY <1>1, <2>1
    <3>2. t[k + 1].baseFinal = 0
      <4>1. k + 1 = 1
        BY <2>1
      <4> QED BY <1>1, <4>1 DEF TableInv, FinalsTile
    <3> QED BY <3>1, <3>2 DEF NextBaseFinal
  <2>2. CASE k # 0
    <3>1. p # <<>> /\ k \in 1..k /\ k + 1 # 1
      BY <1>1, <2>2
    <3>2. t[k + 1].baseFinal = t[k].baseFinal + t[k].capacity
      BY <1>1, <3>1 DEF TableInv, FinalsTile
    <3> QED BY <1>1, <3>1, <3>2 DEF NextBaseFinal
  <2> QED BY <2>1, <2>2
<1>3. Chain(p, s) = {j \in Chain(t, s) : j < k + 1}
  <2>1. ASSUME NEW j \in Chain(p, s) PROVE j \in Chain(t, s) /\ j < k + 1
    BY <1>1 DEF Chain
  <2>2. ASSUME NEW j \in Chain(t, s), j < k + 1 PROVE j \in Chain(p, s)
    BY <1>1, <2>2 DEF Chain
  <2> QED BY <2>1, <2>2
<1>4. Chain(p, s) = {} => t[k + 1].baseLocal = -1
  BY <1>1, <1>3 DEF TableInv, LocalsTile
<1>5. ASSUME Chain(p, s) # {}
      PROVE  TailCluster(p, s).baseLocal - TailCluster(p, s).capacity = t[k + 1].baseLocal
  <2>1. PICK j \in Chain(p, s) : t[k + 1].baseLocal = t[j].baseLocal - t[j].capacity
    BY <1>1, <1>3, <1>5 DEF TableInv, LocalsTile
  <2>2. Chain(p, s) \in SUBSET Nat /\ \A i \in Chain(p, s) : i <= k
    BY <1>1 DEF Chain
  <2>3. PICK m \in Chain(p, s) : \A i \in Chain(p, s) : i <= m
    BY <1>1, <1>5, <2>2, Greatest
  <2>4. IsTail(p, s, m)
    BY <2>3 DEF IsTail
  <2>5. TailIndex(p, s) = m
    <3>1. IsTail(p, s, TailIndex(p, s))
      BY <2>3, <2>4 DEF TailIndex
    <3> QED BY <1>1, <2>4, <3>1, TailIsUnique
  <2>6. /\ j \in DOMAIN t /\ m \in DOMAIN t /\ j \in Nat /\ m \in Nat
        /\ t[j].session = s /\ t[m].session = s
        /\ p[m] = t[m] /\ m < k + 1 /\ j <= m
    BY <1>1, <1>3, <2>3 DEF Chain
  <2>7. \A i \in DOMAIN t : t[i].baseLocal \in Int /\ t[i].capacity \in Int /\ t[i].capacity > 0
    BY <1>1, TableTypes
  <2>8. t[k + 1].baseLocal <= t[m].baseLocal - t[m].capacity
    BY <1>1, <2>6 DEF TableInv, ChainsOrdered
  <2>9. j < m => t[m].baseLocal <= t[j].baseLocal - t[j].capacity
    BY <1>1, <2>6 DEF TableInv, ChainsOrdered
  <2>10. j = m
    <3>1. \A a, b, c \in Int : c > 0 /\ a <= b - c => ~(b <= a)
      OBVIOUS
    <3>2. ~(t[m].baseLocal <= t[k + 1].baseLocal)
      BY <1>1, <2>6, <2>7, <2>8, <3>1
    <3>3. ~(j < m)
      BY <2>1, <2>9, <3>2
    <3> QED BY <2>6, <3>3
  <2>11. TailCluster(p, s) = t[m]
    BY <2>5, <2>6 DEF TailCluster
  <2> QED BY <2>1, <2>10, <2>11
<1> QED BY <1>1, <1>2, <1>4, <1>5

(* s stands in the words behind place i. *)
StandsAt(words, i, s) == \A k \in 1..Len(s) : words[i + k] = s[k]

LEMMA PartsStand ==
    ASSUME NEW x \in Seq(Int), NEW y \in Seq(Int), NEW words,
           NEW i \in Nat, NEW j, j = i + Len(x), StandsAt(words, i, x \o y)
    PROVE  StandsAt(words, i, x) /\ StandsAt(words, j, y)
<1> DEFINE n == Len(x)
           m == Len(y)
           s == x \o y
<1>1. /\ n \in Nat /\ m \in Nat /\ Len(s) = n + m
      /\ \A k \in 1..n : s[k] = x[k]
      /\ \A k \in 1..m : s[n + k] = y[k]
  BY Joined
<1>2. \A k \in 1..(n + m) : words[i + k] = s[k]
  BY <1>1 DEF StandsAt
<1> HIDE DEF s, n, m
<1>3. ASSUME NEW k \in 1..n PROVE words[i + k] = x[k]
  <2>1. k \in 1..(n + m)
    BY <1>1
  <2> QED BY <1>1, <1>2, <2>1
<1>4. ASSUME NEW k \in 1..m PROVE words[(i + n) + k] = y[k]
  <2>1. n + k \in 1..(n + m) /\ i + (n + k) = (i + n) + k
    BY <1>1
  <2>2. words[i + (n + k)] = s[n + k]
    BY <1>2, <2>1
  <2> QED BY <1>1, <2>1, <2>2
<1> QED BY <1>3, <1>4 DEF StandsAt, n, m

(* Where fields of the same width stand, each stands at a multiple of it. *)
LEMMA FieldIsAt ==
    ASSUME NEW p \in {1, 2, 3, 4, 6}, NEW n \in Nat, NEW fields \in [1..n -> Seq(Int)],
           \A i \in 1..n : Len(fields[i]) = p,
           NEW flat, FieldsFollow(flat, fields, n, p),
           NEW words, NEW at \in Nat, StandsAt(words, at, flat),
           NEW k \in 1..n, NEW i, i = at + (k - 1) * p
    PROVE  i \in Nat /\ StandsAt(words, i, fields[k])
<1> DEFINE field == fields[k]
<1>1. Len(flat) = n * p /\ \A j \in 1..p : flat[(k - 1) * p + j] = field[j]
  BY DEF FieldsFollow
<1>2. Len(field) = p
  OBVIOUS
<1>3. \A j \in 1..Len(flat) : words[at + j] = flat[j]
  BY DEF StandsAt
<1> HIDE DEF field
<1>4. (k - 1) * p \in Nat
  <2>1. k - 1 \in Nat
    OBVIOUS
  <2> DEFINE m == k - 1
  <2> HIDE DEF m
  <2>2. m * p \in Nat
    BY <2>1, Places DEF m
  <2> QED BY <2>2 DEF m
<1>5. ASSUME NEW j \in 1..p PROVE words[i + j] = field[j]
  <2> DEFINE m == (k - 1) * p
  <2>1. m + j \in 1..(n * p)
    BY Places
  <2>2. m \in Nat /\ i = at + m /\ flat[m + j] = field[j]
    BY <1>1, <1>4
  <2> HIDE DEF m
  <2>3. at + (m + j) = i + j
    BY <2>2
  <2>4. words[at + (m + j)] = flat[m + j]
    BY <1>1, <1>3, <2>1
  <2> QED BY <2>2, <2>3, <2>4
<1>6. i \in Nat
  BY <1>4
<1>7. StandsAt(words, i, field)
  <2>1. \A j \in 1..Len(field) : words[i + j] = field[j]
    BY <1>2, <1>5
  <2> QED BY <2>1 DEF StandsAt
<1> QED BY <1>6, <1>7 DEF field

LEMMA AllStands ==
    ASSUME NEW words \in Seq(Int)
    PROVE  StandsAt(words, 0, words)
<1>1. \A k \in 1..Len(words) : 0 + k = k
  OBVIOUS
<1> QED BY <1>1 DEF StandsAt

-----------------------------------------------------------------------------

(* The IDs a cluster reserves beyond those it has finalized. *)
Slack(c) == c.capacity - c.count

(* What a claim for range r may do to a table: keep it correct, take nothing
   back, add no other session, finalize the range and nothing but the range,
   and reserve no more than the capacity beyond it.                        *)
ClaimEffect(t, u, r, capacity) ==
    /\ TableInv(u)
    /\ Grows(t, u)
    /\ \A i \in DOMAIN u : u[i].session = r.session \/ \E j \in DOMAIN t : u[i].session = t[j].session
    /\ \A s \in Sessions :
          NextBase(u, s) = IF s = r.session THEN r.base + r.len ELSE NextBase(t, s)
    /\ \A i \in DOMAIN u : \/ Slack(u[i]) <= capacity
                           \/ i \in DOMAIN t /\ Slack(u[i]) <= Slack(t[i])

(* A table and a range that finalize_range accepts, short of the collision. *)
Acceptable(t, r, capacity) ==
    /\ TableInv(t)
    /\ r \in Ranges
    /\ r.len # 0
    /\ capacity \in Positive
    /\ IsInOrder(t, r)

(* The types of a range that is neither malformed nor out of order. *)
LEMMA AcceptableTypes ==
    ASSUME NEW t, NEW r, NEW capacity, Acceptable(t, r, capacity)
    PROVE  /\ t \in Seq(Cluster)
           /\ r.session \in Sessions
           /\ r.base \in Nat /\ r.base > 0
           /\ r.len \in Nat /\ r.len > 0
           /\ capacity \in Nat /\ capacity > 0
           /\ Len(t) \in Nat /\ DOMAIN t = 1..Len(t)
<1>1. t \in Seq(Cluster) /\ r \in Ranges /\ r.len # 0 /\ capacity \in Positive
  BY DEF Acceptable, TableInv
<1>2. r.session \in Sessions /\ r.base \in Positive /\ r.len \in Nat
  BY <1>1 DEF Ranges
<1> QED
  BY <1>1, <1>2 DEF Positive

(* The next cluster begins at a number. *)
LEMMA NextBaseFinalType ==
    ASSUME NEW t \in Seq(Cluster)
    PROVE  NextBaseFinal(t) \in Nat
<1>1. CASE t = <<>>
  BY <1>1 DEF NextBaseFinal
<1>2. CASE t # <<>>
  <2>1. Len(t) \in DOMAIN t
    BY <1>2
  <2>2. t[Len(t)].baseFinal \in Nat /\ t[Len(t)].capacity \in Nat
    BY <2>1, TableTypes
  <2>3. \A m, n \in Nat : m + n \in Nat
    OBVIOUS
  <2> QED
    BY <1>2, <2>2, <2>3 DEF NextBaseFinal
<1> QED
  BY <1>1, <1>2

(* The fields of a new cluster. *)
LEMMA NewClusterType ==
    ASSUME NEW t \in Seq(Cluster), NEW s \in Sessions, NEW baseLocal \in LocalIds,
           NEW capacity \in Positive, NEW count \in Positive
    PROVE  /\ NewCluster(t, s, baseLocal, capacity, count) \in Cluster
           /\ NewCluster(t, s, baseLocal, capacity, count).session = s
           /\ NewCluster(t, s, baseLocal, capacity, count).baseFinal = NextBaseFinal(t)
           /\ NewCluster(t, s, baseLocal, capacity, count).baseLocal = baseLocal
           /\ NewCluster(t, s, baseLocal, capacity, count).capacity = capacity
           /\ NewCluster(t, s, baseLocal, capacity, count).count = count
BY NextBaseFinalType DEF NewCluster, Cluster

(* A session whose clusters end where they did goes on where it did. *)
LEMMA NextBaseSame ==
    ASSUME NEW t, TableInv(t), NEW u, TableInv(u), NEW s \in Sessions,
           Chain(u, s) = Chain(t, s),
           \A i \in Chain(t, s) : u[i].baseLocal = t[i].baseLocal /\ u[i].count = t[i].count
    PROVE  NextBase(u, s) = NextBase(t, s)
<1>1. CASE Chain(t, s) = {}
  BY <1>1 DEF NextBase
<1>2. CASE Chain(t, s) # {}
  <2>1. PICK k \in Chain(t, s) : IsTail(t, s, k)
    BY <1>2 DEF TableInv, ChainsHaveTails
  <2>2. IsTail(u, s, k)
    BY <2>1 DEF IsTail
  <2> QED
    BY <2>1, <2>2, NextBaseOfTail
<1> QED
  BY <1>1, <1>2

-----------------------------------------------------------------------------
(* The first range of a session claims a cluster of its own. *)
LEMMA ClaimFirstClusterEffect ==
    ASSUME NEW t, NEW r, NEW capacity, Acceptable(t, r, capacity),
           Chain(t, r.session) = {}
    PROVE  ClaimEffect(t, ClaimFirstCluster(t, r, capacity), r, capacity)
<1> DEFINE c == NewCluster(t, r.session, -r.base, capacity + r.len, r.len)
           u == Append(t, c)
<1> USE AcceptableTypes
<1>1. r.base = 1
  BY DEF Acceptable, IsInOrder
<1>2. /\ c \in Cluster
      /\ c.session = r.session
      /\ c.baseFinal = NextBaseFinal(t)
      /\ c.baseLocal = -1
      /\ c.capacity = capacity + r.len
      /\ c.count = r.len
  <2>1. -r.base \in LocalIds /\ -r.base = -1
    BY <1>1 DEF LocalIds
  <2>2. capacity + r.len \in Positive /\ r.len \in Positive
    BY DEF Positive
  <2> QED
    BY <2>1, <2>2, NewClusterType
<1> HIDE DEF c
<1>3. MayFollow(t, c)
  BY <1>2 DEF MayFollow
<1>4. TableInv(u) /\ Grows(t, u)
  BY <1>3, AddCluster DEF Acceptable
<1>5. /\ DOMAIN u = 1..(Len(t) + 1)
      /\ \A i \in DOMAIN t : u[i] = t[i]
      /\ u[Len(t) + 1] = c
  BY <1>2, AppendedTable
<1>6. \A i \in DOMAIN u : i = Len(t) + 1 \/ i \in DOMAIN t
  BY <1>5
<1> HIDE DEF u
<1>7. ASSUME NEW s \in Sessions
      PROVE  NextBase(u, s) = IF s = r.session THEN r.base + r.len ELSE NextBase(t, s)
  <2>1. CASE s = r.session
    <3>1. Len(t) + 1 \in Chain(u, s) /\ \A j \in Chain(u, s) : j <= Len(t) + 1
      BY <2>1, <1>2, <1>5 DEF Chain
    <3>2. NextBase(u, s) = c.count - c.baseLocal
      BY <1>4, <1>5, <3>1, NextBaseOfTail DEF IsTail
    <3> QED
      BY <2>1, <3>2, <1>1, <1>2
  <2>2. CASE s # r.session
    <3>1. Chain(u, s) = Chain(t, s)
      BY <2>2, <1>2, <1>5, <1>6 DEF Chain
    <3>2. \A i \in Chain(t, s) : u[i] = t[i]
      BY <1>5 DEF Chain
    <3>3. NextBase(u, s) = NextBase(t, s)
      BY <1>4, <3>1, <3>2, NextBaseSame DEF Acceptable
    <3> QED
      BY <2>2, <3>3
  <2> QED
    BY <2>1, <2>2
<1>8. \A i \in DOMAIN u : u[i].session = r.session \/ \E j \in DOMAIN t : u[i].session = t[j].session
  BY <1>2, <1>5, <1>6
<1>9. ASSUME NEW i \in DOMAIN u
      PROVE  Slack(u[i]) <= capacity \/ (i \in DOMAIN t /\ Slack(u[i]) <= Slack(t[i]))
  <2>1. CASE i \in DOMAIN t
    <3>1. u[i] = t[i] /\ t[i].capacity \in Int /\ t[i].count \in Int
      BY <2>1, <1>5, TableTypes
    <3>2. \A m, n \in Int : m - n <= m - n
      OBVIOUS
    <3> QED
      BY <2>1, <3>1, <3>2 DEF Slack
  <2>2. CASE i = Len(t) + 1
    <3>1. \A m, n \in Int : (m + n) - n <= m
      OBVIOUS
    <3> QED
      BY <2>2, <1>2, <1>5, <3>1 DEF Slack
  <2> QED
    BY <2>1, <2>2, <1>6
<1> QED
  BY <1>4, <1>7, <1>8, <1>9 DEF ClaimEffect, ClaimFirstCluster, u, c

-----------------------------------------------------------------------------
(* The arithmetic of the lemmas below. *)

(* A cluster's base local, from where its finalized IDs end. *)
LEMMA Transposed ==
    ASSUME NEW base \in Int, NEW count \in Int, NEW first \in Int, base - count = -first
    PROVE  base = count - first
OBVIOUS

(* An expansion makes room for the whole range and spare IDs besides. *)
LEMMA ExpandedSizes ==
    ASSUME NEW old \in Nat, NEW count \in Nat, NEW len \in Nat, NEW spare \in Nat,
           count > 0, count <= old, len > 0, spare > 0, old - count < len,
           NEW more, more = (len - (old - count)) + spare
    PROVE  /\ old + more \in Positive
           /\ count + len \in Positive
           /\ old <= old + more
           /\ count <= count + len
           /\ count + len <= old + more
BY DEF Positive

-----------------------------------------------------------------------------
(* Later ranges of a session extend its tail cluster k. *)
IsTailFor(t, r, k) ==
    /\ k = TailIndex(t, r.session)
    /\ k \in DOMAIN t
    /\ t[k].session = r.session
    /\ IsTail(t, r.session, k)
    /\ t[k].baseLocal - t[k].count = -r.base
    /\ t[k].count <= t[k].capacity

(* The tail cluster of the session of an in-order range ends its finalized
   IDs just before the range.                                              *)
LEMMA TailForRange ==
    ASSUME NEW t, NEW r, NEW capacity, Acceptable(t, r, capacity),
           Chain(t, r.session) # {}
    PROVE  IsTailFor(t, r, TailIndex(t, r.session))
<1> DEFINE k == TailIndex(t, r.session)
<1>1. IsTail(t, r.session, k) /\ k \in DOMAIN t /\ t[k].session = r.session
  BY AcceptableTypes, TailIndexIsTail DEF Acceptable
<1>2. t[k].count <= t[k].capacity
  BY <1>1 DEF Acceptable, TableInv, LocalsTile
<1>3. t[k].baseLocal - t[k].count = -r.base
  BY DEF Acceptable, IsInOrder, TailCluster
<1> QED
  BY <1>1, <1>2, <1>3 DEF IsTailFor

(* Where the tail cluster begins, from where the range does. *)
LEMMA TailBegins ==
    ASSUME NEW t, NEW r, NEW capacity, Acceptable(t, r, capacity), NEW k, IsTailFor(t, r, k)
    PROVE  t[k].baseLocal = t[k].count - r.base
<1>1. r.base \in Int /\ t \in Seq(Cluster) /\ TableInv(t)
  BY AcceptableTypes DEF Acceptable
<1>2. k \in DOMAIN t /\ t[k].baseLocal - t[k].count = -r.base
  BY DEF IsTailFor
<1>3. t[k].baseLocal \in Int /\ t[k].count \in Int
  BY <1>1, <1>2, TableTypes
<1> QED
  BY <1>1, <1>2, <1>3, Transposed

(* A session's tail cluster is the last cluster exactly if their base final
   IDs agree.                                                              *)
LEMMA TailIsLastIndex ==
    ASSUME NEW t, TableInv(t), NEW k \in DOMAIN t, t[k].baseFinal = t[Len(t)].baseFinal
    PROVE  k = Len(t)
<1> t \in Seq(Cluster)
  BY DEF TableInv
<1>1. Len(t) \in DOMAIN t /\ k <= Len(t) /\ k \in Int /\ Len(t) \in Int
  BY TableTypes
<1>2. ~(k < Len(t))
  BY <1>1, TableTypes DEF TableInv, FinalsOrdered
<1> QED
  BY <1>1, <1>2

(* Resizing the tail so that it holds the range has the effect of a claim. *)
LEMMA ResizedEffect ==
    ASSUME NEW t, NEW r, NEW capacity, Acceptable(t, r, capacity),
           NEW k, IsTailFor(t, r, k),
           NEW u, Resized(t, u, k),
           u[k].capacity = t[k].capacity \/ k = Len(t),
           u[k].count = t[k].count + r.len,
           Slack(u[k]) <= capacity \/ Slack(u[k]) <= Slack(t[k])
    PROVE  ClaimEffect(t, u, r, capacity)
<1> USE AcceptableTypes
<1> t \in Seq(Cluster) /\ TableInv(t) /\ k \in DOMAIN t /\ u \in Seq(Cluster)
  BY DEF Acceptable, IsTailFor, Resized
<1>1. TableInv(u) /\ Grows(t, u)
  BY ResizeTail, ResizedGrows DEF IsTailFor
<1>2. /\ DOMAIN u = DOMAIN t
      /\ \A i \in DOMAIN t : u[i].session = t[i].session
      /\ \A s : Chain(u, s) = Chain(t, s)
  BY ResizedSameChains
<1>3. ASSUME NEW s \in Sessions
      PROVE  NextBase(u, s) = IF s = r.session THEN r.base + r.len ELSE NextBase(t, s)
  <2>1. CASE s = r.session
    <3>1. IsTail(u, s, k)
      BY <2>1, <1>2 DEF IsTailFor, IsTail
    <3>2. NextBase(u, s) = u[k].count - u[k].baseLocal
      BY <1>1, <3>1, NextBaseOfTail
    <3>3. u[k].baseLocal = t[k].baseLocal /\ t[k].baseLocal = t[k].count - r.base
      BY TailBegins DEF Resized
    <3>4. t[k].count \in Int /\ r.len \in Int /\ r.base \in Int
      BY TableTypes
    <3>5. \A n, m, first \in Int : (n + m) - (n - first) = first + m
      OBVIOUS
    <3>6. u[k].count - u[k].baseLocal = r.base + r.len
      BY <3>3, <3>4, <3>5
    <3> QED
      BY <2>1, <3>2, <3>6
  <2>2. CASE s # r.session
    <3>1. \A i \in Chain(t, s) : u[i] = t[i]
      BY <2>2 DEF IsTailFor, Chain, Resized
    <3>2. NextBase(u, s) = NextBase(t, s)
      BY <1>1, <1>2, <3>1, NextBaseSame
    <3> QED
      BY <2>2, <3>2
  <2> QED
    BY <2>1, <2>2
<1>4. ASSUME NEW i \in DOMAIN u
      PROVE  Slack(u[i]) <= capacity \/ (i \in DOMAIN t /\ Slack(u[i]) <= Slack(t[i]))
  <2>1. CASE i = k
    BY <2>1
  <2>2. CASE i # k
    <3>1. u[i] = t[i] /\ i \in DOMAIN t /\ t[i].capacity \in Int /\ t[i].count \in Int
      BY <2>2, <1>2, TableTypes DEF Resized
    <3>2. \A m, n \in Int : m - n <= m - n
      OBVIOUS
    <3> QED
      BY <3>1, <3>2 DEF Slack
  <2> QED
    BY <2>1, <2>2
<1> QED
  BY <1>1, <1>2, <1>3, <1>4 DEF ClaimEffect

(* Resizing a cluster upwards. *)
LEMMA ResizeIsResized ==
    ASSUME NEW t \in Seq(Cluster), NEW k \in DOMAIN t,
           NEW capacity \in Positive, NEW count \in Positive,
           t[k].capacity <= capacity, t[k].count <= count, count <= capacity
    PROVE  /\ Resized(t, Resize(t, k, capacity, count), k)
           /\ Resize(t, k, capacity, count)[k].capacity = capacity
           /\ Resize(t, k, capacity, count)[k].count = count
<1> DEFINE u == Resize(t, k, capacity, count)
           c == [t[k] EXCEPT !.capacity = capacity, !.count = count]
<1>1. t[k] \in Cluster
  BY TableTypes
<1>2. /\ c \in Cluster
      /\ c.session = t[k].session /\ c.baseFinal = t[k].baseFinal
      /\ c.baseLocal = t[k].baseLocal
      /\ c.capacity = capacity /\ c.count = count
  BY <1>1 DEF Cluster
<1> HIDE DEF c
<1>3. u = [t EXCEPT ![k] = c]
  BY <1>1 DEF Cluster, Resize, c
<1>4. /\ u \in Seq(Cluster) /\ Len(u) = Len(t)
      /\ \A i \in DOMAIN t : u[i] = IF i = k THEN c ELSE t[i]
  BY <1>2, <1>3, ExceptSeq
<1> HIDE DEF u
<1> QED
  BY <1>2, <1>4 DEF Resized, u

(* A range that fits raises the count of the tail cluster. *)
LEMMA FillTailEffect ==
    ASSUME NEW t, NEW r, NEW capacity, Acceptable(t, r, capacity),
           Chain(t, r.session) # {}, Remaining(t, r.session) >= r.len
    PROVE  ClaimEffect(t, FillTail(t, r), r, capacity)
<1> DEFINE k == TailIndex(t, r.session)
           u == FillTail(t, r)
<1> USE AcceptableTypes
<1>1. IsTailFor(t, r, k)
  BY TailForRange
<1>2. k \in DOMAIN t /\ t \in Seq(Cluster)
  BY <1>1 DEF IsTailFor
<1>3. /\ t[k].capacity \in Positive
      /\ t[k].count \in Nat /\ t[k].capacity \in Nat
      /\ t[k].count + r.len \in Positive
      /\ t[k].count <= t[k].count + r.len
      /\ t[k].count + r.len <= t[k].capacity
      /\ t[k].capacity <= t[k].capacity
  BY <1>2, TableTypes DEF Remaining, TailCluster, Positive
<1>4. u = Resize(t, k, t[k].capacity, t[k].count + r.len)
  BY DEF FillTail
<1> HIDE DEF k, u
<1>5. /\ Resized(t, u, k)
      /\ u[k].capacity = t[k].capacity
      /\ u[k].count = t[k].count + r.len
  BY <1>2, <1>3, <1>4, ResizeIsResized
<1>6. ClaimEffect(t, u, r, capacity)
  <2>1. \A m, n, len \in Nat : m - (n + len) <= m - n
    OBVIOUS
  <2>2. Slack(u[k]) <= Slack(t[k])
    BY <1>3, <1>5, <2>1 DEF Slack
  <2> QED
    BY <1>1, <1>5, <2>2, ResizedEffect
<1> QED
  BY <1>6 DEF u

(* A range that does not fit expands the last cluster of the final space. *)
LEMMA ExpandTailEffect ==
    ASSUME NEW t, NEW r, NEW capacity, Acceptable(t, r, capacity),
           Chain(t, r.session) # {}, TailIsLast(t, r.session),
           ~(Remaining(t, r.session) >= r.len)
    PROVE  ClaimEffect(t, ExpandTail(t, r, capacity), r, capacity)
<1> DEFINE k == TailIndex(t, r.session)
           more == (r.len - Remaining(t, r.session)) + capacity
           u == ExpandTail(t, r, capacity)
<1> USE AcceptableTypes
<1>1. IsTailFor(t, r, k)
  BY TailForRange
<1>2. k \in DOMAIN t /\ t \in Seq(Cluster)
  BY <1>1 DEF IsTailFor
<1>3. /\ t[k].capacity \in Nat /\ t[k].count \in Nat /\ t[k].count > 0
      /\ t[k].count <= t[k].capacity
      /\ more = (r.len - (t[k].capacity - t[k].count)) + capacity
      /\ t[k].capacity - t[k].count < r.len
  BY <1>1, <1>2, TableTypes DEF Remaining, TailCluster, IsTailFor
<1>4. /\ t[k].capacity + more \in Positive
      /\ t[k].count + r.len \in Positive
      /\ t[k].capacity <= t[k].capacity + more
      /\ t[k].count <= t[k].count + r.len
      /\ t[k].count + r.len <= t[k].capacity + more
  <2>1. r.len \in Nat /\ r.len > 0 /\ capacity \in Nat /\ capacity > 0
    OBVIOUS
  <2> QED
    BY <1>3, <2>1, ExpandedSizes, Zenon
<1>5. k = Len(t)
  BY <1>2, TailIsLastIndex DEF TailIsLast, TailCluster, Acceptable
<1>6. u = Resize(t, k, t[k].capacity + more, t[k].count + r.len)
  BY DEF ExpandTail
<1> HIDE DEF k, more, u
<1>7. /\ Resized(t, u, k)
      /\ u[k].capacity = t[k].capacity + more
      /\ u[k].count = t[k].count + r.len
  BY <1>2, <1>4, <1>6, ResizeIsResized
<1>8. ClaimEffect(t, u, r, capacity)
  <2>1. \A old, count, len, spare \in Nat :
           (old + ((len - (old - count)) + spare)) - (count + len) <= spare
    OBVIOUS
  <2>2. Slack(u[k]) <= capacity
    BY <1>3, <1>7, <2>1 DEF Slack
  <2> QED
    BY <1>1, <1>5, <1>7, <2>2, ResizedEffect
<1> QED
  BY <1>8 DEF u

(* A range that does not fit a cluster others have claimed past fills it and
   overflows into a new one.                                               *)
LEMMA OverflowToNewEffect ==
    ASSUME NEW t, NEW r, NEW capacity, Acceptable(t, r, capacity),
           Chain(t, r.session) # {}, ~(Remaining(t, r.session) >= r.len)
    PROVE  ClaimEffect(t, OverflowToNew(t, r, capacity), r, capacity)
<1> DEFINE k == TailIndex(t, r.session)
           remaining == Remaining(t, r.session)
           overflow == r.len - remaining
           v == Resize(t, k, t[k].capacity, t[k].capacity)
           c == NewCluster(t, r.session, -r.base - remaining, overflow + capacity, overflow)
           u == Append(v, c)
<1> USE AcceptableTypes
<1>1. IsTailFor(t, r, k)
  BY TailForRange
<1>2. k \in DOMAIN t /\ t \in Seq(Cluster) /\ TableInv(t)
  BY <1>1 DEF IsTailFor, Acceptable
<1>3. /\ t[k].baseLocal \in Int /\ t[k].baseLocal < 0
      /\ t[k].capacity \in Nat /\ t[k].count \in Nat /\ t[k].count > 0
      /\ t[k].count <= t[k].capacity
      /\ t[k].baseLocal - t[k].count = -r.base
      /\ remaining = t[k].capacity - t[k].count
      /\ remaining < r.len
  BY <1>1, <1>2, TableTypes DEF Remaining, TailCluster, IsTailFor
<1>4. /\ -r.base - remaining = t[k].baseLocal - t[k].capacity
      /\ -r.base - remaining \in LocalIds
      /\ overflow \in Positive /\ overflow + capacity \in Positive
      /\ overflow <= overflow + capacity
      /\ t[k].capacity \in Positive /\ t[k].capacity <= t[k].capacity
  <2>1. /\ r.base \in Int /\ r.len \in Int /\ capacity \in Int /\ 0 < capacity
        /\ t[k].capacity \in Int /\ t[k].count \in Int /\ 0 < t[k].count
    BY <1>3
  <2>2. -r.base - remaining = t[k].baseLocal - t[k].capacity
    BY <1>3, <2>1
  <2>3. -r.base - remaining \in LocalIds
    <3>1. t[k].baseLocal - t[k].capacity \in Int /\ t[k].baseLocal - t[k].capacity < 0
      BY <1>3
    <3> QED BY <2>2, <3>1 DEF LocalIds
  <2>4. overflow \in Nat /\ overflow > 0
    BY <1>3, <2>1
  <2>5. overflow + capacity \in Nat /\ overflow + capacity > 0 /\ overflow <= overflow + capacity
    <3> HIDE DEF overflow
    <3> QED BY <2>1, <2>4
  <2>6. t[k].capacity \in Positive
    BY <1>3 DEF Positive
  <2> QED
    BY <1>3, <2>2, <2>3, <2>4, <2>5, <2>6 DEF Positive
<1>5. /\ c \in Cluster
      /\ c.session = r.session
      /\ c.baseFinal = NextBaseFinal(t)
      /\ c.baseLocal = t[k].baseLocal - t[k].capacity
      /\ c.capacity = overflow + capacity
      /\ c.count = overflow
  BY <1>4, <1>2, NewClusterType
<1> HIDE DEF k, remaining, overflow, c, v, u
<1>6. /\ Resized(t, v, k)
      /\ v[k].capacity = t[k].capacity
      /\ v[k].count = t[k].capacity
  <2>1. /\ t[k].capacity \in Positive /\ t[k].count <= t[k].capacity
        /\ t[k].capacity <= t[k].capacity
    BY <1>3, <1>4
  <2>2. v = Resize(t, k, t[k].capacity, t[k].capacity)
    BY DEF v
  <2> QED
    BY <1>2, <2>1, <2>2, ResizeIsResized
<1>7. TableInv(v) /\ Grows(t, v) /\ v \in Seq(Cluster)
  <2>1. IsTail(t, t[k].session, k)
    BY <1>1 DEF IsTailFor
  <2>2. TableInv(v)
    BY <1>2, <1>6, <2>1, ResizeTail
  <2>3. Grows(t, v)
    BY <1>2, <1>6, ResizedGrows
  <2> QED
    BY <2>2, <2>3, <1>6 DEF Resized
<1>8. /\ DOMAIN v = DOMAIN t
      /\ \A i \in DOMAIN t : v[i].session = t[i].session
      /\ \A s : Chain(v, s) = Chain(t, s)
  BY <1>2, <1>6, ResizedSameChains
<1>9. NextBaseFinal(v) = NextBaseFinal(t)
  <2>1. t # <<>> /\ v # <<>> /\ Len(v) = Len(t) /\ Len(t) \in DOMAIN t
    BY <1>2, <1>6, <1>7, TableTypes DEF Resized
  <2>2. v[Len(t)].baseFinal = t[Len(t)].baseFinal /\ v[Len(t)].capacity = t[Len(t)].capacity
    BY <2>1, <1>6 DEF Resized
  <2> QED
    BY <2>1, <2>2 DEF NextBaseFinal
<1>10. MayFollow(v, c)
  <2>1. IsTail(v, r.session, k)
    BY <1>1, <1>8 DEF IsTailFor, IsTail
  <2>2. \A i \in Chain(v, r.session) : IsTail(v, r.session, i) => i = k
    BY <2>1, <1>7, TailIsUnique
  <2>3. v[k].count = v[k].capacity /\ c.baseLocal = v[k].baseLocal - v[k].capacity
    BY <1>5, <1>6 DEF Resized
  <2>4. Chain(v, r.session) # {}
    BY <2>1 DEF IsTail
  <2> QED
    BY <1>4, <1>5, <1>9, <2>2, <2>3, <2>4 DEF MayFollow
<1>11. TableInv(u) /\ Grows(v, u)
  BY <1>7, <1>10, AddCluster DEF u
<1>12. /\ DOMAIN u = 1..(Len(t) + 1)
       /\ \A i \in DOMAIN t : u[i] = v[i]
       /\ u[Len(t) + 1] = c
       /\ \A i \in DOMAIN u : i = Len(t) + 1 \/ i \in DOMAIN t
  <2>1. Len(v) = Len(t)
    BY <1>6 DEF Resized
  <2> QED
    BY <1>5, <1>7, <1>8, <2>1, AppendedTable DEF u
<1>13. Grows(t, u)
  BY <1>7, <1>8, <1>12 DEF Grows
<1>14. ASSUME NEW s \in Sessions
       PROVE  NextBase(u, s) = IF s = r.session THEN r.base + r.len ELSE NextBase(t, s)
  <2>1. CASE s = r.session
    <3>1. IsTail(u, s, Len(t) + 1)
      BY <2>1, <1>5, <1>12 DEF IsTail, Chain
    <3>2. NextBase(u, s) = overflow - (t[k].baseLocal - t[k].capacity)
      BY <1>5, <1>11, <1>12, <3>1, NextBaseOfTail
    <3>3. t[k].baseLocal = t[k].count - r.base
      BY <1>1, TailBegins
    <3>4. overflow = r.len - (t[k].capacity - t[k].count)
      BY <1>3 DEF overflow
    <3>6. r.base \in Int /\ r.len \in Int /\ t[k].capacity \in Int /\ t[k].count \in Int
      BY <1>3
    <3>7. overflow - (t[k].baseLocal - t[k].capacity) = r.base + r.len
      <4>1. (r.len - (t[k].capacity - t[k].count)) - ((t[k].count - r.base) - t[k].capacity)
              = r.base + r.len
        BY <3>6
      <4> QED
        BY <3>3, <3>4, <4>1
    <3> QED
      BY <2>1, <3>2, <3>7
  <2>2. CASE s # r.session
    <3>1. Chain(u, s) = Chain(t, s)
      BY <2>2, <1>5, <1>8, <1>12 DEF Chain
    <3>2. \A i \in Chain(t, s) : u[i] = t[i]
      BY <2>2, <1>1, <1>6, <1>12 DEF IsTailFor, Chain, Resized
    <3>3. NextBase(u, s) = NextBase(t, s)
      BY <1>2, <1>11, <3>1, <3>2, NextBaseSame
    <3> QED
      BY <2>2, <3>3
  <2> QED
    BY <2>1, <2>2
<1>15. \A i \in DOMAIN u : u[i].session = r.session \/ \E j \in DOMAIN t : u[i].session = t[j].session
  BY <1>5, <1>8, <1>12
<1>16. ASSUME NEW i \in DOMAIN u
       PROVE  Slack(u[i]) <= capacity \/ (i \in DOMAIN t /\ Slack(u[i]) <= Slack(t[i]))
  <2>1. CASE i = k
    <3>1. u[i] = v[k]
      BY <2>1, <1>2, <1>12
    <3>2. \A m, n \in Int : n <= m => m - m <= m - n
      OBVIOUS
    <3> QED
      BY <2>1, <1>2, <1>3, <1>6, <3>1, <3>2 DEF Slack
  <2>2. CASE i \in DOMAIN t /\ i # k
    <3>1. u[i] = t[i] /\ t[i].capacity \in Int /\ t[i].count \in Int
      BY <2>2, <1>2, <1>6, <1>12, TableTypes DEF Resized
    <3>2. \A m, n \in Int : m - n <= m - n
      OBVIOUS
    <3> QED
      BY <2>2, <3>1, <3>2 DEF Slack
  <2>3. CASE i = Len(t) + 1
    <3>1. \A m, n \in Int : (m + n) - m <= n
      OBVIOUS
    <3> QED
      BY <2>3, <1>4, <1>5, <1>12, <3>1 DEF Slack, Positive
  <2> QED
    BY <2>1, <2>2, <2>3, <1>12
<1> QED
  BY <1>11, <1>13, <1>14, <1>15, <1>16
     DEF ClaimEffect, OverflowToNew, u, v, c, k, remaining, overflow

-----------------------------------------------------------------------------
(* Whichever path finalize_range takes, the claim has the effect above. *)
LEMMA ClaimIsCorrect ==
    ASSUME NEW t, NEW r, NEW capacity, Acceptable(t, r, capacity)
    PROVE  ClaimEffect(t, Claim(t, r, capacity), r, capacity)
<1>1. CASE Chain(t, r.session) = {}
  BY <1>1, ClaimFirstClusterEffect DEF Claim
<1>2. CASE Chain(t, r.session) # {} /\ Remaining(t, r.session) >= r.len
  BY <1>2, FillTailEffect DEF Claim
<1>3. CASE Chain(t, r.session) # {} /\ ~(Remaining(t, r.session) >= r.len)
           /\ TailIsLast(t, r.session)
  BY <1>3, ExpandTailEffect DEF Claim
<1>4. CASE Chain(t, r.session) # {} /\ ~(Remaining(t, r.session) >= r.len)
           /\ ~TailIsLast(t, r.session)
  BY <1>4, OverflowToNewEffect DEF Claim
<1> QED
  BY <1>1, <1>2, <1>3, <1>4
-----------------------------------------------------------------------------
(* The types of the fields of a compressor. *)
LEMMA CompressorTypes ==
    ASSUME NEW c \in Compressors
    PROVE  /\ c.sessionId \in Sessions /\ c.sessionId \in Nat /\ c.sessionId > 0
           /\ c.generatedIdCount \in Nat
           /\ c.nextRangeBase \in Nat /\ c.nextRangeBase > 0
           /\ c.finalIdLimit \in Nat
           /\ c.clusterCapacity \in Positive
           /\ c.sessions \in Seq(Sessions)
           /\ c.clusters \in Seq(Cluster)
           /\ c.normalizer \subseteq LocalIds
<1>1. \A s \in Sessions : s \in Nat /\ s > 0
  BY SessionsAssumption
<1> QED
  BY <1>1 DEF Compressors, Positive

(* The IDs a session has generated are those it was given an ID for. *)
LEMMA HeldIsIssued ==
    ASSUME NEW c, NEW g
    PROVE  Held(c, g) <=> \E id : Issued(c, g, id)
BY DEF Held, Issued

(* Its parts, in the form they are used. *)
LEMMA CompressorFacts ==
    ASSUME NEW c, CompressorInv(c)
    PROVE  /\ c \in Compressors
           /\ TableInv(c.clusters)
           /\ c.clusters \in Seq(Cluster)
           /\ c.sessionId \in Sessions /\ c.sessionId \in Nat /\ c.sessionId > 0
           /\ c.generatedIdCount \in Nat
           /\ c.nextRangeBase \in Nat /\ c.nextRangeBase > 0
           /\ c.normalizer \subseteq LocalIds
           /\ c.sessionId \in Known(c)
           /\ Known(c) \subseteq Sessions
<1>1. /\ c \in Compressors /\ TableInv(c.clusters)
      /\ c.sessions # <<>> /\ c.sessions[1] = c.sessionId
  BY DEF CompressorInv
<1>2. c.sessions \in Seq(Sessions)
  BY <1>1, CompressorTypes
<1>3. 1 \in DOMAIN c.sessions /\ \A i \in DOMAIN c.sessions : c.sessions[i] \in Sessions
  BY <1>1, <1>2
<1>4. c.sessionId \in Known(c) /\ Known(c) \subseteq Sessions
  BY <1>1, <1>3 DEF Known, Elements
<1> QED
  BY <1>1, <1>4, CompressorTypes

(* A table without clusters is correct. *)
LEMMA EmptyTable ==
    /\ TableInv(<<>>)
    /\ FinalLimit(<<>>) = 0
    /\ \A s : Chain(<<>>, s) = {}
    /\ \A s : NextBase(<<>>, s) = 1
<1>1. \A s : Chain(<<>>, s) = {}
  BY DEF Chain
<1> QED
  BY <1>1 DEF TableInv, FinalsTile, FinalsOrdered, LocalsTile, ChainsOrdered,
              ChainsHaveTails, FinalLimit, NextBase

(* A new compressor is correct. *)
LEMMA NewCompressorInv ==
    ASSUME NEW s \in Sessions
    PROVE  /\ CompressorInv(NewCompressor(s))
           /\ NewCompressor(s).sessionId = s
           /\ NewCompressor(s).generatedIdCount = 0
           /\ NewCompressor(s).nextRangeBase = 1
           /\ NewCompressor(s).clusters = <<>>
           /\ NewCompressor(s).clusterCapacity = DefaultClusterCapacity
           /\ NewCompressor(s).normalizer = {}
<1> DEFINE c == NewCompressor(s)
<1>1. c \in Compressors
  <2>1. /\ DefaultClusterCapacity \in Positive
        /\ 1 \in Positive
        /\ <<s>> \in Seq(Sessions)
        /\ <<>> \in Seq(Cluster)
    BY CapacityAssumption DEF Positive
  <2> QED
    BY <2>1 DEF NewCompressor, Compressors
<1>2. /\ c.clusters = <<>> /\ c.sessions = <<s>>
      /\ c.sessionId = s /\ c.finalIdLimit = 0
      /\ c.generatedIdCount = 0 /\ c.nextRangeBase = 1 /\ c.normalizer = {}
      /\ c.clusterCapacity = DefaultClusterCapacity
  BY DEF NewCompressor
<1> HIDE DEF c
<1>3. Distinct(c.sessions) /\ c.sessions # <<>> /\ c.sessions[1] = c.sessionId
  BY <1>2 DEF Distinct
<1>4. CompressorInv(c)
  BY <1>1, <1>2, <1>3, EmptyTable DEF CompressorInv, Held
<1> QED
  BY <1>2, <1>4 DEF c

-----------------------------------------------------------------------------
(* What no operation takes back. *)
Extends(c, d) ==
    /\ d.sessionId = c.sessionId
    /\ c.generatedIdCount <= d.generatedIdCount
    /\ Grows(c.clusters, d.clusters)
    /\ \A i \in DOMAIN c.sessions : i \in DOMAIN d.sessions /\ d.sessions[i] = c.sessions[i]
    /\ \A local \in LocalIds : GenCount(local) <= c.generatedIdCount =>
          (local \in d.normalizer <=> local \in c.normalizer)

(* Every table grows out of itself, and growing is transitive. *)
LEMMA GrowsReflexive ==
    ASSUME NEW t \in Seq(Cluster)
    PROVE  Grows(t, t)
BY TableTypes DEF Grows

LEMMA GrowsTransitive ==
    ASSUME NEW t \in Seq(Cluster), NEW u \in Seq(Cluster), NEW v \in Seq(Cluster),
           Grows(t, u), Grows(u, v)
    PROVE  Grows(t, v)
<1>1. Len(t) <= Len(v)
  BY TableTypes DEF Grows
<1>2. ASSUME NEW i \in DOMAIN t
      PROVE  /\ v[i].session = t[i].session
             /\ v[i].baseFinal = t[i].baseFinal
             /\ v[i].baseLocal = t[i].baseLocal
             /\ t[i].capacity <= v[i].capacity
             /\ t[i].count <= v[i].count
  <2>1. i \in DOMAIN u /\ i \in DOMAIN v
    BY <1>1, TableTypes DEF Grows
  <2>2. /\ t[i].capacity \in Int /\ u[i].capacity \in Int /\ v[i].capacity \in Int
        /\ t[i].count \in Int /\ u[i].count \in Int /\ v[i].count \in Int
    BY <2>1, TableTypes
  <2>3. \A x, y, z \in Int : x <= y /\ y <= z => x <= z
    OBVIOUS
  <2> QED
    BY <2>1, <2>2, <2>3 DEF Grows
<1> QED
  BY <1>1, <1>2 DEF Grows

(* What was issued as one ID stays issued as it. *)
LEMMA IssuedStays ==
    ASSUME NEW c, CompressorInv(c), NEW d, d.clusters \in Seq(Cluster), Extends(c, d),
           NEW g \in 1..c.generatedIdCount, NEW id, Issued(c, g, id)
    PROVE  Issued(d, g, id)
<1>1. /\ c.clusters \in Seq(Cluster) /\ c.generatedIdCount \in Nat
      /\ -g \in LocalIds /\ -g \in Int /\ GenCount(-g) <= c.generatedIdCount
  BY CompressorFacts DEF LocalIds, GenCount
<1>2. -g \in d.normalizer <=> -g \in c.normalizer
  BY <1>1 DEF Extends
<1>3. CASE -g \in c.normalizer
  BY <1>2, <1>3 DEF Issued
<1>4. CASE -g \notin c.normalizer
  <2>1. PICK i \in Chain(c.clusters, c.sessionId) :
           HoldsLocal(c.clusters[i], -g) /\ id = AllocatedFinal(c.clusters[i], -g)
    BY <1>4 DEF Issued
  <2>2. i \in DOMAIN c.clusters /\ c.clusters[i].session = c.sessionId
    BY DEF Chain
  <2>3. /\ i \in DOMAIN d.clusters /\ d.clusters[i].session = d.sessionId
        /\ HoldsLocal(d.clusters[i], -g)
        /\ AllocatedFinal(d.clusters[i], -g) = AllocatedFinal(c.clusters[i], -g)
    BY <1>1, <2>1, <2>2, GrowsHolds DEF Extends
  <2>4. i \in Chain(d.clusters, d.sessionId)
    BY <2>3 DEF Chain
  <2> QED
    BY <1>2, <1>4, <2>1, <2>3, <2>4 DEF Issued
<1> QED
  BY <1>3, <1>4

-----------------------------------------------------------------------------
(* The generation count m falls within the capacity of the tail cluster. *)
LEMMA EagerArithmetic ==
    ASSUME NEW base \in Int, NEW count \in Int, NEW capacity \in Int, NEW m \in Int,
           count - base <= m, capacity > m + base, count > 0
    PROVE  -m <= base /\ base - (capacity - 1) <= -m
OBVIOUS

(* An eager final ID is the one the tail cluster reserves for the next ID. *)
LEMMA EagerIsReserved ==
    ASSUME NEW c, CompressorInv(c), IsNextEager(c),
           NEW n, n = c.generatedIdCount + 1,
           NEW k, k = TailIndex(c.clusters, c.sessionId)
    PROVE  /\ k \in Chain(c.clusters, c.sessionId)
           /\ HoldsLocal(c.clusters[k], -n)
           /\ NextId(c) = AllocatedFinal(c.clusters[k], -n)
           /\ NextId(c) \in Int
<1> DEFINE t == c.clusters
<1>1. /\ TableInv(t) /\ t \in Seq(Cluster) /\ c.sessionId \in Sessions
      /\ c.generatedIdCount \in Nat
  BY CompressorFacts
<1>2. n \in Int /\ NextGenCount(c) = n
  BY <1>1 DEF NextGenCount
<1>3. /\ IsTail(t, c.sessionId, k) /\ k \in DOMAIN t
      /\ TailCluster(t, c.sessionId) = t[k]
  BY <1>1, TailIndexIsTail DEF IsNextEager, TailCluster
<1>4. NextBase(t, c.sessionId) = t[k].count - t[k].baseLocal
  BY <1>1, <1>3, NextBaseOfTail
<1>5. t[k].count - t[k].baseLocal <= n
  BY <1>4 DEF CompressorInv
<1>6. PICK base, count, capacity, baseFinal \in Int :
         /\ base = t[k].baseLocal /\ count = t[k].count /\ count > 0
         /\ capacity = t[k].capacity /\ baseFinal = t[k].baseFinal
  <2>1. /\ t[k].baseLocal \in Int /\ t[k].count \in Int /\ t[k].count > 0
        /\ t[k].capacity \in Int /\ t[k].baseFinal \in Int
    BY <1>1, <1>3, TableTypes
  <2> HIDE DEF t
  <2> QED
    BY <2>1
<1>7. ClusterOffset(c) = n + base
  <2>1. ClusterOffset(c) = n - (-base)
    BY <1>2, <1>3, <1>6 DEF ClusterOffset, GenCount
  <2> QED
    BY <1>2, <1>6, <2>1
<1>8. capacity > n + base
  BY <1>3, <1>6, <1>7 DEF IsNextEager
<1>9. -n <= base /\ base - (capacity - 1) <= -n
  BY <1>2, <1>5, <1>6, <1>8, EagerArithmetic
<1>10. HoldsLocal(t[k], -n)
  BY <1>6, <1>9 DEF HoldsLocal, MaxAllocatedLocal
<1>11. NextId(c) = baseFinal + (n + base)
  BY <1>3, <1>6, <1>7 DEF NextId
<1>12. AllocatedFinal(t[k], -n) = baseFinal + (n + base)
  <2>1. AllocatedFinal(t[k], -n) = baseFinal + ((-(-n)) - (-base))
    BY <1>6 DEF AllocatedFinal, GenCount
  <2> QED
    BY <1>2, <1>6, <2>1
<1>13. k \in Chain(t, c.sessionId)
  BY <1>3 DEF IsTail
<1> QED
  BY <1>2, <1>6, <1>10, <1>11, <1>12, <1>13

(* Generating an ID keeps a compressor correct and only adds to it. *)
LEMMA GenerateEffect ==
    ASSUME NEW c, CompressorInv(c), NEW d, d = GenerateNextId(c)
    PROVE  /\ CompressorInv(d)
           /\ Extends(c, d)
           /\ NextId(c) \in Int
           /\ Issued(d, d.generatedIdCount, NextId(c))
           /\ d.sessionId = c.sessionId
           /\ d.generatedIdCount = c.generatedIdCount + 1
           /\ d.nextRangeBase = c.nextRangeBase
           /\ d.clusterCapacity = c.clusterCapacity
           /\ d.sessions = c.sessions
           /\ d.clusters = c.clusters
<1> DEFINE t == c.clusters
           n == c.generatedIdCount + 1
           k == TailIndex(t, c.sessionId)
<1>1. /\ c \in Compressors /\ TableInv(t) /\ t \in Seq(Cluster)
      /\ c.sessionId \in Sessions /\ c.generatedIdCount \in Nat
      /\ c.normalizer \subseteq LocalIds
      /\ c.nextRangeBase \in Nat /\ c.nextRangeBase > 0
  BY CompressorFacts
<1>2. /\ n \in Nat /\ n > 0 /\ NextGenCount(c) = n /\ -n \in LocalIds
      /\ 1..n = (1..c.generatedIdCount) \cup {n}
      /\ n \notin 1..c.generatedIdCount
  BY <1>1 DEF NextGenCount, LocalIds
<1>3. ~IsNextEager(c) => NextId(c) = -n
  BY <1>2 DEF NextId
<1>4. d = [c EXCEPT !.generatedIdCount = n,
                    !.normalizer = IF IsNextEager(c) THEN @ ELSE @ \cup {-n}]
  BY <1>2, <1>3 DEF GenerateNextId
<1>5. /\ d.generatedIdCount = n
      /\ d.normalizer = IF IsNextEager(c) THEN c.normalizer ELSE c.normalizer \cup {-n}
      /\ d.sessionId = c.sessionId
      /\ d.nextRangeBase = c.nextRangeBase
      /\ d.finalIdLimit = c.finalIdLimit
      /\ d.clusterCapacity = c.clusterCapacity
      /\ d.sessions = c.sessions
      /\ d.clusters = t
  BY <1>1, <1>4 DEF Compressors
<1>6. d \in Compressors
  <2>1. d.normalizer \subseteq LocalIds
    BY <1>1, <1>2, <1>5
  <2>2. d = [c EXCEPT !.generatedIdCount = n, !.normalizer = d.normalizer]
    BY <1>4, <1>5
  <2> HIDE DEF n
  <2> QED
    BY <1>1, <1>2, <2>1, <2>2 DEF Compressors
<1> HIDE DEF n, t
<1>7. c.normalizer \subseteq {-g : g \in 1..c.generatedIdCount}
  BY DEF CompressorInv
<1>8. -n \notin c.normalizer
  <2> SUFFICES ASSUME NEW g \in 1..c.generatedIdCount, -n = -g PROVE FALSE
    BY <1>7
  <2> QED
    BY <1>1, <1>2
<1>9. Extends(c, d)
  <2>1. c.generatedIdCount <= n
    BY <1>1 DEF n
  <2>2. ASSUME NEW local \in LocalIds, GenCount(local) <= c.generatedIdCount
        PROVE  local # -n
    BY <1>1, <2>2 DEF GenCount, n, LocalIds
  <2>3. Grows(t, t)
    BY <1>1, GrowsReflexive
  <2> QED
    BY <1>5, <2>1, <2>2, <2>3 DEF Extends, t
<1>10. Issued(d, n, NextId(c)) /\ NextId(c) \in Int
  <2>1. CASE IsNextEager(c)
    <3>1. /\ k \in Chain(t, c.sessionId)
          /\ HoldsLocal(t[k], -n)
          /\ NextId(c) = AllocatedFinal(t[k], -n)
          /\ NextId(c) \in Int
      BY <2>1, EagerIsReserved DEF n, t
    <3>2. -n \notin d.normalizer
      BY <1>5, <1>8, <2>1
    <3> QED
      BY <1>5, <3>1, <3>2 DEF Issued
  <2>2. CASE ~IsNextEager(c)
    BY <1>2, <1>3, <1>5, <2>2 DEF Issued
  <2> QED
    BY <2>1, <2>2
<1>11. CompressorInv(d)
  <2>1. \A g \in 1..n : Held(d, g)
    <3>1. ASSUME NEW g \in 1..c.generatedIdCount
          PROVE  \E id : Issued(d, g, id)
      <4>1. PICK id : Issued(c, g, id)
        BY HeldIsIssued DEF CompressorInv
      <4> QED
        BY <1>1, <1>5, <1>9, <4>1, IssuedStays
    <3> QED
      BY <1>2, <1>10, <3>1, HeldIsIssued
  <2>2. d.normalizer \subseteq {-g : g \in 1..n}
    BY <1>2, <1>5, <1>7
  <2>3. NextBase(t, c.sessionId) <= n + 1 /\ c.nextRangeBase <= n + 1
    <3>1. NextBase(t, c.sessionId) \in Int
      BY <1>1, NextBaseType
    <3>2. NextBase(t, c.sessionId) <= n /\ c.nextRangeBase <= n
      BY DEF CompressorInv, n, t
    <3> QED
      BY <1>1, <1>2, <3>1, <3>2
  <2> QED
    BY <1>5, <1>6, <2>1, <2>2, <2>3 DEF CompressorInv, Known, t
<1> QED
  BY <1>5, <1>9, <1>10, <1>11 DEF n, t
(* Taking a range keeps a compressor correct. *)
LEMMA TakeEffect ==
    ASSUME NEW c, CompressorInv(c), NEW d, d = TakeNextRange(c)
    PROVE  /\ CompressorInv(d)
           /\ Extends(c, d)
           /\ d.sessionId = c.sessionId
           /\ d.generatedIdCount = c.generatedIdCount
           /\ d.nextRangeBase = c.generatedIdCount + 1
           /\ d.clusterCapacity = c.clusterCapacity
           /\ d.sessions = c.sessions
           /\ d.clusters = c.clusters
           /\ d.normalizer = c.normalizer
           /\ NextRange(c) \in Ranges
           /\ NextRange(c).session = c.sessionId
           /\ NextRange(c).base = c.nextRangeBase
           /\ NextRange(c).len = UntakenCount(c)
           /\ c.nextRangeBase + UntakenCount(c) = c.generatedIdCount + 1
<1>1. /\ c \in Compressors /\ c.clusters \in Seq(Cluster)
      /\ c.sessionId \in Sessions
      /\ c.generatedIdCount \in Nat /\ c.nextRangeBase \in Nat /\ c.nextRangeBase > 0
      /\ c.nextRangeBase <= c.generatedIdCount + 1
  BY CompressorFacts DEF CompressorInv
<1>2. /\ c.generatedIdCount + 1 \in Positive
      /\ c.generatedIdCount + 1 <= c.generatedIdCount + 1
      /\ c.generatedIdCount <= c.generatedIdCount
  BY <1>1 DEF Positive
<1>3. /\ d \in Compressors
      /\ d.nextRangeBase = c.generatedIdCount + 1
      /\ d.generatedIdCount = c.generatedIdCount
      /\ d.sessionId = c.sessionId
      /\ d.finalIdLimit = c.finalIdLimit
      /\ d.clusterCapacity = c.clusterCapacity
      /\ d.sessions = c.sessions
      /\ d.clusters = c.clusters
      /\ d.normalizer = c.normalizer
  BY <1>1, <1>2 DEF TakeNextRange, Compressors
<1>4. CompressorInv(d)
  BY <1>2, <1>3 DEF CompressorInv, Known, Held
<1>5. Extends(c, d)
  BY <1>1, <1>2, <1>3, GrowsReflexive DEF Extends
<1>6. UntakenCount(c) \in Nat /\ c.nextRangeBase + UntakenCount(c) = c.generatedIdCount + 1
  BY <1>1 DEF UntakenCount
<1>7. /\ NextRange(c) \in Ranges
      /\ NextRange(c).session = c.sessionId
      /\ NextRange(c).base = c.nextRangeBase
      /\ NextRange(c).len = UntakenCount(c)
  BY <1>1, <1>6 DEF NextRange, Ranges, Positive
<1> QED
  BY <1>3, <1>4, <1>5, <1>6, <1>7

(* Setting the capacity keeps a compressor correct. *)
LEMMA SetCapacityEffect ==
    ASSUME NEW c, CompressorInv(c), NEW capacity \in Positive,
           NEW d, d = SetClusterCapacity(c, capacity)
    PROVE  /\ CompressorInv(d)
           /\ Extends(c, d)
           /\ d.sessionId = c.sessionId
           /\ d.generatedIdCount = c.generatedIdCount
           /\ d.nextRangeBase = c.nextRangeBase
           /\ d.clusterCapacity = capacity
           /\ d.sessions = c.sessions
           /\ d.clusters = c.clusters
           /\ d.normalizer = c.normalizer
<1>1. c \in Compressors /\ c.clusters \in Seq(Cluster) /\ c.generatedIdCount \in Nat
  BY CompressorFacts
<1>2. /\ d \in Compressors
      /\ d.nextRangeBase = c.nextRangeBase
      /\ d.generatedIdCount = c.generatedIdCount
      /\ d.sessionId = c.sessionId
      /\ d.finalIdLimit = c.finalIdLimit
      /\ d.clusterCapacity = capacity
      /\ d.sessions = c.sessions
      /\ d.clusters = c.clusters
      /\ d.normalizer = c.normalizer
  BY <1>1 DEF SetClusterCapacity, Compressors
<1>3. CompressorInv(d)
  BY <1>2 DEF CompressorInv, Known, Held
<1>4. Extends(c, d)
  <2>1. c.generatedIdCount <= c.generatedIdCount
    BY <1>1
  <2> QED
    BY <1>1, <1>2, <2>1, GrowsReflexive DEF Extends
<1> QED
  BY <1>2, <1>3, <1>4

-----------------------------------------------------------------------------
(* get_or_create adds at most one session, at the end. *)
LEMMA GetOrCreateEffect ==
    ASSUME NEW sessions \in Seq(Sessions), NEW s \in Sessions
    PROVE  /\ GetOrCreate(sessions, s) \in Seq(Sessions)
           /\ Elements(GetOrCreate(sessions, s)) = Elements(sessions) \cup {s}
           /\ Len(sessions) <= Len(GetOrCreate(sessions, s))
           /\ \A i \in DOMAIN sessions : /\ i \in DOMAIN GetOrCreate(sessions, s)
                                        /\ GetOrCreate(sessions, s)[i] = sessions[i]
           /\ Distinct(sessions) => Distinct(GetOrCreate(sessions, s))
<1>1. CASE s \in Elements(sessions)
  BY <1>1 DEF GetOrCreate
<1>2. CASE s \notin Elements(sessions)
  <2> DEFINE u == Append(sessions, s)
  <2>1. /\ u \in Seq(Sessions) /\ Len(u) = Len(sessions) + 1
        /\ DOMAIN sessions = 1..Len(sessions) /\ DOMAIN u = 1..(Len(sessions) + 1)
        /\ \A i \in DOMAIN sessions : u[i] = sessions[i]
        /\ u[Len(sessions) + 1] = s
        /\ Len(sessions) \in Nat
    BY AppendProperties
  <2> HIDE DEF u
  <2>2. \A i \in DOMAIN u : i = Len(sessions) + 1 \/ i \in DOMAIN sessions
    BY <2>1
  <2>3. \A i \in DOMAIN sessions : i \in DOMAIN u
    BY <2>1
  <2>4. Len(sessions) + 1 \in DOMAIN u
    BY <2>1
  <2>5. Elements(u) = Elements(sessions) \cup {s}
    BY <2>1, <2>2, <2>3, <2>4 DEF Elements
  <2>6. \A i \in DOMAIN sessions : sessions[i] # s
    BY <1>2 DEF Elements
  <2>7. Distinct(sessions) => Distinct(u)
    BY <2>1, <2>2, <2>6 DEF Distinct
  <2> QED
    BY <1>2, <2>1, <2>3, <2>5, <2>7 DEF GetOrCreate, u
<1> QED
  BY <1>1, <1>2

(* The first final ID beyond the finalized ones is a number. *)
LEMMA FinalLimitType ==
    ASSUME NEW t \in Seq(Cluster)
    PROVE  FinalLimit(t) \in Nat
<1>1. CASE t = <<>>
  BY <1>1 DEF FinalLimit
<1>2. CASE t # <<>>
  <2>1. Len(t) \in DOMAIN t
    BY <1>2
  <2>2. t[Len(t)].baseFinal \in Nat /\ t[Len(t)].count \in Nat
    BY <2>1, TableTypes
  <2>3. \A m, n \in Nat : m + n \in Nat
    OBVIOUS
  <2> QED
    BY <1>2, <2>2, <2>3 DEF FinalLimit
<1> QED
  BY <1>1, <1>2

(* A range is in order if it begins where its session's finalized IDs end. *)
LEMMA InOrderMeans ==
    ASSUME NEW t, TableInv(t), NEW r \in Ranges
    PROVE  IsInOrder(t, r) <=> r.base = NextBase(t, r.session)
<1>1. r.session \in Sessions /\ r.base \in Int
  BY DEF Ranges, Positive
<1>2. CASE Chain(t, r.session) = {}
  BY <1>1, <1>2 DEF IsInOrder, NextBase
<1>3. CASE Chain(t, r.session) # {}
  <2> DEFINE k == TailIndex(t, r.session)
  <2>1. t \in Seq(Cluster) /\ k \in DOMAIN t
    BY <1>1, <1>3, TailIndexIsTail DEF TableInv
  <2>2. t[k].baseLocal \in Int /\ t[k].count \in Int
    BY <2>1, TableTypes
  <2>3. IsInOrder(t, r) <=> t[k].baseLocal - t[k].count = -r.base
    BY <1>3 DEF IsInOrder, TailCluster
  <2>4. NextBase(t, r.session) = t[k].count - t[k].baseLocal
    BY <1>3 DEF NextBase, TailCluster
  <2> HIDE DEF k
  <2> QED
    BY <1>1, <2>2, <2>3, <2>4
<1> QED
  BY <1>2, <1>3

(* Finalizing a range of another session, or of IDs the own session has
   generated, keeps a compressor correct and only adds to it.              *)
LEMMA FinalizeEffect ==
    ASSUME NEW c, CompressorInv(c), NEW r \in Ranges,
           r.session = c.sessionId => r.base + r.len <= c.generatedIdCount + 1,
           NEW d, d = FinalizeRange(c, r)
    PROVE  /\ CompressorInv(d)
           /\ Extends(c, d)
           /\ d.sessionId = c.sessionId
           /\ d.generatedIdCount = c.generatedIdCount
           /\ d.nextRangeBase = c.nextRangeBase
           /\ d.clusterCapacity = c.clusterCapacity
           /\ d.normalizer = c.normalizer
           /\ FinalizeResult(c, r) = "Ok" => d.clusters = Claim(c.clusters, r, c.clusterCapacity)
           /\ FinalizeResult(c, r) # "Ok" => d.clusters = c.clusters
<1> DEFINE t == c.clusters
           u == Claim(t, r, c.clusterCapacity)
           known == GetOrCreate(c.sessions, r.session)
<1>1. /\ c \in Compressors /\ TableInv(t) /\ t \in Seq(Cluster)
      /\ c.sessionId \in Sessions
      /\ c.generatedIdCount \in Nat /\ c.generatedIdCount <= c.generatedIdCount
      /\ c.clusterCapacity \in Positive
      /\ c.sessions \in Seq(Sessions)
      /\ r.session \in Sessions
      /\ c.finalIdLimit = FinalLimit(t)
      /\ Distinct(c.sessions)
      /\ c.sessions # <<>> /\ 1 \in DOMAIN c.sessions /\ c.sessions[1] = c.sessionId
  <2>1. c \in Compressors /\ c.sessions \in Seq(Sessions) /\ c.clusterCapacity \in Positive
    BY CompressorFacts, CompressorTypes
  <2>2. c.sessions # <<>> => 1 \in DOMAIN c.sessions
    BY <2>1
  <2> QED
    BY <2>1, <2>2, CompressorFacts DEF Ranges, CompressorInv
<1>2. /\ known \in Seq(Sessions)
      /\ Elements(known) = Elements(c.sessions) \cup {r.session}
      /\ Distinct(known)
      /\ \A i \in DOMAIN c.sessions : i \in DOMAIN known /\ known[i] = c.sessions[i]
      /\ known # <<>> /\ known[1] = c.sessionId
  <2>1. /\ known \in Seq(Sessions)
        /\ Elements(known) = Elements(c.sessions) \cup {r.session}
        /\ Distinct(known)
        /\ \A i \in DOMAIN c.sessions : i \in DOMAIN known /\ known[i] = c.sessions[i]
    BY <1>1, GetOrCreateEffect
  <2>2. 1 \in DOMAIN known /\ known[1] = c.sessionId
    BY <1>1, <2>1
  <2> HIDE DEF known
  <2>3. known # <<>>
    BY <2>2
  <2> QED
    BY <2>1, <2>2, <2>3
<1>3. \A i \in DOMAIN t : t[i].session \in Elements(c.sessions)
  BY DEF CompressorInv, Known
<1> HIDE DEF known, u
<1>4. CASE FinalizeResult(c, r) = "Ok"
  <2>1. Acceptable(t, r, c.clusterCapacity)
    BY <1>1, <1>4 DEF FinalizeResult, Acceptable
  <2>2. ClaimEffect(t, u, r, c.clusterCapacity)
    BY <2>1, ClaimIsCorrect DEF u
  <2>3. u \in Seq(Cluster) /\ FinalLimit(u) \in Nat
    BY <2>2, FinalLimitType DEF ClaimEffect, TableInv
  <2>4. d = [c EXCEPT !.sessions = known, !.clusters = u, !.finalIdLimit = FinalLimit(u)]
    BY <1>4 DEF FinalizeRange, u, known
  <2>5. /\ d \in Compressors
        /\ d.sessionId = c.sessionId /\ d.generatedIdCount = c.generatedIdCount
        /\ d.nextRangeBase = c.nextRangeBase /\ d.normalizer = c.normalizer
        /\ d.clusterCapacity = c.clusterCapacity
        /\ d.sessions = known /\ d.clusters = u /\ d.finalIdLimit = FinalLimit(u)
    BY <1>1, <1>2, <2>3, <2>4 DEF Compressors
  <2>6. NextBase(u, c.sessionId) <= c.generatedIdCount + 1
    BY <1>1, <2>2 DEF ClaimEffect, CompressorInv
  <2>7. \A i \in DOMAIN u : u[i].session \in Elements(known)
    BY <1>2, <1>3, <2>2 DEF ClaimEffect
  <2>8. TableInv(u) /\ Grows(t, u)
    BY <2>2 DEF ClaimEffect
  <2>9. Extends(c, d)
    BY <1>1, <1>2, <2>5, <2>8 DEF Extends
  <2>10. \A g \in 1..c.generatedIdCount : Held(d, g)
    BY <2>3, <2>5, <2>9, IssuedStays, HeldIsIssued DEF CompressorInv
  <2>11. CompressorInv(d)
    BY <1>2, <2>5, <2>6, <2>7, <2>8, <2>10 DEF CompressorInv, Known
  <2> QED
    BY <1>4, <2>5, <2>9, <2>11 DEF u
<1>5. CASE FinalizeResult(c, r) = "RangeFinalizedOutOfOrder"
  <2>1. d = [c EXCEPT !.sessions = known]
    BY <1>5 DEF FinalizeRange, known
  <2>2. /\ d \in Compressors
        /\ d.sessionId = c.sessionId /\ d.generatedIdCount = c.generatedIdCount
        /\ d.nextRangeBase = c.nextRangeBase /\ d.normalizer = c.normalizer
        /\ d.clusterCapacity = c.clusterCapacity
        /\ d.sessions = known /\ d.clusters = t /\ d.finalIdLimit = c.finalIdLimit
    BY <1>1, <1>2, <2>1 DEF Compressors
  <2>3. Extends(c, d)
    BY <1>1, <1>2, <2>2, GrowsReflexive DEF Extends
  <2>4. \A i \in DOMAIN t : t[i].session \in Elements(known)
    BY <1>2, <1>3
  <2>5. CompressorInv(d)
    BY <1>2, <2>2, <2>4 DEF CompressorInv, Known, Held
  <2> QED
    BY <1>5, <2>2, <2>3, <2>5
<1>6. CASE FinalizeResult(c, r) \notin {"Ok", "RangeFinalizedOutOfOrder"}
  <2>1. d = c
    BY <1>6 DEF FinalizeRange
  <2>2. Extends(c, c)
    BY <1>1, GrowsReflexive DEF Extends
  <2> QED
    BY <1>6, <2>1, <2>2
<1> QED
  BY <1>4, <1>5, <1>6
-----------------------------------------------------------------------------
(* Lookups by UUID.  The tail cluster of a chain reaches farthest. *)
LEMMA TailReachesFarthest ==
    ASSUME NEW t, TableInv(t), NEW s \in Sessions, NEW i \in Chain(t, s)
    PROVE  /\ MaxAllocatedLocal(TailCluster(t, s)) \in Int
           /\ MaxAllocatedLocal(t[i]) \in Int
           /\ MaxAllocatedLocal(TailCluster(t, s)) <= MaxAllocatedLocal(t[i])
<1> DEFINE k == TailIndex(t, s)
<1>1. /\ IsTail(t, s, k) /\ k \in DOMAIN t /\ t[k].session = s /\ TailCluster(t, s) = t[k]
      /\ t \in Seq(Cluster) /\ i \in DOMAIN t /\ t[i].session = s
  BY TailIndexIsTail DEF TailCluster, TableInv, Chain
<1> HIDE DEF k
<1>2. /\ t[i].baseLocal \in Int /\ t[i].capacity \in Int /\ t[i].capacity > 0 /\ i \in Int
      /\ t[k].baseLocal \in Int /\ t[k].capacity \in Int /\ t[k].capacity > 0 /\ k \in Int
  BY <1>1, TableTypes
<1>3. /\ MaxAllocatedLocal(t[i]) = t[i].baseLocal - (t[i].capacity - 1)
      /\ MaxAllocatedLocal(t[k]) = t[k].baseLocal - (t[k].capacity - 1)
  BY DEF MaxAllocatedLocal
<1>4. CASE i = k
  BY <1>1, <1>2, <1>3, <1>4
<1>5. CASE i # k
  <2>1. i < k
    BY <1>1, <1>2, <1>5 DEF IsTail
  <2>2. t[k].baseLocal <= t[i].baseLocal - t[i].capacity
    BY <1>1, <2>1 DEF TableInv, ChainsOrdered
  <2>3. \A b, n, b2, n2 \in Int : b2 <= b - n /\ n2 > 0 => b2 - (n2 - 1) <= b - (n - 1)
    OBVIOUS
  <2>4. t[k].baseLocal - (t[k].capacity - 1) <= t[i].baseLocal - (t[i].capacity - 1)
    BY <1>2, <2>2, <2>3
  <2>5. /\ t[k].baseLocal - (t[k].capacity - 1) \in Int
        /\ t[i].baseLocal - (t[i].capacity - 1) \in Int
    BY <1>2
  <2> QED
    BY <1>1, <1>3, <2>4, <2>5
<1> QED
  BY <1>4, <1>5

(* The UUID of a local ID and the local ID of a UUID. *)
LEMMA UuidArithmetic ==
    ASSUME NEW s \in Int, NEW local \in Int
    PROVE  /\ OriginatorLocal(s, StableOf(s, local)) = local
           /\ -(StableOf(s, local) - s + 1) = local
           /\ StableOf(s, local) = s + -local - 1
           /\ \A m \in Int : m <= local => StableOf(s, local) <= StableOf(s, m)
BY DEF OriginatorLocal, StableOf, GenCount

(* The UUID of a local ID that a cluster reserves is found in that cluster, if
   no other known session is as near.                                      *)
LEMMA FoundCluster ==
    ASSUME NEW t, TableInv(t), NEW known, NEW s \in Sessions, NEW local \in Int,
           NEW uuid, uuid = StableOf(s, local), Nearest(known, uuid) = {s},
           NEW i \in Chain(t, s), HoldsLocal(t[i], local)
    PROVE  ContainingClusters(known, t, uuid) = {i}
<1>1. /\ t \in Seq(Cluster) /\ i \in DOMAIN t /\ t[i].session = s /\ s \in Int
  BY SessionsAssumption DEF TableInv, Chain
<1>2. OriginatorLocal(s, uuid) = local
  BY <1>1, UuidArithmetic
<1>3. uuid <= MaxAllocatedStable(t, s)
  <2>1. /\ MaxAllocatedLocal(TailCluster(t, s)) \in Int
        /\ MaxAllocatedLocal(TailCluster(t, s)) <= MaxAllocatedLocal(t[i])
        /\ MaxAllocatedLocal(t[i]) \in Int
        /\ MaxAllocatedLocal(t[i]) <= local
    BY TailReachesFarthest DEF HoldsLocal
  <2>2. MaxAllocatedLocal(TailCluster(t, s)) <= local
    BY <2>1
  <2>3. uuid <= StableOf(s, MaxAllocatedLocal(TailCluster(t, s)))
    BY <1>1, <2>1, <2>2, UuidArithmetic
  <2> QED
    BY <2>3 DEF MaxAllocatedStable
<1>4. i \in ContainingClusters(known, t, uuid)
  BY <1>1, <1>2, <1>3 DEF ContainingClusters
<1>5. ASSUME NEW j \in ContainingClusters(known, t, uuid)
      PROVE  j = i
  <2>1. j \in Chain(t, s) /\ HoldsLocal(t[j], local)
    BY <1>2 DEF ContainingClusters, Chain
  <2> QED
    BY <1>1, <2>1, LocalsDisjoint
<1> QED
  BY <1>4, <1>5

(* The UUID of a local ID that none reserves is found in none. *)
LEMMA FoundNothing ==
    ASSUME NEW t, NEW known, NEW s \in Sessions, NEW local \in Int,
           NEW uuid, uuid = StableOf(s, local), Nearest(known, uuid) = {s},
           \A i \in Chain(t, s) : ~HoldsLocal(t[i], local)
    PROVE  ContainingClusters(known, t, uuid) = {}
<1>1. OriginatorLocal(s, uuid) = local
  BY SessionsAssumption, UuidArithmetic
<1> QED
  BY <1>1 DEF ContainingClusters, Chain

-----------------------------------------------------------------------------
(* The IDs a compressor has issued. *)

(* The numbers of the g-th. *)
LEMMA GenCounts ==
    ASSUME NEW c, CompressorInv(c), NEW g \in 1..c.generatedIdCount
    PROVE  /\ g \in Int /\ g >= 1 /\ -g \in Int /\ -g < 0 /\ ~(-g >= 0)
           /\ GenCount(-g) = g /\ GenCount(-g) <= c.generatedIdCount
           /\ StableOf(c.sessionId, -g) = c.sessionId + g - 1
BY CompressorFacts DEF GenCount, StableOf

(* The final ID of cluster i for a local ID is in it and aligned with that. *)
LEMMA FinalOfLocal ==
    ASSUME NEW t, TableInv(t), NEW i \in DOMAIN t, NEW local \in Int, HoldsLocal(t[i], local),
           NEW final, final = AllocatedFinal(t[i], local)
    PROVE  /\ final \in Nat /\ ~(final < 0)
           /\ HoldsFinal(t[i], final)
           /\ Search(t, final) = {i}
           /\ AlignedLocal(t[i], final) = local
<1>1. t[i] \in Cluster
  BY TableTypes DEF TableInv
<1>2. /\ final \in Nat /\ HoldsFinal(t[i], final) /\ AlignedLocal(t[i], final) = local
  BY <1>1, ClusterInverse
<1>3. Search(t, final) = {i}
  BY <1>2, FinalsDisjoint
<1> QED
  BY <1>2, <1>3

(* What is finalized is reserved. *)
LEMMA FinalizedIsHeld ==
    ASSUME NEW t, TableInv(t), NEW i \in DOMAIN t, NEW local \in Int,
           HoldsFinalizedLocal(t[i], local)
    PROVE  HoldsLocal(t[i], local)
<1>1. t[i].count <= t[i].capacity /\ t \in Seq(Cluster)
  BY DEF TableInv, LocalsTile
<1>2. t[i].count \in Int /\ t[i].capacity \in Int /\ t[i].baseLocal \in Int
  BY <1>1, TableTypes
<1> QED
  BY <1>1, <1>2 DEF HoldsLocal, HoldsFinalizedLocal, MaxLocal, MaxAllocatedLocal

(* An issued ID is one of the two forms that its cluster, if any, allows. *)
LEMMA IssuedInCluster ==
    ASSUME NEW c, CompressorInv(c), NEW g \in 1..c.generatedIdCount, NEW id, Issued(c, g, id),
           NEW i \in Chain(c.clusters, c.sessionId), HoldsLocal(c.clusters[i], -g)
    PROVE  id = IF -g \in c.normalizer THEN -g ELSE AllocatedFinal(c.clusters[i], -g)
<1>1. CASE -g \in c.normalizer
  BY <1>1 DEF Issued
<1>2. CASE -g \notin c.normalizer
  <2>1. PICK j \in Chain(c.clusters, c.sessionId) :
           HoldsLocal(c.clusters[j], -g) /\ id = AllocatedFinal(c.clusters[j], -g)
    BY <1>2 DEF Issued
  <2>2. j = i
    BY <2>1, CompressorFacts, GenCounts, LocalsDisjoint
  <2> QED
    BY <1>2, <2>1, <2>2
<1> QED
  BY <1>1, <1>2

(* It decompresses to its UUID. *)
LEMMA IssuedDecompresses ==
    ASSUME NEW c, CompressorInv(c), NEW g \in 1..c.generatedIdCount, NEW id, Issued(c, g, id)
    PROVE  Decompress(c, id) = {c.sessionId + g - 1}
<1> DEFINE t == c.clusters
<1>1. TableInv(t)
  BY CompressorFacts
<1>2. CASE -g \in c.normalizer
  BY <1>2, GenCounts DEF Issued, Decompress
<1>3. CASE -g \notin c.normalizer
  <2>1. PICK i \in Chain(t, c.sessionId) :
           HoldsLocal(t[i], -g) /\ id = AllocatedFinal(t[i], -g)
    BY <1>3 DEF Issued
  <2>2. /\ i \in DOMAIN t /\ t[i].session = c.sessionId
        /\ ~(id < 0) /\ Search(t, id) = {i} /\ AlignedLocal(t[i], id) = -g
    BY <1>1, <2>1, FinalOfLocal, GenCounts DEF Chain
  <2>3. MayDecompress(c, t[i], -g)
    BY <1>3, <2>2, GenCounts DEF MayDecompress
  <2>4. {j \in Search(t, id) : MayDecompress(c, t[j], AlignedLocal(t[j], id))} = {i}
    BY <2>2, <2>3
  <2>5. Decompress(c, id) = {StableOf(t[j].session, AlignedLocal(t[j], id)) : j \in {i}}
    BY <2>2, <2>4 DEF Decompress
  <2> QED
    BY <2>2, <2>5, GenCounts
<1> QED
  BY <1>2, <1>3

(* Its UUID compresses into it, if no other known session is as near. *)
LEMMA IssuedRecompresses ==
    ASSUME NEW c, CompressorInv(c), NEW g \in 1..c.generatedIdCount, NEW id, Issued(c, g, id),
           NEW uuid, uuid = StableOf(c.sessionId, -g), Nearest(Known(c), uuid) = {c.sessionId}
    PROVE  Recompress(c, uuid) = {id}
<1> DEFINE t == c.clusters
           s == c.sessionId
           found == ContainingClusters(Known(c), t, uuid)
<1>1. TableInv(t) /\ s \in Sessions /\ s \in Int
  BY CompressorFacts
<1>2. /\ g >= 1 /\ -g \in Int /\ g \in Int /\ GenCount(-g) <= c.generatedIdCount
      /\ uuid = s + g - 1
      /\ OriginatorLocal(s, uuid) = -g /\ -(uuid - s + 1) = -g
  <2>1. g >= 1 /\ -g \in Int /\ g \in Int /\ GenCount(-g) <= c.generatedIdCount /\ uuid = s + g - 1
    BY GenCounts
  <2> QED
    BY <1>1, <2>1 DEF OriginatorLocal
<1>3. CASE \E i \in Chain(t, s) : HoldsLocal(t[i], -g)
  <2>1. PICK i \in Chain(t, s) : HoldsLocal(t[i], -g)
    BY <1>3
  <2>2. found = {i} /\ t[i].session = s
    BY <1>1, <1>2, <2>1, FoundCluster DEF Chain
  <2>3. id = IF -g \in c.normalizer THEN -g ELSE AllocatedFinal(t[i], -g)
    BY <2>1, IssuedInCluster
  <2>4. RecompressIn(c, t[i], -g) = {id}
    BY <1>2, <2>2, <2>3 DEF RecompressIn
  <2>5. Recompress(c, uuid)
          = UNION {RecompressIn(c, t[j], OriginatorLocal(t[j].session, uuid)) : j \in {i}}
    BY <2>2 DEF Recompress
  <2>6. RecompressIn(c, t[i], OriginatorLocal(t[i].session, uuid)) = {id}
    BY <1>2, <2>2, <2>4
  <2> QED
    BY <2>5, <2>6
<1>4. CASE \A i \in Chain(t, s) : ~HoldsLocal(t[i], -g)
  <2>1. found = {}
    BY <1>1, <1>2, <1>4, FoundNothing
  <2>2. -g \in c.normalizer /\ id = -g
    BY <1>4 DEF Issued
  <2>3. uuid >= s
    BY <1>1, <1>2
  <2>4. Recompress(c, uuid) = RecompressUnclustered(c, uuid)
    BY <2>1 DEF Recompress
  <2>5. RecompressUnclustered(c, uuid) = {-g}
    BY <1>2, <2>2, <2>3 DEF RecompressUnclustered
  <2> QED
    BY <2>2, <2>4, <2>5
<1> QED
  BY <1>3, <1>4

(* Its final form, whoever sends it, comes back as the ID that was issued. *)
LEMMA OwnFinalNormalizes ==
    ASSUME NEW c, CompressorInv(c), NEW g \in 1..c.generatedIdCount, NEW id, Issued(c, g, id),
           NEW i \in Chain(c.clusters, c.sessionId), HoldsLocal(c.clusters[i], -g),
           NEW final, final = AllocatedFinal(c.clusters[i], -g)
    PROVE  NormalizeFinal(c, final) = {id}
<1> DEFINE t == c.clusters
           Own(local) == IF local \in c.normalizer THEN {local}
                         ELSE IF GenCount(local) <= c.generatedIdCount THEN {final}
                         ELSE {}
<1>1. /\ i \in DOMAIN t /\ t[i].session = c.sessionId
      /\ Search(t, final) = {i} /\ AlignedLocal(t[i], final) = -g
  <2>1. TableInv(t) /\ -g \in Int /\ i \in DOMAIN t /\ t[i].session = c.sessionId
    BY CompressorFacts, GenCounts DEF Chain
  <2> QED
    BY <2>1, FinalOfLocal
<1>2. Own(-g) = {id}
  BY GenCounts, IssuedInCluster
<1>3. Search(t, final) \cap Chain(t, c.sessionId) = {i}
  BY <1>1
<1>4. NormalizeFinal(c, final) = UNION {Own(AlignedLocal(t[j], final)) : j \in {i}}
  BY <1>3 DEF NormalizeFinal
<1>5. {Own(AlignedLocal(t[j], final)) : j \in {i}} = {Own(-g)}
  <2> HIDE DEF Own
  <2> QED
    BY <1>1
<1> QED
  BY <1>2, <1>4, <1>5

(* So does its local form, from its own session. *)
LEMMA OwnLocalNormalizes ==
    ASSUME NEW c, CompressorInv(c), NEW g \in 1..c.generatedIdCount, NEW id, Issued(c, g, id)
    PROVE  NormalizeToSessionSpace(c, -g, c.sessionId) = {id}
<1>1. NormalizeToSessionSpace(c, -g, c.sessionId) = NormalizeOwnLocal(c, -g)
  BY CompressorFacts, GenCounts DEF NormalizeToSessionSpace
<1>2. CASE -g \in c.normalizer
  BY <1>1, <1>2 DEF NormalizeOwnLocal, Issued
<1>3. CASE -g \notin c.normalizer
  <2>1. PICK i \in Chain(c.clusters, c.sessionId) :
           HoldsLocal(c.clusters[i], -g) /\ id = AllocatedFinal(c.clusters[i], -g)
    BY <1>3 DEF Issued
  <2>2. TryConvertToAllocated(c.clusters, c.sessionId, -g) = {id}
    BY <2>1, CompressorFacts, GenCounts, AllocatedLocalConverts
  <2> QED
    BY <1>1, <1>3, <2>2, GenCounts DEF NormalizeOwnLocal
<1> QED
  BY <1>2, <1>3

(* Its op-space form is the final ID of its cluster or, before there is one,
   the local ID.                                                           *)
LEMMA IssuedInOpSpace ==
    ASSUME NEW c, CompressorInv(c), NEW g \in 1..c.generatedIdCount, NEW id, Issued(c, g, id)
    PROVE  \/ /\ \A i \in Chain(c.clusters, c.sessionId) : ~HoldsLocal(c.clusters[i], -g)
              /\ NormalizeToOpSpace(c, id) = {-g}
           \/ \E i \in Chain(c.clusters, c.sessionId) :
                 /\ HoldsLocal(c.clusters[i], -g)
                 /\ NormalizeToOpSpace(c, id) = {AllocatedFinal(c.clusters[i], -g)}
<1> DEFINE t == c.clusters
           final == TryConvertToAllocated(t, c.sessionId, -g)
<1>1. CASE \E i \in Chain(t, c.sessionId) : HoldsLocal(t[i], -g)
  <2>1. PICK i \in Chain(t, c.sessionId) : HoldsLocal(t[i], -g)
    BY <1>1
  <2>2. final = {AllocatedFinal(t[i], -g)} /\ AllocatedFinal(t[i], -g) \in Nat
    <3>1. TableInv(t) /\ g \in Int /\ -g \in Int /\ i \in DOMAIN t
      BY CompressorFacts, GenCounts DEF Chain
    <3>2. AllocatedFinal(t[i], -g) \in Nat
      BY <2>1, <3>1, FinalOfLocal
    <3> QED
      BY <2>1, <3>1, <3>2, AllocatedLocalConverts
  <2>3. id = IF -g \in c.normalizer THEN -g ELSE AllocatedFinal(t[i], -g)
    BY <2>1, IssuedInCluster
  <2>4. CASE -g \in c.normalizer
    <3>1. NormalizeToOpSpace(c, -g) = IF final = {} THEN {-g} ELSE final
      BY <2>4, GenCounts DEF NormalizeToOpSpace
    <3> QED
      BY <2>1, <2>2, <2>3, <2>4, <3>1
  <2>5. CASE -g \notin c.normalizer
    BY <2>1, <2>2, <2>3, <2>5 DEF NormalizeToOpSpace
  <2> QED
    BY <2>4, <2>5
<1>2. CASE \A i \in Chain(t, c.sessionId) : ~HoldsLocal(t[i], -g)
  <2>1. -g \in c.normalizer /\ id = -g
    BY <1>2 DEF Issued
  <2>2. final = {}
    BY <1>2 DEF TryConvertToAllocated
  <2>3. NormalizeToOpSpace(c, -g) = {-g}
    BY <2>1, <2>2, GenCounts DEF NormalizeToOpSpace
  <2> QED
    BY <1>2, <2>1, <2>3
<1> QED
  BY <1>1, <1>2

-----------------------------------------------------------------------------
(* The finalized IDs of any session. *)

(* They are below the final ID limit. *)
LEMMA FinalizedBelowLimit ==
    ASSUME NEW t, TableInv(t), NEW i \in DOMAIN t
    PROVE  t[i].baseFinal + t[i].count <= FinalLimit(t)
<1> DEFINE n == Len(t)
<1>1. t \in Seq(Cluster) /\ n \in DOMAIN t /\ t # <<>> /\ i \in Int /\ n \in Int /\ i <= n
  BY TableTypes DEF TableInv
<1>2. /\ t[i].baseFinal \in Int /\ t[i].count \in Int /\ t[i].capacity \in Int
      /\ t[n].baseFinal \in Int /\ t[n].count \in Int /\ t[n].count > 0
      /\ t[i].count <= t[i].capacity
  BY <1>1, TableTypes DEF TableInv, LocalsTile
<1>3. FinalLimit(t) = t[n].baseFinal + t[n].count
  BY <1>1 DEF FinalLimit
<1>4. CASE i = n
  BY <1>2, <1>3, <1>4
<1>5. CASE i # n
  <2>1. t[i].baseFinal + t[i].capacity <= t[n].baseFinal
    BY <1>1, <1>5 DEF TableInv, FinalsOrdered
  <2> QED
    BY <1>2, <1>3, <2>1
<1> QED
  BY <1>4, <1>5

(* Their local and final IDs are finalized together. *)
LEMMA FinalizedTogether ==
    ASSUME NEW t \in Seq(Cluster), NEW i \in DOMAIN t, NEW local \in Int
    PROVE  HoldsFinalizedLocal(t[i], local) <=>
              /\ t[i].baseFinal <= AllocatedFinal(t[i], local)
              /\ AllocatedFinal(t[i], local) < t[i].baseFinal + t[i].count
<1>1. PICK final, base, count \in Int :
         final = t[i].baseFinal /\ base = t[i].baseLocal /\ count = t[i].count
  <2>1. t[i].baseFinal \in Int /\ t[i].baseLocal \in Int /\ t[i].count \in Int
    BY TableTypes
  <2> QED
    BY <2>1
<1>2. HoldsFinalizedLocal(t[i], local) <=> base - (count - 1) <= local /\ local <= base
  BY <1>1 DEF HoldsFinalizedLocal, MaxLocal
<1>3. AllocatedFinal(t[i], local) = final + ((-local) - (-base))
  BY <1>1 DEF AllocatedFinal, GenCount
<1>4. /\ final <= final + ((-local) - (-base)) <=> local <= base
      /\ final + ((-local) - (-base)) < final + count <=> base - (count - 1) <= local
  OBVIOUS
<1> QED
  BY <1>1, <1>2, <1>3, <1>4

(* The own ones have all been issued. *)
LEMMA OwnFinalizedIsIssued ==
    ASSUME NEW c, CompressorInv(c), NEW i \in Chain(c.clusters, c.sessionId),
           NEW local \in LocalIds, HoldsFinalizedLocal(c.clusters[i], local)
    PROVE  \E g \in 1..c.generatedIdCount : local = -g
<1> DEFINE t == c.clusters
<1>1. TableInv(t) /\ c.sessionId \in Sessions /\ c.generatedIdCount \in Nat
  BY CompressorFacts
<1>2. /\ GenCount(MaxLocal(t[i])) \in Int
      /\ GenCount(MaxLocal(t[i])) < NextBase(t, c.sessionId)
  BY <1>1, FinalizedBelowNext
<1>3. NextBase(t, c.sessionId) <= c.generatedIdCount + 1 /\ NextBase(t, c.sessionId) \in Int
  BY <1>1, NextBaseType DEF CompressorInv
<1>4. MaxLocal(t[i]) \in Int
  <2>1. t[i].baseLocal \in Int /\ t[i].count \in Int
    BY <1>1, TableTypes DEF TableInv, Chain
  <2> QED
    BY <2>1 DEF MaxLocal
<1>5. local \in Int /\ local < 0 /\ MaxLocal(t[i]) <= local
  BY DEF LocalIds, HoldsFinalizedLocal
<1>6. -local <= GenCount(MaxLocal(t[i]))
  BY <1>4, <1>5 DEF GenCount
<1>7. -local \in 1..c.generatedIdCount
  <2>1. \A n, m, b, x \in Int : n <= m /\ m < b /\ b <= x + 1 => n <= x
    OBVIOUS
  <2>2. -local \in Int /\ -local >= 1
    BY <1>5
  <2>3. -local <= c.generatedIdCount
    BY <1>1, <1>2, <1>3, <1>6, <2>1, <2>2
  <2> QED
    BY <1>1, <2>2, <2>3
<1>8. local = -(-local)
  BY <1>5
<1> QED
  BY <1>7, <1>8

(* A finalized ID decompresses to its UUID. *)
LEMMA FinalizedDecompresses ==
    ASSUME NEW c, CompressorInv(c), NEW i \in DOMAIN c.clusters, NEW local \in Int,
           HoldsFinalizedLocal(c.clusters[i], local),
           NEW final, final = AllocatedFinal(c.clusters[i], local)
    PROVE  Decompress(c, final) = {StableOf(c.clusters[i].session, local)}
<1> DEFINE t == c.clusters
<1>1. TableInv(t) /\ t \in Seq(Cluster)
  BY CompressorFacts
<1>2. HoldsLocal(t[i], local)
  BY <1>1, FinalizedIsHeld
<1>3. ~(final < 0) /\ Search(t, final) = {i} /\ AlignedLocal(t[i], final) = local
  BY <1>1, <1>2, FinalOfLocal
<1>4. MayDecompress(c, t[i], local)
  <2>1. MaxLocal(t[i]) <= local /\ MaxLocal(t[i]) \in Int
    BY <1>1, TableTypes DEF HoldsFinalizedLocal, MaxLocal
  <2>2. local >= MaxLocal(t[i])
    BY <2>1
  <2> QED
    BY <2>2 DEF MayDecompress
<1>5. {j \in Search(t, final) : MayDecompress(c, t[j], AlignedLocal(t[j], final))} = {i}
  BY <1>3, <1>4
<1>6. Decompress(c, final) = {StableOf(t[j].session, AlignedLocal(t[j], final)) : j \in {i}}
  BY <1>3, <1>5 DEF Decompress
<1> QED
  BY <1>3, <1>6

(* A finalized ID of another session is the same in session space. *)
LEMMA RemoteFinalNormalizes ==
    ASSUME NEW c, CompressorInv(c), NEW i \in DOMAIN c.clusters, NEW local \in Int,
           HoldsFinalizedLocal(c.clusters[i], local), c.clusters[i].session # c.sessionId,
           NEW final, final = AllocatedFinal(c.clusters[i], local)
    PROVE  NormalizeFinal(c, final) = {final}
<1> DEFINE t == c.clusters
<1>1. TableInv(t) /\ t \in Seq(Cluster) /\ c.finalIdLimit = FinalLimit(t) /\ c \in Compressors
  BY CompressorFacts DEF CompressorInv
<1>2. HoldsLocal(t[i], local)
  BY <1>1, FinalizedIsHeld
<1>3. final \in Nat /\ Search(t, final) = {i}
  BY <1>1, <1>2, FinalOfLocal
<1>4. ~(final >= c.finalIdLimit)
  <2>1. final < t[i].baseFinal + t[i].count
    BY <1>1, FinalizedTogether
  <2>2. t[i].baseFinal + t[i].count <= c.finalIdLimit
    BY <1>1, FinalizedBelowLimit
  <2>3. c.finalIdLimit \in Int /\ t[i].baseFinal \in Int /\ t[i].count \in Int
    BY <1>1, CompressorTypes, TableTypes
  <2> QED
    BY <1>3, <2>1, <2>2, <2>3
<1>5. Search(t, final) \cap Chain(t, c.sessionId) = {}
  BY <1>3 DEF Chain
<1> QED
  BY <1>4, <1>5 DEF NormalizeFinal

(* Its UUID compresses into it, if no other known session is as near. *)
LEMMA RemoteRecompresses ==
    ASSUME NEW c, CompressorInv(c), NEW s \in Sessions, s # c.sessionId,
           NEW i \in Chain(c.clusters, s), NEW local \in Int,
           HoldsFinalizedLocal(c.clusters[i], local),
           NEW uuid, uuid = StableOf(s, local), Nearest(Known(c), uuid) = {s}
    PROVE  Recompress(c, uuid) = {AllocatedFinal(c.clusters[i], local)}
<1> DEFINE t == c.clusters
           final == AllocatedFinal(t[i], local)
<1>1. /\ TableInv(t) /\ t \in Seq(Cluster) /\ i \in DOMAIN t /\ t[i].session = s /\ s \in Int
  BY CompressorFacts, SessionsAssumption DEF Chain
<1>2. HoldsLocal(t[i], local)
  BY <1>1, FinalizedIsHeld
<1>3. ContainingClusters(Known(c), t, uuid) = {i} /\ OriginatorLocal(s, uuid) = local
  <2>1. OriginatorLocal(s, uuid) = local
    BY <1>1, UuidArithmetic
  <2>2. ContainingClusters(Known(c), t, uuid) = {i}
    BY <1>1, <1>2, FoundCluster
  <2> QED
    BY <2>1, <2>2
<1>4. GenCount(local) < GenCount(t[i].baseLocal) + t[i].count
  <2>1. t[i].baseLocal \in Int /\ t[i].count \in Int
    BY <1>1, TableTypes
  <2> QED
    BY <2>1 DEF GenCount, HoldsFinalizedLocal, MaxLocal
<1>5. RecompressIn(c, t[i], local) = {final}
  BY <1>1, <1>4 DEF RecompressIn
<1>6. Recompress(c, uuid)
        = UNION {RecompressIn(c, t[j], OriginatorLocal(t[j].session, uuid)) : j \in {i}}
  BY <1>3 DEF Recompress
<1>7. RecompressIn(c, t[i], OriginatorLocal(t[i].session, uuid)) = {final}
  BY <1>1, <1>3, <1>5
<1> QED
  BY <1>6, <1>7

(* A finalized ID has one session-space ID, with the same UUID both ways. *)
LEMMA FinalizedMeans ==
    ASSUME NEW c, CompressorInv(c), NEW s \in Sessions,
           NEW i \in Chain(c.clusters, s), NEW local \in LocalIds,
           HoldsFinalizedLocal(c.clusters[i], local),
           NEW uuid, uuid = StableOf(s, local), Nearest(Known(c), uuid) = {s},
           NEW final, final = AllocatedFinal(c.clusters[i], local)
    PROVE  \E n : /\ NormalizeFinal(c, final) = {n}
                  /\ NormalizeToSessionSpace(c, local, s) = {n}
                  /\ Decompress(c, n) = {uuid}
                  /\ Recompress(c, uuid) = {n}
<1>1. /\ TableInv(c.clusters)
      /\ i \in DOMAIN c.clusters /\ c.clusters[i].session = s
      /\ local \in Int /\ ~(local >= 0)
  BY CompressorFacts DEF Chain, LocalIds
<1>2. CASE s = c.sessionId
  <2>1. PICK g \in 1..c.generatedIdCount : local = -g
    BY <1>2, OwnFinalizedIsIssued
  <2>2. PICK id : Issued(c, g, id)
    BY HeldIsIssued DEF CompressorInv
  <2>3. i \in Chain(c.clusters, c.sessionId) /\ HoldsLocal(c.clusters[i], local)
    BY <1>1, <1>2, FinalizedIsHeld
  <2>4. NormalizeFinal(c, final) = {id}
    BY <2>1, <2>2, <2>3, OwnFinalNormalizes
  <2>5. NormalizeToSessionSpace(c, local, s) = {id}
    BY <1>2, <2>1, <2>2, OwnLocalNormalizes
  <2>6. uuid = StableOf(c.sessionId, -g) /\ Nearest(Known(c), uuid) = {c.sessionId}
    BY <1>2, <2>1
  <2>7. Decompress(c, id) = {uuid}
    BY <2>2, <2>6, IssuedDecompresses, GenCounts
  <2>8. Recompress(c, uuid) = {id}
    BY <2>2, <2>6, IssuedRecompresses
  <2> QED
    BY <2>4, <2>5, <2>7, <2>8
<1>3. CASE s # c.sessionId
  <2>1. NormalizeFinal(c, final) = {final}
    BY <1>1, <1>3, RemoteFinalNormalizes
  <2>2. NormalizeToSessionSpace(c, local, s) = {final}
    <3>1. s \in Known(c)
      BY <1>1 DEF CompressorInv
    <3>2. TryConvertToFinal(c.clusters, s, local) = {final}
      BY <1>1, FinalizedLocalConverts
    <3> QED
      BY <1>1, <1>3, <3>1, <3>2 DEF NormalizeToSessionSpace
  <2>3. Decompress(c, final) = {uuid}
    BY <1>1, FinalizedDecompresses
  <2>4. Recompress(c, uuid) = {final}
    BY <1>1, <1>3, RemoteRecompresses
  <2> QED
    BY <2>1, <2>2, <2>3, <2>4
<1> QED
  BY <1>2, <1>3
=============================================================================
