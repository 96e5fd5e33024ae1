--------------------------- MODULE DocumentProofs ---------------------------
(***************************************************************************)
(* The theorems about a shared document, for any number of clients, IDs    *)
(* and ops, given that session IDs are far apart.                          *)
(***************************************************************************)
EXTENDS Document, PersistenceProofs

-----------------------------------------------------------------------------
(* The history of the tables goes on where an op is appended. *)

IsReplay(r, ops) ==
    r = [i \in 0..Len(ops) |-> IF i = 0 THEN NoClusters ELSE AfterOp(r[i - 1], ops[i])]

LEMMA ReplayIsReplay ==
    ASSUME NEW ops, \E r : IsReplay(r, ops)
    PROVE  IsReplay(Replay(ops), ops)
<1> DEFINE chosen == CHOOSE r : IsReplay(r, ops)
<1>1. IsReplay(chosen, ops)
  OBVIOUS
<1>2. Replay(ops) = chosen
  BY DEF Replay, IsReplay
<1> QED BY <1>1, <1>2

LEMMA ReplayEmpty == IsReplay(Replay(<<>>), <<>>) /\ Replay(<<>>)[0] = NoClusters
<1> DEFINE r == [i \in 0..0 |-> NoClusters]
<1>1. Len(<<>>) = 0 /\ 0 \in 0..0 /\ \A i \in 0..0 : i = 0
  OBVIOUS
<1>2. r = [i \in 0..0 |-> IF i = 0 THEN NoClusters ELSE AfterOp(r[i - 1], <<>>[i])]
  BY <1>1
<1>3. IsReplay(r, <<>>)
  <2> HIDE DEF r
  <2> QED BY <1>1, <1>2 DEF IsReplay
<1>4. IsReplay(Replay(<<>>), <<>>)
  <2> HIDE DEF r
  <2> QED BY <1>3, ReplayIsReplay
<1> QED BY <1>1, <1>4 DEF IsReplay

LEMMA ReplayAppend ==
    ASSUME NEW X, NEW ops \in Seq(X), NEW op \in X, IsReplay(Replay(ops), ops)
    PROVE  LET longer == Append(ops, op)
               n == Len(ops)
           IN  /\ IsReplay(Replay(longer), longer)
               /\ \A i \in 0..n : Replay(longer)[i] = Replay(ops)[i]
               /\ Replay(longer)[n + 1] = AfterOp(Replay(ops)[n], op)
<1> DEFINE longer == Append(ops, op)
           n == Len(ops)
           old == Replay(ops)
           new == Replay(longer)
           r == [i \in 0..(n + 1) |-> IF i = n + 1 THEN AfterOp(old[n], op) ELSE old[i]]
<1>1. /\ n \in Nat /\ Len(longer) = n + 1
      /\ \A i \in 1..n : longer[i] = ops[i]
      /\ longer[n + 1] = op
  OBVIOUS
<1>2. \A i \in 0..n : old[i] = IF i = 0 THEN NoClusters ELSE AfterOp(old[i - 1], ops[i])
  BY DEF IsReplay
<1> HIDE DEF longer, n, old
<1>3. ASSUME NEW i \in 0..(n + 1)
      PROVE  r[i] = IF i = 0 THEN NoClusters ELSE AfterOp(r[i - 1], longer[i])
  <2>1. CASE i = n + 1
    <3>1. n \in 0..(n + 1) /\ n # n + 1 /\ i # 0 /\ i - 1 = n
      BY <1>1, <2>1
    <3>2. r[n] = old[n] /\ r[i] = AfterOp(old[n], op)
      BY <2>1, <3>1
    <3> QED BY <1>1, <2>1, <3>1, <3>2
  <2>2. CASE i # n + 1
    <3>1. i \in 0..n /\ (i # 0 => i \in 1..n /\ i - 1 \in 0..(n + 1) /\ i - 1 # n + 1)
      BY <1>1, <2>2
    <3>2. r[i] = old[i] /\ (i # 0 => r[i - 1] = old[i - 1])
      BY <2>2, <3>1
    <3> QED BY <1>1, <1>2, <3>1, <3>2
  <2> QED BY <2>1, <2>2
<1>4. IsReplay(r, longer)
  BY <1>1, <1>3 DEF IsReplay
<1>5. IsReplay(new, longer)
  <2> HIDE DEF r
  <2> QED BY <1>4, ReplayIsReplay DEF new
<1>6. \A i \in 0..(n + 1) : new[i] = IF i = 0 THEN NoClusters ELSE AfterOp(new[i - 1], longer[i])
  BY <1>1, <1>5 DEF IsReplay
<1> HIDE DEF new, r
<1> DEFINE S == {i \in Nat : i \in 0..(n + 1) => new[i] = r[i]}
<1>7. 0 \in S
  <2>1. 0 \in 0..(n + 1)
    BY <1>1
  <2> QED BY <1>3, <1>6, <2>1
<1>8. ASSUME NEW i \in S PROVE i + 1 \in S
  <2> SUFFICES ASSUME i + 1 \in 0..(n + 1) PROVE new[i + 1] = r[i + 1]
    OBVIOUS
  <2>1. i \in Nat /\ i \in 0..(n + 1) /\ i + 1 # 0 /\ (i + 1) - 1 = i
    BY <1>1
  <2>2. new[i] = r[i]
    BY <2>1
  <2> QED BY <1>3, <1>6, <2>1, <2>2
<1>9. \A i \in 0..(n + 1) : new[i] = r[i]
  <2>1. S \in SUBSET Nat /\ 0..(n + 1) \subseteq Nat
    BY <1>1
  <2>2. \A i \in Nat : i \in S
    <3> HIDE DEF S
    <3> QED BY <1>7, <1>8, <2>1, SetInduction
  <2> QED BY <2>1, <2>2
<1>10. /\ \A i \in 0..n : i \in 0..(n + 1) /\ r[i] = old[i]
       /\ n + 1 \in 0..(n + 1) /\ r[n + 1] = AfterOp(old[n], op)
  BY <1>1 DEF r
<1> QED BY <1>5, <1>9, <1>10 DEF longer, n, old, new

-----------------------------------------------------------------------------
(* Tables that grow. *)

LEMMA NextBaseGrows ==
    ASSUME NEW t, TableInv(t), NEW u, TableInv(u), Grows(t, u), NEW s \in Sessions
    PROVE  NextBase(t, s) <= NextBase(u, s)
<1>1. NextBase(u, s) \in Nat /\ NextBase(u, s) > 0
  BY NextBaseType
<1>2. CASE Chain(t, s) = {}
  BY <1>1, <1>2 DEF NextBase
<1>3. CASE Chain(t, s) # {}
  <2> DEFINE k == TailIndex(t, s)
  <2>1. /\ IsTail(t, s, k) /\ k \in DOMAIN t /\ t[k].session = s
        /\ t \in Seq(Cluster) /\ u \in Seq(Cluster)
    BY <1>3, TailIndexIsTail DEF TableInv
  <2> HIDE DEF k
  <2>2. NextBase(t, s) = t[k].count - t[k].baseLocal
    BY <2>1, NextBaseOfTail
  <2>3. k \in Chain(u, s) /\ u[k].baseLocal = t[k].baseLocal /\ t[k].count <= u[k].count
    <3>1. k \in DOMAIN u
      BY <2>1, GrowsHolds
    <3> QED BY <2>1, <3>1 DEF Chain, Grows
  <2>4. GenCount(MaxLocal(u[k])) < NextBase(u, s)
    BY <2>3, FinalizedBelowNext
  <2>5. /\ t[k].count \in Int /\ t[k].baseLocal \in Int /\ u[k].count \in Int
    BY <2>1, <2>3, TableTypes DEF Chain
  <2>6. GenCount(MaxLocal(u[k])) = (u[k].count - 1) - t[k].baseLocal
    BY <2>3, <2>5 DEF GenCount, MaxLocal
  <2> QED BY <1>1, <2>2, <2>3, <2>4, <2>5, <2>6
<1> QED BY <1>2, <1>3

(* The effect of an op on the tables. *)
Ops == RangeOps \cup CapacityOps

IsRange(op) == op.kind = "range"

Follows(tables, op) ==
    IsRange(op) => op.range.base = NextBase(tables.clusters, op.range.session)

LEMMA OpTypes ==
    ASSUME NEW op \in Ops
    PROVE  /\ IsRange(op) => /\ op.range \in Ranges
                             /\ op.range.session \in Sessions
                             /\ op.range.base \in Nat /\ op.range.base > 0
                             /\ op.range.len \in Nat
                             /\ op.ids \in Seq(Int)
                             /\ op.relayed \subseteq Nat
           /\ IsRange(op) <=> op.kind # "capacity"
           /\ ~IsRange(op) => op.capacity \in Positive
BY DEF Ops, RangeOps, CapacityOps, IsRange, Ranges, Positive

LEMMA AfterOpEffect ==
    ASSUME NEW tables, TableInv(tables.clusters), tables.clusterCapacity \in Positive,
           NEW op \in Ops, Follows(tables, op)
    PROVE  LET t == tables.clusters
               u == AfterOp(tables, op).clusters
           IN  /\ TableInv(u)
               /\ Grows(t, u)
               /\ \A s \in Sessions :
                     NextBase(u, s) = IF IsRange(op) /\ s = op.range.session
                                      THEN op.range.base + op.range.len ELSE NextBase(t, s)
               /\ \A k \in DOMAIN u : \/ Slack(u[k]) <= tables.clusterCapacity
                                      \/ k \in DOMAIN t /\ Slack(u[k]) <= Slack(t[k])
               /\ AfterOp(tables, op).clusterCapacity
                     = IF IsRange(op) THEN tables.clusterCapacity ELSE op.capacity
<1> DEFINE t == tables.clusters
           capacity == tables.clusterCapacity
           u == AfterOp(tables, op).clusters
<1>1. AfterOp(tables, op).clusterCapacity = IF IsRange(op) THEN capacity ELSE op.capacity
  BY OpTypes DEF AfterOp
<1>2. CASE IsRange(op) /\ op.range.len # 0
  <2>1. u = Claim(t, op.range, capacity)
    BY <1>2 DEF AfterOp, IsRange
  <2>2. Acceptable(t, op.range, capacity)
    BY <1>2, OpTypes, InOrderMeans DEF Acceptable, Follows
  <2>3. ClaimEffect(t, u, op.range, capacity)
    BY <2>1, <2>2, ClaimIsCorrect
  <2> HIDE DEF u, t, capacity
  <2> QED BY <1>1, <1>2, <2>3 DEF ClaimEffect, u, t, capacity
<1>3. CASE ~(IsRange(op) /\ op.range.len # 0)
  <2>1. u = t
    BY <1>3 DEF AfterOp, IsRange
  <2>2. Grows(t, t)
    BY GrowsReflexive DEF TableInv
  <2>3. \A k \in DOMAIN t : Slack(t[k]) <= Slack(t[k])
    <3>1. \A k \in DOMAIN t : Slack(t[k]) \in Int
      BY TableTypes DEF TableInv, Slack
    <3> QED BY <3>1
  <2>4. \A s \in Sessions : IsRange(op) /\ s = op.range.session
                               => NextBase(t, s) = op.range.base + op.range.len
    BY <1>3, OpTypes DEF Follows
  <2> HIDE DEF u, t, capacity
  <2> QED BY <1>1, <2>1, <2>2, <2>3, <2>4 DEF u, t, capacity
<1> QED BY <1>2, <1>3

-----------------------------------------------------------------------------
(* No range collides with the IDs of another session. *)

(* What the tables of a document reserve for each session. *)
Bounded(t) ==
    /\ TableInv(t)
    /\ \A k \in DOMAIN t : \E capacity \in AllCapacities : Slack(t[k]) <= capacity
    /\ \A s \in Sessions : NextBase(t, s) <= MaxGenerated + 1

LEMMA CapacityTypes ==
    /\ AllCapacities \subseteq Positive
    /\ \A capacity \in AllCapacities : capacity \in Nat /\ capacity > 0
    /\ MaxGenerated \in Nat
    /\ Sessions \subseteq Int
    /\ Clients = Sessions
    /\ Founders \subseteq Clients
BY DocumentAssumption, CapacityAssumption, SessionsAssumption DEF AllCapacities, Clients, Positive

(* A session reserves no more than a capacity beyond the IDs it may generate. *)
LEMMA ReservedBelow ==
    ASSUME NEW t, Bounded(t), NEW s \in Sessions
    PROVE  \E capacity \in AllCapacities : MaxAllocatedStable(t, s) <= s + MaxGenerated + capacity
<1>1. s \in Int /\ MaxGenerated \in Nat /\ DefaultClusterCapacity \in AllCapacities
      /\ \A capacity \in AllCapacities : capacity \in Nat /\ capacity > 0
  BY CapacityTypes DEF AllCapacities
<1>2. CASE Chain(t, s) = {}
  <2>1. s <= s + MaxGenerated + DefaultClusterCapacity
    BY <1>1
  <2> QED BY <1>1, <1>2, <2>1 DEF MaxAllocatedStable
<1>3. CASE Chain(t, s) # {}
  <2> DEFINE k == TailIndex(t, s)
             base == t[k].baseLocal
             count == t[k].count
             reserved == t[k].capacity
  <2>1. IsTail(t, s, k) /\ k \in DOMAIN t /\ t \in Seq(Cluster)
    BY <1>3, TailIndexIsTail DEF Bounded, TableInv
  <2>2. base \in Int /\ count \in Int /\ reserved \in Int
    BY <2>1, TableTypes
  <2>3. count - base <= MaxGenerated + 1
    <3> HIDE DEF k
    <3>1. NextBase(t, s) = t[k].count - t[k].baseLocal
      BY <2>1, NextBaseOfTail DEF Bounded
    <3> QED BY <3>1 DEF Bounded
  <2>4. PICK capacity \in AllCapacities : reserved - count <= capacity
    BY <2>1 DEF Bounded, Slack
  <2>5. MaxAllocatedStable(t, s) = s + -(base - (reserved - 1)) - 1
    BY <1>3 DEF MaxAllocatedStable, StableOf, GenCount, MaxAllocatedLocal, TailCluster
  <2> HIDE DEF k, base, count, reserved
  <2>6. s + -(base - (reserved - 1)) - 1 <= s + MaxGenerated + capacity
    BY <1>1, <2>2, <2>3, <2>4
  <2> QED BY <2>5, <2>6
<1> QED BY <1>2, <1>3

LEMMA NoCollision ==
    ASSUME SessionsFarApart, NEW c, CompressorInv(c), Bounded(c.clusters),
           c.clusterCapacity \in AllCapacities,
           NEW r \in Ranges, r.base + r.len <= MaxGenerated + 1
    PROVE  ~Collides(c, r)
<1> DEFINE t == c.clusters
           capacity == c.clusterCapacity
           rangeBase == StableOf(r.session, -r.base)
           rangeMax == rangeBase + r.len + capacity
<1>1. /\ r.session \in Sessions /\ r.session \in Int
      /\ r.base \in Int /\ r.base > 0 /\ r.len \in Int
      /\ capacity \in Int /\ MaxGenerated \in Int
      /\ Known(c) \subseteq Sessions /\ Sessions \subseteq Int
      /\ \A p \in AllCapacities : p \in Int /\ p > 0
  <2>1. r.session \in Sessions /\ r.base \in Int /\ r.base > 0 /\ r.len \in Int
    BY DEF Ranges, Positive
  <2>2. /\ MaxGenerated \in Int /\ Sessions \subseteq Int
        /\ \A p \in AllCapacities : p \in Int /\ p > 0
    BY CapacityTypes
  <2>3. Known(c) \subseteq Sessions
    BY CompressorFacts
  <2> QED BY <2>1, <2>2, <2>3
<1>2. rangeBase = r.session + r.base - 1
  BY <1>1 DEF StableOf, GenCount
<1>3. r.session <= rangeBase /\ rangeMax <= r.session + MaxGenerated + capacity
      /\ rangeBase \in Int /\ rangeMax \in Int
  <2> HIDE DEF rangeBase, capacity
  <2> QED BY <1>1, <1>2
<1>4. ASSUME NEW s \in Nearest(Known(c), rangeMax), s # r.session
      PROVE  ~(rangeBase <= MaxAllocatedStable(t, s))
  <2> HIDE DEF rangeBase, rangeMax, t
  <2>1. s \in Sessions /\ s \in Int /\ s <= rangeMax
    BY <1>1 DEF Nearest
  <2>2. CASE s < r.session
    <3>1. PICK p \in AllCapacities : MaxAllocatedStable(t, s) <= s + MaxGenerated + p
      BY <2>1, ReservedBelow DEF t
    <3>2. s + MaxGenerated + p < r.session
      BY <1>1, <2>1, <2>2 DEF SessionsFarApart
    <3>3. MaxAllocatedStable(t, s) \in Int
      <4>1. CASE Chain(t, s) = {}
        BY <2>1, <4>1 DEF MaxAllocatedStable
      <4>2. CASE Chain(t, s) # {}
        <5>1. TailIndex(t, s) \in Chain(t, s)
          BY <2>1, <4>2, TailIndexIsTail DEF Bounded, IsTail, t
        <5>2. MaxAllocatedLocal(TailCluster(t, s)) \in Int
          BY <2>1, <5>1, TailReachesFarthest DEF Bounded, t
        <5> QED BY <2>1, <4>2, <5>2 DEF MaxAllocatedStable, StableOf, GenCount
      <4> QED BY <4>1, <4>2
    <3> DEFINE max == MaxAllocatedStable(t, s)
    <3> HIDE DEF max
    <3> QED BY <1>1, <1>3, <2>1, <3>1, <3>2, <3>3 DEF max
  <2>3. CASE r.session < s
    <3>1. r.session + MaxGenerated + capacity < s
      BY <1>1, <2>1, <2>3 DEF SessionsFarApart
    <3> HIDE DEF capacity
    <3> QED BY <1>1, <1>3, <2>1, <3>1
  <2> QED BY <1>1, <1>4, <2>1, <2>2, <2>3
<1> QED BY <1>4 DEF Collides, RangeCollides

(* Whoever processes an op where the log has it comes to the tables that the
   history has next.                                                       *)
LEMMA ProcessEffect ==
    ASSUME SessionsFarApart, NEW c, CompressorInv(c), Bounded(c.clusters),
           NEW tables, tables.clusters = c.clusters, tables.clusterCapacity = c.clusterCapacity,
           c.clusterCapacity \in AllCapacities,
           NEW op \in Ops, Follows(tables, op),
           IsRange(op) => op.range.base + op.range.len <= MaxGenerated + 1,
           IsRange(op) /\ op.range.session = c.sessionId
              => op.range.base + op.range.len <= c.generatedIdCount + 1,
           NEW d, d = Process(c, op)
    PROVE  /\ IsRange(op) /\ op.range.len # 0 => FinalizeResult(c, op.range) = "Ok"
           /\ CompressorInv(d)
           /\ Extends(c, d)
           /\ d.sessionId = c.sessionId
           /\ d.generatedIdCount = c.generatedIdCount
           /\ d.nextRangeBase = c.nextRangeBase
           /\ d.normalizer = c.normalizer
           /\ d.clusters = AfterOp(tables, op).clusters
           /\ d.clusterCapacity = AfterOp(tables, op).clusterCapacity
<1>1. CASE ~IsRange(op)
  <2>1. d = SetClusterCapacity(c, op.capacity) /\ op.capacity \in Positive
    BY <1>1, OpTypes DEF Process
  <2>2. /\ AfterOp(tables, op).clusters = c.clusters
        /\ AfterOp(tables, op).clusterCapacity = op.capacity
    BY <1>1, OpTypes DEF AfterOp, IsRange
  <2> QED BY <1>1, <2>1, <2>2, SetCapacityEffect
<1>2. CASE IsRange(op) /\ op.range.len = 0
  <2>1. d = c
    BY <1>2 DEF Process, IsRange
  <2>2. AfterOp(tables, op).clusters = c.clusters
        /\ AfterOp(tables, op).clusterCapacity = c.clusterCapacity
    BY <1>2 DEF AfterOp, IsRange
  <2>3. Extends(c, c)
    BY CompressorFacts, GrowsReflexive DEF Extends
  <2> QED BY <1>2, <2>1, <2>2, <2>3
<1>3. CASE IsRange(op) /\ op.range.len # 0
  <2> DEFINE r == op.range
  <2>1. d = FinalizeRange(c, r) /\ r \in Ranges
    BY <1>3, OpTypes DEF Process, IsRange
  <2>2. FinalizeResult(c, r) = "Ok"
    <3>1. ~Collides(c, r)
      BY <1>3, <2>1, NoCollision
    <3>2. IsInOrder(c.clusters, r)
      BY <1>3, <2>1, CompressorFacts, InOrderMeans DEF Follows
    <3> QED BY <1>3, <3>1, <3>2 DEF FinalizeResult
  <2>3. AfterOp(tables, op).clusters = Claim(c.clusters, r, c.clusterCapacity)
        /\ AfterOp(tables, op).clusterCapacity = c.clusterCapacity
    BY <1>3 DEF AfterOp, IsRange
  <2>4. r.session = c.sessionId => r.base + r.len <= c.generatedIdCount + 1
    BY <1>3
  <2> HIDE DEF r
  <2>5. /\ CompressorInv(d) /\ Extends(c, d) /\ d.sessionId = c.sessionId
        /\ d.generatedIdCount = c.generatedIdCount /\ d.nextRangeBase = c.nextRangeBase
        /\ d.clusterCapacity = c.clusterCapacity /\ d.normalizer = c.normalizer
        /\ d.clusters = Claim(c.clusters, r, c.clusterCapacity)
    BY <2>1, <2>2, <2>4, FinalizeEffect
  <2> QED BY <2>2, <2>3, <2>5 DEF r
<1> QED BY <1>1, <1>2, <1>3

-----------------------------------------------------------------------------
(* The inductive invariant, and that the history is the one of the log. *)

IndInv == DocInv /\ IsReplay(Replay(log), log)

LEMMA DocFacts ==
    ASSUME DocInv
    PROVE  /\ log \in Seq(Ops) /\ Len(log) \in Nat
           /\ DOMAIN log = 1..Len(log)
           /\ \A i \in 1..Len(log) : log[i] \in Ops
           /\ joined \subseteq Clients
           /\ compressors \in [Clients -> Compressors]
           /\ progress \in [Clients -> 0..Len(log)]
           /\ \A c \in Clients : /\ progress[c] \in 0..Len(log) /\ progress[c] \in Nat
                                 /\ CompressorInv(compressors[c])
                                 /\ compressors[c].sessionId = c
BY DEF DocInv, TypeOK, Ops, ClientsInv

LEMMA HistoryTypes ==
    ASSUME DocInv, NEW i \in 0..Len(log)
    PROVE  /\ TableInv(Replayed(i).clusters)
           /\ Replayed(i).clusters \in Seq(Cluster)
           /\ Replayed(i).clusterCapacity \in AllCapacities
           /\ Replayed(i).clusterCapacity \in Positive
           /\ \A j \in i..Len(log) : /\ j \in 0..Len(log)
                                     /\ Grows(Replayed(i).clusters, Replayed(j).clusters)
<1>1. TableInv(Replayed(i).clusters) /\ Replayed(i).clusterCapacity \in AllCapacities
  BY DEF DocInv, HistoryInv
<1>2. Len(log) \in Nat
  BY DocFacts
<1>3. \A j \in i..Len(log) : j \in 0..Len(log) /\ i <= j
  BY <1>2
<1>4. \A j \in i..Len(log) : Grows(Replayed(i).clusters, Replayed(j).clusters)
  BY <1>3 DEF DocInv, HistoryInv
<1> QED BY <1>1, <1>3, <1>4, CapacityTypes DEF TableInv

(* No session has more in the log than it has taken, or generated. *)
LEMMA HistoryBounded ==
    ASSUME DocInv, NEW i \in 0..Len(log)
    PROVE  /\ Bounded(Replayed(i).clusters)
           /\ \A c \in Clients :
                 /\ NextBase(Replayed(i).clusters, c) <= compressors[c].nextRangeBase
                 /\ NextBase(Replayed(i).clusters, c) <= compressors[c].generatedIdCount + 1
                 /\ NextBase(Replayed(i).clusters, c) <= MaxGenerated + 1
<1> DEFINE t == Replayed(i).clusters
           u == Replayed(Len(log)).clusters
<1>1. Len(log) \in Nat /\ Len(log) \in 0..Len(log) /\ Len(log) \in i..Len(log)
  BY DocFacts
<1>2. TableInv(t) /\ TableInv(u) /\ Grows(t, u)
  BY <1>1, HistoryTypes
<1>3. ASSUME NEW c \in Clients
      PROVE  /\ NextBase(t, c) <= compressors[c].nextRangeBase
             /\ NextBase(t, c) <= compressors[c].generatedIdCount + 1
             /\ NextBase(t, c) <= MaxGenerated + 1
  <2> DEFINE b == NextBase(t, c)
             n == compressors[c].nextRangeBase
             g == compressors[c].generatedIdCount
  <2>1. c \in Sessions /\ MaxGenerated \in Int
    BY CapacityTypes
  <2>2. NextBase(u, c) = n
    BY DEF DocInv, RangesInv
  <2>3. b \in Int /\ b <= n
    <3> HIDE DEF n, t, u
    <3> QED BY <1>2, <2>1, <2>2, NextBaseGrows, NextBaseType
  <2>4. n \in Int /\ g \in Int /\ n <= g + 1 /\ g <= MaxGenerated
    BY DocFacts, CompressorFacts DEF DocInv, ClientsInv, CompressorInv
  <2> HIDE DEF b, n, g
  <2>5. b <= n /\ b <= g + 1 /\ b <= MaxGenerated + 1
    BY <2>1, <2>3, <2>4
  <2> QED BY <2>5 DEF b, n, g
<1>4. \A k \in DOMAIN t : \E capacity \in AllCapacities : Slack(t[k]) <= capacity
  BY DEF DocInv, HistoryInv, Slack
<1> HIDE DEF t, u
<1>5. Bounded(t)
  BY <1>2, <1>3, <1>4, CapacityTypes DEF Bounded
<1> QED BY <1>3, <1>5 DEF t

(* The state that a compressor has come to is a point of the history. *)
LEMMA ClientFacts ==
    ASSUME DocInv, NEW c \in Clients
    PROVE  /\ c \in Sessions
           /\ CompressorInv(compressors[c])
           /\ compressors[c].sessionId = c
           /\ compressors[c].generatedIdCount \in Nat
           /\ compressors[c].generatedIdCount <= MaxGenerated
           /\ compressors[c].clusters = Replayed(progress[c]).clusters
           /\ compressors[c].clusterCapacity = Replayed(progress[c]).clusterCapacity
           /\ progress[c] \in 0..Len(log) /\ progress[c] \in Nat
           /\ Bounded(compressors[c].clusters)
           /\ compressors[c].clusterCapacity \in AllCapacities
BY DocFacts, CapacityTypes, HistoryBounded, HistoryTypes, CompressorFacts DEF DocInv, ClientsInv

(* What the invariant says of an op i of the log. *)
GoodIds(op, i) ==
    LET r == op.range
        t == Replayed(i - 1).clusters
    IN  /\ DOMAIN op.ids = 1..(r.base + r.len - 1)
        /\ \A g \in DOMAIN op.ids :
              \/ op.ids[g] = -g
              \/ \E k \in Chain(t, r.session) :
                    /\ HoldsLocal(t[k], -g)
                    /\ op.ids[g] = AllocatedFinal(t[k], -g)
        /\ \E j \in 0..(i - 1) :
              /\ j <= progress[r.session]
              /\ \A final \in op.relayed : HasFinalized(Replayed(j).clusters, final)

LEMMA LogTheSame ==
    ASSUME IndInv, log' = log, joined \subseteq joined',
           \A c \in Clients : /\ progress[c] <= progress'[c] /\ progress'[c] \in Nat
                              /\ compressors'[c].nextRangeBase = compressors[c].nextRangeBase
    PROVE  IsReplay(Replay(log), log)' /\ HistoryInv' /\ RangesInv' /\ IdsInv'
<1>1. \A i : Replayed(i)' = Replayed(i)
  BY DEF Replayed
<1>2. Len(log) \in Nat /\ \A i \in 1..Len(log) : log[i] \in Ops /\ (IsRangeOp(i) <=> IsRange(log[i]))
  BY DocFacts DEF IndInv, IsRangeOp, IsRange
<1>3. HistoryInv'
  BY <1>1 DEF IndInv, DocInv, HistoryInv
<1>4. RangesInv'
  <2>1. RangesInv
    BY DEF IndInv, DocInv
  <2> QED BY <1>1, <2>1 DEF RangesInv, IsRangeOp
<1>5. IdsInv'
  <2>1. ASSUME NEW i \in 1..Len(log), IsRangeOp(i) PROVE GoodIds(log[i], i)'
    <3>1. GoodIds(log[i], i)
      BY <2>1 DEF IndInv, DocInv, IdsInv, GoodIds
    <3>2. log[i].range.session \in Clients
      BY <1>2, <2>1, OpTypes, CapacityTypes
    <3>3. PICK j \in 0..(i - 1) : /\ j <= progress[log[i].range.session]
                                  /\ \A final \in log[i].relayed : HasFinalized(Replayed(j).clusters, final)
      BY <3>1 DEF GoodIds
    <3>4. j <= progress'[log[i].range.session]
      BY <3>2, <3>3, DocFacts DEF IndInv
    <3> QED BY <1>1, <3>1, <3>3, <3>4 DEF GoodIds
  <2> QED BY <2>1 DEF IdsInv, GoodIds, IsRangeOp
<1> QED BY <1>3, <1>4, <1>5 DEF IndInv

LEMMA LogLonger ==
    ASSUME IndInv, NEW op \in Ops, log' = Append(log, op), UNCHANGED <<joined, progress>>,
           Follows(Replayed(Len(log)), op),
           ~IsRange(op) => op.capacity \in AllCapacities,
           IsRange(op) => op.range.session \in joined /\ GoodIds(op, Len(log) + 1),
           \A c \in Clients : compressors'[c].nextRangeBase =
                                 IF IsRange(op) /\ c = op.range.session
                                 THEN op.range.base + op.range.len
                                 ELSE compressors[c].nextRangeBase
    PROVE  /\ IsReplay(Replay(log), log)' /\ HistoryInv' /\ RangesInv' /\ IdsInv'
           /\ log' \in Seq(Ops) /\ Len(log') = Len(log) + 1
           /\ \A i \in 0..Len(log) : Replayed(i)' = Replayed(i)
<1>0. PICK n \in Nat : n = Len(log)
  BY DocFacts DEF IndInv
<1> DEFINE tables == Replayed(n)
           next == AfterOp(tables, op)
<1>1. /\ DocInv /\ log \in Seq(Ops) /\ n \in Nat /\ n = Len(log)
      /\ \A i \in 1..n : log[i] \in Ops
      /\ joined' = joined /\ progress' = progress
  BY <1>0, DocFacts DEF IndInv
<1>2. /\ log' \in Seq(Ops) /\ Len(log') = n + 1
      /\ \A i \in 1..n : log'[i] = log[i]
      /\ log'[n + 1] = op
  BY <1>1
<1>3. /\ IsReplay(Replay(log'), log')
      /\ \A i \in 0..n : Replay(log')[i] = Replay(log)[i]
      /\ Replay(log')[n + 1] = AfterOp(Replay(log)[n], op)
  BY <1>1, ReplayAppend DEF IndInv
<1>4. /\ \A i \in 0..n : Replayed(i)' = Replayed(i)
      /\ Replayed(n + 1)' = next
  BY <1>3 DEF Replayed
<1>5. /\ n \in 0..n /\ TableInv(tables.clusters) /\ tables.clusters \in Seq(Cluster)
      /\ tables.clusterCapacity \in AllCapacities /\ tables.clusterCapacity \in Positive
  BY <1>1, HistoryTypes
<1>6. /\ TableInv(next.clusters) /\ next.clusters \in Seq(Cluster)
      /\ Grows(tables.clusters, next.clusters)
      /\ \A s \in Sessions :
            NextBase(next.clusters, s) = IF IsRange(op) /\ s = op.range.session
                                         THEN op.range.base + op.range.len
                                         ELSE NextBase(tables.clusters, s)
      /\ \A k \in DOMAIN next.clusters :
            \/ Slack(next.clusters[k]) <= tables.clusterCapacity
            \/ k \in DOMAIN tables.clusters
                  /\ Slack(next.clusters[k]) <= Slack(tables.clusters[k])
      /\ next.clusterCapacity = IF IsRange(op) THEN tables.clusterCapacity ELSE op.capacity
  <2> HIDE DEF tables
  <2>1. Follows(tables, op)
    BY <1>1 DEF tables
  <2>2. TableInv(next.clusters) => next.clusters \in Seq(Cluster)
    BY DEF TableInv
  <2> QED BY <1>5, <2>1, <2>2, AfterOpEffect
<1>7. \A i \in 0..(n + 1) : i \in 0..n \/ i = n + 1
  BY <1>1
<1> HIDE DEF next, tables
<1>8. next.clusterCapacity \in AllCapacities
  BY <1>5, <1>6
<1>9. ASSUME NEW k \in DOMAIN next.clusters
      PROVE  \E capacity \in AllCapacities :
                next.clusters[k].capacity - next.clusters[k].count <= capacity
  <2>1. CASE Slack(next.clusters[k]) <= tables.clusterCapacity
    BY <1>5, <2>1 DEF Slack
  <2>2. CASE /\ k \in DOMAIN tables.clusters
             /\ Slack(next.clusters[k]) <= Slack(tables.clusters[k])
    <3>1. PICK capacity \in AllCapacities : Slack(tables.clusters[k]) <= capacity
      BY <1>1, <1>5, <2>2 DEF DocInv, HistoryInv, tables, Slack
    <3>2. /\ Slack(tables.clusters[k]) \in Int /\ Slack(next.clusters[k]) \in Int
          /\ capacity \in Int
      <4>1. capacity \in Int
        BY CapacityTypes
      <4>2. Slack(tables.clusters[k]) \in Int
        BY <1>5, <2>2, TableTypes DEF Slack
      <4>3. Slack(next.clusters[k]) \in Int
        BY <1>6, TableTypes DEF Slack
      <4> QED BY <4>1, <4>2, <4>3
    <3>3. Slack(next.clusters[k]) <= capacity
      BY <2>2, <3>1, <3>2
    <3> QED BY <3>3 DEF Slack
  <2> QED BY <1>6, <2>1, <2>2
<1>10. HistoryInv'
  <2>1. ASSUME NEW i \in 0..(n + 1)
        PROVE  /\ TableInv(Replayed(i)'.clusters)
               /\ Replayed(i)'.clusterCapacity \in AllCapacities
               /\ \A k \in DOMAIN Replayed(i)'.clusters : \E capacity \in AllCapacities :
                     Replayed(i)'.clusters[k].capacity - Replayed(i)'.clusters[k].count <= capacity
    <3>1. CASE i = n + 1
      BY <1>4, <1>6, <1>8, <1>9, <3>1
    <3>2. CASE i \in 0..n
      BY <1>1, <1>4, <3>2 DEF DocInv, HistoryInv
    <3> QED BY <1>7, <3>1, <3>2
  <2>2. ASSUME NEW i \in 0..(n + 1), NEW j \in 0..(n + 1), i <= j
        PROVE  Grows(Replayed(i)'.clusters, Replayed(j)'.clusters)
    <3>1. CASE j \in 0..n
      <4>1. i \in 0..n
        BY <1>1, <2>2, <3>1
      <4> QED BY <1>1, <1>4, <2>2, <3>1, <4>1 DEF DocInv, HistoryInv
    <3>2. CASE j = n + 1 /\ i = n + 1
      BY <1>4, <1>6, <3>2, GrowsReflexive
    <3>3. CASE j = n + 1 /\ i \in 0..n
      <4>1. /\ Replayed(i).clusters \in Seq(Cluster)
            /\ Grows(Replayed(i).clusters, tables.clusters)
        <5>1. n \in i..n
          BY <1>1, <3>3
        <5>2. /\ Replayed(i).clusters \in Seq(Cluster)
              /\ \A j2 \in i..n : Grows(Replayed(i).clusters, Replayed(j2).clusters)
          BY <1>1, <3>3, HistoryTypes
        <5> QED BY <5>1, <5>2 DEF tables
      <4>2. Grows(Replayed(i).clusters, next.clusters)
        BY <1>5, <1>6, <4>1, GrowsTransitive
      <4> QED BY <1>4, <3>3, <4>2
    <3> QED BY <1>7, <3>1, <3>2, <3>3
  <2> QED BY <1>2, <2>1, <2>2 DEF HistoryInv
<1>11. RangesInv'
  <2>1. ASSUME NEW c \in Clients
        PROVE  NextBase(Replayed(n + 1)'.clusters, c) = compressors'[c].nextRangeBase
    <3>1. c \in Sessions /\ NextBase(tables.clusters, c) = compressors[c].nextRangeBase
      BY <1>1, CapacityTypes DEF DocInv, RangesInv, tables
    <3> QED BY <1>4, <1>6, <3>1
  <2>2. ASSUME NEW i \in 1..(n + 1), IsRange(log'[i])
        PROVE  LET r == log'[i].range
               IN  /\ r.session \in joined'
                   /\ r.base = NextBase(Replayed(i - 1)'.clusters, r.session)
                   /\ r.base + r.len = NextBase(Replayed(i)'.clusters, r.session)
    <3>1. CASE i = n + 1
      <4>1. i - 1 = n /\ log'[i] = op /\ IsRange(op) /\ op.range.session \in Sessions
        BY <1>1, <1>2, <2>2, <3>1, OpTypes
      <4>2. /\ Replayed(i - 1)' = tables /\ Replayed(i)' = next
        BY <1>4, <1>5, <3>1, <4>1 DEF tables
      <4>3. op.range.base = NextBase(tables.clusters, op.range.session)
        BY <1>1, <4>1 DEF Follows, tables
      <4>4. op.range.base + op.range.len = NextBase(next.clusters, op.range.session)
        BY <1>6, <4>1
      <4> QED BY <1>1, <4>1, <4>2, <4>3, <4>4
    <3>2. CASE i # n + 1
      <4>1. i \in 1..n /\ i \in 0..n /\ i - 1 \in 0..n /\ log'[i] = log[i]
        BY <1>1, <1>2, <3>2
      <4> QED BY <1>1, <1>4, <2>2, <4>1 DEF DocInv, RangesInv, IsRangeOp, IsRange
    <3> QED BY <3>1, <3>2
  <2>3. \A i \in 1..(n + 1) : IsRangeOp(i)' <=> IsRange(log'[i])
    BY DEF IsRangeOp, IsRange
  <2> QED BY <1>2, <2>1, <2>2, <2>3 DEF RangesInv
<1>12. IdsInv'
  <2>1. ASSUME NEW i \in 1..(n + 1), IsRange(log'[i])
        PROVE  GoodIds(log[i], i)'
    <3>1. i - 1 \in 0..n /\ \A j \in 0..(i - 1) : j \in 0..n
      BY <1>1
    <3>2. GoodIds(log'[i], i)
      <4>1. CASE i = n + 1
        BY <1>2, <2>1, <4>1
      <4>2. CASE i # n + 1
        <5>1. i \in 1..n /\ log'[i] = log[i]
          BY <1>1, <1>2, <4>2
        <5> QED BY <1>1, <2>1, <5>1 DEF DocInv, IdsInv, GoodIds, IsRangeOp, IsRange
      <4> QED BY <4>1, <4>2
    <3>3. /\ Replayed(i - 1)' = Replayed(i - 1)
          /\ \A j \in 0..(i - 1) : Replayed(j)' = Replayed(j)
      BY <1>4, <3>1
    <3> QED BY <1>1, <3>2, <3>3 DEF GoodIds
  <2>2. \A i \in 1..(n + 1) : IsRangeOp(i)' <=> IsRange(log'[i])
    BY DEF IsRangeOp, IsRange
  <2> QED BY <1>2, <2>1, <2>2 DEF IdsInv, GoodIds
<1> QED BY <1>1, <1>2, <1>3, <1>4, <1>10, <1>11, <1>12

-----------------------------------------------------------------------------
(* The invariant is inductive. *)

(* A step of one client that leaves the log alone. *)
LEMMA OneClient ==
    ASSUME IndInv, NEW c \in Clients, NEW d, NEW p \in 0..Len(log),
           log' = log, joined' = joined \cup {c},
           compressors' = [compressors EXCEPT ![c] = d],
           progress' = [progress EXCEPT ![c] = p], progress[c] <= p,
           CompressorInv(d), d.sessionId = c, d.generatedIdCount <= MaxGenerated,
           d.nextRangeBase = compressors[c].nextRangeBase,
           d.clusters = Replayed(p).clusters, d.clusterCapacity = Replayed(p).clusterCapacity
    PROVE  IndInv'
<1>1. /\ DocInv /\ Len(log) \in Nat /\ joined \subseteq Clients
      /\ compressors \in [Clients -> Compressors] /\ progress \in [Clients -> 0..Len(log)]
      /\ \A x \in Clients : progress[x] \in 0..Len(log) /\ progress[x] \in Nat
  BY DocFacts DEF IndInv
<1>2. /\ compressors'[c] = d /\ progress'[c] = p
      /\ \A x \in Clients \ {c} : compressors'[x] = compressors[x] /\ progress'[x] = progress[x]
  BY <1>1
<1>3. p \in Nat /\ \A x \in Clients : progress[x] <= progress[x]
  BY <1>1
<1>4. \A x \in Clients : /\ progress[x] <= progress'[x] /\ progress'[x] \in Nat
                         /\ compressors'[x].nextRangeBase = compressors[x].nextRangeBase
  BY <1>1, <1>2, <1>3
<1>5. IsReplay(Replay(log), log)' /\ HistoryInv' /\ RangesInv' /\ IdsInv'
  BY <1>4, LogTheSame
<1>6. TypeOK'
  <2>1. d \in Compressors
    BY DEF CompressorInv
  <2>2. compressors' \in [Clients -> Compressors] /\ progress' \in [Clients -> 0..Len(log)]
    BY <1>1, <2>1
  <2>3. log \in Seq(RangeOps \cup CapacityOps) /\ joined' \subseteq Clients
    BY <1>1 DEF DocInv, TypeOK
  <2> QED BY <2>2, <2>3 DEF TypeOK
<1>7. ClientsInv'
  <2>1. ASSUME NEW x \in Clients
        PROVE  /\ compressors'[x].sessionId = x
               /\ CompressorInv(compressors'[x])
               /\ compressors'[x].generatedIdCount <= MaxGenerated
               /\ compressors'[x].clusters = Replay(log')[progress'[x]].clusters
               /\ compressors'[x].clusterCapacity = Replay(log')[progress'[x]].clusterCapacity
               /\ x \notin joined' => compressors'[x] = NewCompressor(x) /\ progress'[x] = 0
    <3>1. CASE x = c
      BY <1>2, <3>1 DEF Replayed
    <3>2. CASE x # c
      BY <1>1, <1>2, <3>2 DEF DocInv, ClientsInv, Replayed
    <3> QED BY <3>1, <3>2
  <2> QED BY <2>1 DEF ClientsInv, Replayed
<1> QED BY <1>5, <1>6, <1>7 DEF IndInv, DocInv

LEMMA GenerateKeeps ==
    ASSUME IndInv, NEW c \in joined, Generate(c)
    PROVE  IndInv'
<1> DEFINE d == GenerateNextId(compressors[c])
           p == progress[c]
<1>1. /\ DocInv /\ c \in Clients /\ joined' = joined \cup {c} /\ log' = log
      /\ compressors' = [compressors EXCEPT ![c] = d]
      /\ compressors[c].generatedIdCount < MaxGenerated
  BY DocFacts DEF IndInv, Generate
<1>2. progress \in [Clients -> 0..Len(log)] /\ MaxGenerated \in Nat
  BY <1>1, DocFacts, CapacityTypes
<1>3. progress' = [progress EXCEPT ![c] = p] /\ p \in 0..Len(log) /\ progress[c] <= p
  BY <1>1, <1>2 DEF Generate
<1>4. /\ CompressorInv(compressors[c]) /\ compressors[c].sessionId = c
      /\ compressors[c].generatedIdCount \in Nat
      /\ compressors[c].clusters = Replayed(p).clusters
      /\ compressors[c].clusterCapacity = Replayed(p).clusterCapacity
  BY <1>1, ClientFacts
<1>5. /\ CompressorInv(d) /\ d.sessionId = compressors[c].sessionId
      /\ d.generatedIdCount = compressors[c].generatedIdCount + 1
      /\ d.nextRangeBase = compressors[c].nextRangeBase
      /\ d.clusterCapacity = compressors[c].clusterCapacity
      /\ d.clusters = compressors[c].clusters
  BY <1>4, GenerateEffect
<1> HIDE DEF d, p
<1>6. d.generatedIdCount <= MaxGenerated
  BY <1>1, <1>2, <1>4, <1>5
<1> QED BY <1>1, <1>3, <1>4, <1>5, <1>6, OneClient

(* The next op for a client is one it accepts, and it brings the client to
   the next point of the history.                                          *)
LEMMA NextOp ==
    ASSUME SessionsFarApart, IndInv, NEW c \in Clients, progress[c] < Len(log),
           NEW p, p = progress[c] + 1, NEW op, op = log[p],
           NEW d, d = Process(compressors[c], op)
    PROVE  /\ op \in Ops /\ p \in 0..Len(log)
           /\ IsRange(op) /\ op.range.len # 0 => FinalizeResult(compressors[c], op.range) = "Ok"
           /\ CompressorInv(d)
           /\ d.sessionId = c
           /\ d.generatedIdCount = compressors[c].generatedIdCount
           /\ d.nextRangeBase = compressors[c].nextRangeBase
           /\ d.normalizer = compressors[c].normalizer
           /\ d.clusters = Replayed(p).clusters
           /\ d.clusterCapacity = Replayed(p).clusterCapacity
<1> DEFINE w == compressors[c]
           n == Len(log)
           q == progress[c]
           tables == Replayed(q)
<1>1. DocInv /\ n \in Nat /\ q \in Nat /\ q < n /\ p = q + 1
  BY DocFacts DEF IndInv
<1>2. p \in 0..n /\ p \in 1..n /\ q \in 0..n /\ p - 1 = q /\ p # 0
  <2> HIDE DEF n, q
  <2> QED BY <1>1
<1>3. op \in Ops
  BY <1>1, <1>2, DocFacts
<1>4. Replayed(p) = AfterOp(tables, op)
  <2>1. Replayed(p) = IF p = 0 THEN NoClusters ELSE AfterOp(Replayed(p - 1), log[p])
    <3> HIDE DEF tables
    <3> QED BY <1>2 DEF IndInv, IsReplay, Replayed
  <2> QED BY <1>2, <2>1
<1>5. IsRangeOp(p) <=> IsRange(op)
  BY DEF IsRangeOp, IsRange
<1>6. IsRange(op) => /\ op.range.session \in Sessions
                     /\ op.range.base = NextBase(tables.clusters, op.range.session)
                     /\ op.range.base + op.range.len = NextBase(Replayed(p).clusters, op.range.session)
  <2>1. RangesInv
    BY <1>1 DEF DocInv
  <2>2. IsRange(op) => /\ op.range.base = NextBase(Replayed(p - 1).clusters, op.range.session)
                       /\ op.range.base + op.range.len = NextBase(Replayed(p).clusters, op.range.session)
    BY <1>2, <1>5, <2>1 DEF RangesInv
  <2> QED BY <1>2, <1>3, <2>2, OpTypes
<1>7. Follows(tables, op)
  BY <1>6 DEF Follows
<1>8. /\ CompressorInv(w) /\ w.sessionId = c /\ Bounded(w.clusters)
      /\ w.clusterCapacity \in AllCapacities
      /\ tables.clusters = w.clusters /\ tables.clusterCapacity = w.clusterCapacity
  BY <1>1, ClientFacts
<1>9. \A s \in Sessions : /\ NextBase(Replayed(p).clusters, s) <= MaxGenerated + 1
                          /\ NextBase(Replayed(p).clusters, s) <= compressors[s].generatedIdCount + 1
  BY <1>1, <1>2, HistoryBounded, CapacityTypes
<1>10. /\ IsRange(op) => op.range.base + op.range.len <= MaxGenerated + 1
       /\ IsRange(op) /\ op.range.session = w.sessionId
             => op.range.base + op.range.len <= w.generatedIdCount + 1
  BY <1>6, <1>8, <1>9
<1>11. d = Process(w, op)
  OBVIOUS
<1> HIDE DEF w, tables, n, q
<1>12. /\ IsRange(op) /\ op.range.len # 0 => FinalizeResult(w, op.range) = "Ok"
       /\ CompressorInv(d)
       /\ d.sessionId = w.sessionId
       /\ d.generatedIdCount = w.generatedIdCount
       /\ d.nextRangeBase = w.nextRangeBase
       /\ d.normalizer = w.normalizer
       /\ d.clusters = AfterOp(tables, op).clusters
       /\ d.clusterCapacity = AfterOp(tables, op).clusterCapacity
  BY <1>3, <1>7, <1>8, <1>10, <1>11, ProcessEffect
<1> QED BY <1>2, <1>3, <1>4, <1>8, <1>12 DEF w, n

LEMMA DeliverKeeps ==
    ASSUME SessionsFarApart, IndInv, NEW c \in joined, Deliver(c)
    PROVE  IndInv'
<1> DEFINE p == progress[c] + 1
           op == log[p]
           d == Process(compressors[c], op)
<1>1. /\ DocInv /\ c \in Clients /\ joined' = joined \cup {c} /\ log' = log
      /\ progress[c] < Len(log)
  BY DocFacts DEF IndInv, Deliver
<1>2. /\ compressors \in [Clients -> Compressors] /\ progress \in [Clients -> 0..Len(log)]
      /\ progress[c] \in Nat /\ progress[c] <= p
  BY <1>1, DocFacts
<1>3. /\ compressors' = [compressors EXCEPT ![c] = d]
      /\ progress' = [progress EXCEPT ![c] = p]
  BY <1>1, <1>2 DEF Deliver
<1>4. compressors[c].generatedIdCount <= MaxGenerated
  BY <1>1, ClientFacts
<1> HIDE DEF d, p, op
<1>5. /\ p \in 0..Len(log) /\ CompressorInv(d) /\ d.sessionId = c
      /\ d.generatedIdCount = compressors[c].generatedIdCount
      /\ d.nextRangeBase = compressors[c].nextRangeBase
      /\ d.clusters = Replayed(p).clusters /\ d.clusterCapacity = Replayed(p).clusterCapacity
  BY <1>1, NextOp DEF d, op, p
<1> QED BY <1>1, <1>2, <1>3, <1>4, <1>5, OneClient

LEMMA JoinKeeps ==
    ASSUME SessionsFit, IndInv, NEW c \in Clients \ joined, NEW writer \in joined,
           Join(c, writer)
    PROVE  IndInv'
<1> DEFINE w == compressors[writer]
           p == progress[writer]
<1>1. /\ DocInv /\ c \in Clients /\ c \in Sessions /\ writer \in Clients
      /\ joined' = joined \cup {c} /\ log' = log
      /\ progress' = [progress EXCEPT ![c] = p]
  BY DocFacts, CapacityTypes DEF IndInv, Join
<1>2. PICK d \in Deserialize(Serialize(w), c) : compressors' = [compressors EXCEPT ![c] = d]
  BY DEF Join
<1>3. /\ CompressorInv(w) /\ p \in 0..Len(log) /\ p \in Nat /\ MaxGenerated \in Nat
      /\ w.clusters = Replayed(p).clusters /\ w.clusterCapacity = Replayed(p).clusterCapacity
  BY <1>1, ClientFacts, CapacityTypes
<1>4. compressors[c].nextRangeBase = 1 /\ progress[c] = 0
  BY <1>1, NewCompressorInv DEF DocInv, ClientsInv
<1> HIDE DEF w, p
<1>5. CompressorInv(d) /\ d = LoadedFrom(w, c, d.sessions)
  BY <1>1, <1>2, <1>3, IndicesFit, SummaryLoads
<1>6. /\ d.sessionId = c /\ d.generatedIdCount = 0 /\ d.nextRangeBase = 1
      /\ d.clusters = w.clusters /\ d.clusterCapacity = w.clusterCapacity
  <2> DEFINE sessions == d.sessions
  <2> HIDE DEF sessions
  <2>1. d = [sessionId |-> c, generatedIdCount |-> 0, nextRangeBase |-> 1,
             finalIdLimit |-> w.finalIdLimit, clusterCapacity |-> w.clusterCapacity,
             sessions |-> sessions, clusters |-> w.clusters, normalizer |-> {}]
    BY <1>5, LoadedRecord DEF sessions
  <2> QED BY <2>1
<1>7. d.generatedIdCount <= MaxGenerated /\ progress[c] <= p
  BY <1>3, <1>4, <1>6
<1> QED BY <1>1, <1>2, <1>3, <1>4, <1>5, <1>6, <1>7, OneClient

(* What a client puts into an op: its IDs in op space, and final IDs that are
   finalized at the sender.                                                *)
LEMMA TheOnlyOne ==
    ASSUME NEW x
    PROVE  TheOnly({x}) = x
BY DEF TheOnly

LEMMA OpSpaceId ==
    ASSUME NEW c, CompressorInv(c), NEW g \in 1..c.generatedIdCount
    PROVE  /\ OpSpaceIds(c)[g] \in Int
           /\ \/ OpSpaceIds(c)[g] = -g
              \/ \E k \in Chain(c.clusters, c.sessionId) :
                    /\ HoldsLocal(c.clusters[k], -g)
                    /\ OpSpaceIds(c)[g] = AllocatedFinal(c.clusters[k], -g)
<1>1. PICK id : Issued(c, g, id)
  <2>1. Held(c, g)
    BY DEF CompressorInv
  <2> QED BY <2>1, HeldIsIssued
<1>2. TableInv(c.clusters) /\ -g \in Int
  BY CompressorFacts
<1>3. IssuedIds(c, g) = {id}
  <2>1. CASE -g \in c.normalizer
    BY <1>1, <2>1 DEF IssuedIds, Issued
  <2>2. CASE -g \notin c.normalizer
    <3>1. PICK i \in Chain(c.clusters, c.sessionId) :
             HoldsLocal(c.clusters[i], -g) /\ id = AllocatedFinal(c.clusters[i], -g)
      BY <1>1, <2>2 DEF Issued
    <3> DEFINE local == -g
    <3>2. local \in Int /\ HoldsLocal(c.clusters[i], local) /\ id = AllocatedFinal(c.clusters[i], local)
      BY <1>2, <3>1
    <3>3. IssuedIds(c, g) = TryConvertToAllocated(c.clusters, c.sessionId, local)
      BY <2>2 DEF IssuedIds
    <3> HIDE DEF local
    <3>4. TryConvertToAllocated(c.clusters, c.sessionId, local) = {AllocatedFinal(c.clusters[i], local)}
      BY <1>2, <3>2, AllocatedLocalConverts
    <3> QED BY <3>2, <3>3, <3>4
  <2> QED BY <2>1, <2>2
<1> DEFINE x == OpSpaceIds(c)[g]
<1>4. x = TheOnly(NormalizeToOpSpace(c, id))
  BY <1>3 DEF OpSpaceIds
<1>5. \A y : NormalizeToOpSpace(c, id) = {y} => x = y
  BY <1>4, TheOnlyOne
<1> HIDE DEF x
<1>6. \/ x = -g
      \/ \E k \in Chain(c.clusters, c.sessionId) :
            HoldsLocal(c.clusters[k], -g) /\ x = AllocatedFinal(c.clusters[k], -g)
  BY <1>1, <1>5, IssuedInOpSpace
<1>7. ASSUME NEW k \in Chain(c.clusters, c.sessionId), x = AllocatedFinal(c.clusters[k], -g)
      PROVE  x \in Int
  <2>1. c.clusters \in Seq(Cluster) /\ k \in DOMAIN c.clusters
    BY CompressorFacts DEF Chain
  <2>2. c.clusters[k].baseFinal \in Int /\ c.clusters[k].baseLocal \in Int
    BY <2>1, TableTypes
  <2> QED BY <1>2, <1>7, <2>2 DEF AllocatedFinal, GenCount
<1> QED BY <1>2, <1>6, <1>7 DEF x

LEMMA OpSpaceIdsType ==
    ASSUME NEW c, CompressorInv(c)
    PROVE  OpSpaceIds(c) \in Seq(Int) /\ DOMAIN OpSpaceIds(c) = 1..c.generatedIdCount
<1> DEFINE n == c.generatedIdCount
           ids == OpSpaceIds(c)
<1>1. n \in Nat /\ DOMAIN ids = 1..n /\ ids = [g \in 1..n |-> ids[g]]
  BY CompressorFacts DEF OpSpaceIds
<1>2. \A g \in 1..n : ids[g] \in Int
  BY OpSpaceId
<1> HIDE DEF n, ids
<1>3. ids \in [1..n -> Int]
  BY <1>1, <1>2
<1>4. ids \in Seq(Int)
  BY <1>1, <1>3
<1> QED BY <1>1, <1>4 DEF n, ids

LEMMA RelayedAreFinalized ==
    ASSUME NEW c, CompressorInv(c), NEW final \in RemoteFinals(c)
    PROVE  final \in Nat /\ HasFinalized(c.clusters, final)
<1> DEFINE t == c.clusters
<1>1. TableInv(t) /\ t \in Seq(Cluster) /\ c \in Compressors
  BY CompressorFacts
<1>2. final \in Nat /\ ~(final < 0) /\ final \in Int
  <2>1. c.finalIdLimit \in Nat /\ final \in 0..(c.finalIdLimit - 1)
    BY <1>1, CompressorTypes DEF RemoteFinals
  <2> QED BY <2>1
<1>3. Decompress(c, final) # {} /\ Search(t, final) \cap Chain(t, c.sessionId) = {}
  BY DEF RemoteFinals
<1>4. PICK k \in Search(t, final) : MayDecompress(c, t[k], AlignedLocal(t[k], final))
  BY <1>2, <1>3 DEF Decompress
<1>5. k \in DOMAIN t /\ HoldsFinal(t[k], final) /\ t[k].session # c.sessionId
  BY <1>3, <1>4 DEF Search, Chain
<1>6. t[k] \in Cluster
  BY <1>1, <1>5, TableTypes
<1> DEFINE cluster == t[k]
           local == AlignedLocal(cluster, final)
<1>7. local >= MaxLocal(cluster)
  BY <1>4, <1>5 DEF MayDecompress
<1>8. HoldsLocal(cluster, local) /\ local \in LocalIds
  <2> HIDE DEF cluster
  <2>1. cluster \in Cluster /\ HoldsFinal(cluster, final)
    BY <1>5, <1>6 DEF cluster
  <2> QED BY <1>2, <2>1, ClusterInverse
<1>9. MaxLocal(cluster) \in Int /\ local \in Int
  <2>1. local \in Int
    BY <1>8 DEF LocalIds
  <2>2. t[k].baseLocal \in Int /\ t[k].count \in Int
    BY <1>1, <1>5, TableTypes
  <2> QED BY <2>1, <2>2 DEF MaxLocal
<1> HIDE DEF local
<1>10. HoldsFinalizedLocal(cluster, local)
  <2> HIDE DEF cluster
  <2> QED BY <1>7, <1>8, <1>9 DEF HoldsFinalizedLocal, HoldsLocal
<1> QED BY <1>2, <1>5, <1>10 DEF HasFinalized, local

(* A step that appends an op and leaves the tables alone. *)
LEMMA LongerLog ==
    ASSUME IndInv, NEW op \in Ops, log' = Append(log, op), UNCHANGED <<joined, progress>>,
           Follows(Replayed(Len(log)), op),
           ~IsRange(op) => op.capacity \in AllCapacities,
           IsRange(op) => op.range.session \in joined /\ GoodIds(op, Len(log) + 1),
           compressors' \in [Clients -> Compressors],
           \A x \in Clients :
              /\ CompressorInv(compressors'[x])
              /\ compressors'[x].sessionId = compressors[x].sessionId
              /\ compressors'[x].generatedIdCount = compressors[x].generatedIdCount
              /\ compressors'[x].clusters = compressors[x].clusters
              /\ compressors'[x].clusterCapacity = compressors[x].clusterCapacity
              /\ x \notin joined => compressors'[x] = compressors[x]
              /\ compressors'[x].nextRangeBase =
                    IF IsRange(op) /\ x = op.range.session THEN op.range.base + op.range.len
                    ELSE compressors[x].nextRangeBase
    PROVE  IndInv'
<1>0. PICK n \in Nat : n = Len(log)
  BY DocFacts DEF IndInv
<1>1. /\ DocInv /\ joined' = joined /\ progress' = progress
      /\ progress \in [Clients -> 0..n] /\ joined \subseteq Clients
  BY <1>0, DocFacts DEF IndInv
<1>2. /\ IsReplay(Replay(log), log)' /\ HistoryInv' /\ RangesInv' /\ IdsInv'
      /\ log' \in Seq(Ops) /\ Len(log') = n + 1
      /\ \A i \in 0..n : Replay(log')[i] = Replay(log)[i]
  <2>1. \A x \in Clients : compressors'[x].nextRangeBase =
                    IF IsRange(op) /\ x = op.range.session THEN op.range.base + op.range.len
                    ELSE compressors[x].nextRangeBase
    OBVIOUS
  <2>2. /\ IsReplay(Replay(log), log)' /\ HistoryInv' /\ RangesInv' /\ IdsInv'
        /\ log' \in Seq(Ops) /\ Len(log') = Len(log) + 1
        /\ \A i \in 0..Len(log) : Replayed(i)' = Replayed(i)
    BY <2>1, LogLonger
  <2> QED BY <1>0, <2>2 DEF Replayed
<1>3. TypeOK'
  <2>1. progress' \in [Clients -> 0..(n + 1)]
    <3>1. \A i \in 0..n : i \in 0..(n + 1)
      BY <1>0
    <3> QED BY <1>1, <3>1
  <2> QED BY <1>1, <1>2, <2>1 DEF TypeOK, Ops
<1>4. ClientsInv'
  <2>1. ASSUME NEW x \in Clients
        PROVE  /\ compressors'[x].sessionId = x
               /\ CompressorInv(compressors'[x])
               /\ compressors'[x].generatedIdCount <= MaxGenerated
               /\ compressors'[x].clusters = Replay(log')[progress'[x]].clusters
               /\ compressors'[x].clusterCapacity = Replay(log')[progress'[x]].clusterCapacity
               /\ x \notin joined' => compressors'[x] = NewCompressor(x) /\ progress'[x] = 0
    <3>1. progress[x] \in 0..n /\ Replay(log')[progress'[x]] = Replayed(progress[x])
      BY <1>1, <1>2 DEF Replayed
    <3>2. /\ compressors[x].sessionId = x
          /\ compressors[x].generatedIdCount <= MaxGenerated
          /\ compressors[x].clusters = Replayed(progress[x]).clusters
          /\ compressors[x].clusterCapacity = Replayed(progress[x]).clusterCapacity
          /\ x \notin joined => compressors[x] = NewCompressor(x) /\ progress[x] = 0
      BY <1>1 DEF DocInv, ClientsInv
    <3> QED BY <1>1, <3>1, <3>2
  <2> QED BY <2>1 DEF ClientsInv, Replayed
<1> QED BY <1>2, <1>3, <1>4 DEF IndInv, DocInv

LEMMA SendKeeps ==
    ASSUME IndInv, NEW c \in joined, Send(c)
    PROVE  IndInv'
<1> DEFINE w == compressors[c]
           d == TakeNextRange(w)
           r == NextRange(w)
           ids == OpSpaceIds(w)
           relayed == RemoteFinals(w)
           op == [kind |-> "range", range |-> r, ids |-> ids, relayed |-> relayed]
<1>0. PICK n \in Nat : n = Len(log)
  BY DocFacts DEF IndInv
<1>1. /\ DocInv /\ c \in Clients /\ c \in Sessions /\ log' = Append(log, op)
      /\ compressors' = [compressors EXCEPT ![c] = d]
      /\ joined' = joined /\ progress' = progress
      /\ compressors \in [Clients -> Compressors]
      /\ \A x \in Clients : CompressorInv(compressors[x])
  BY DocFacts, CapacityTypes DEF IndInv, Send
<1>2. /\ CompressorInv(w) /\ w.sessionId = c
      /\ w.clusters = Replayed(progress[c]).clusters
      /\ progress[c] \in 0..n
  BY <1>0, <1>1, ClientFacts
<1>3. /\ CompressorInv(d) /\ d.sessionId = w.sessionId
      /\ d.generatedIdCount = w.generatedIdCount
      /\ d.nextRangeBase = w.generatedIdCount + 1
      /\ d.clusterCapacity = w.clusterCapacity /\ d.clusters = w.clusters
      /\ r \in Ranges /\ r.session = c /\ r.base = w.nextRangeBase /\ r.len = UntakenCount(w)
      /\ r.base + r.len = w.generatedIdCount + 1
  BY <1>2, TakeEffect
<1>4. /\ op.kind = "range" /\ op.range = r /\ op.ids = ids /\ op.relayed = relayed
      /\ IsRange(op)
  BY DEF IsRange
<1>5. op \in Ops
  <2>1. ids \in Seq(Int) /\ relayed \subseteq Nat
    BY <1>2, OpSpaceIdsType, RelayedAreFinalized
  <2> HIDE DEF ids, relayed, r
  <2> QED BY <1>3, <2>1 DEF Ops, RangeOps
<1>6. Follows(Replayed(Len(log)), op)
  <2>1. NextBase(Replayed(Len(log)).clusters, c) = w.nextRangeBase
    BY <1>1 DEF DocInv, RangesInv
  <2> HIDE DEF op, r, w
  <2> QED BY <1>3, <1>4, <2>1 DEF Follows
<1>7. GoodIds(op, Len(log) + 1)
  <2> DEFINE t == Replayed(n).clusters
             u == w.clusters
  <2>1. /\ n + 1 - 1 = n /\ n \in Nat /\ n \in progress[c]..n
        /\ progress[c] <= progress[c] /\ progress[c] \in 0..(n + 1 - 1)
    BY <1>2
  <2>2. t \in Seq(Cluster) /\ u \in Seq(Cluster) /\ Grows(u, t)
    <3>1. /\ Replayed(progress[c]).clusters \in Seq(Cluster)
          /\ \A j \in progress[c]..n : /\ j \in 0..n
                                       /\ Grows(Replayed(progress[c]).clusters, Replayed(j).clusters)
      BY <1>0, <1>1, <1>2, HistoryTypes
    <3>2. Replayed(n).clusters \in Seq(Cluster)
      BY <1>0, <1>1, <2>1, <3>1, HistoryTypes
    <3> QED BY <1>2, <2>1, <3>1, <3>2
  <2>3. DOMAIN ids = 1..(r.base + r.len - 1)
    <3>1. DOMAIN ids = 1..w.generatedIdCount /\ w.generatedIdCount \in Nat
      BY <1>2, OpSpaceIdsType, CompressorFacts
    <3>2. r.base + r.len - 1 = w.generatedIdCount
      <4>1. r.base \in Int /\ r.len \in Int
        <5> HIDE DEF r
        <5> QED BY <1>3 DEF Ranges, Positive
      <4> HIDE DEF r, w
      <4> QED BY <1>3, <3>1, <4>1
    <3> QED BY <3>1, <3>2
  <2>4. ASSUME NEW g \in DOMAIN ids
        PROVE  \/ ids[g] = -g
               \/ \E k \in Chain(t, c) : HoldsLocal(t[k], -g) /\ ids[g] = AllocatedFinal(t[k], -g)
    <3>1. g \in 1..w.generatedIdCount /\ -g \in Int
      <4>1. DOMAIN ids = 1..w.generatedIdCount
        BY <1>2, OpSpaceIdsType
      <4>2. \A x \in 1..w.generatedIdCount : -x \in Int
        OBVIOUS
      <4> HIDE DEF ids
      <4> QED BY <2>4, <4>1, <4>2
    <3>2. \/ ids[g] = -g
          \/ \E k \in Chain(u, c) : HoldsLocal(u[k], -g) /\ ids[g] = AllocatedFinal(u[k], -g)
      BY <1>2, <3>1, OpSpaceId
    <3>3. ASSUME NEW k \in Chain(u, c), HoldsLocal(u[k], -g), ids[g] = AllocatedFinal(u[k], -g)
          PROVE  k \in Chain(t, c) /\ HoldsLocal(t[k], -g) /\ ids[g] = AllocatedFinal(t[k], -g)
      <4> DEFINE local == -g
      <4>1. local \in Int /\ HoldsLocal(u[k], local) /\ ids[g] = AllocatedFinal(u[k], local)
        BY <3>1, <3>3
      <4> HIDE DEF local, t, u, ids
      <4>2. /\ k \in DOMAIN t /\ t[k].session = u[k].session
            /\ HoldsLocal(t[k], local) /\ AllocatedFinal(t[k], local) = AllocatedFinal(u[k], local)
        BY <2>2, <3>3, <4>1, GrowsHolds DEF Chain
      <4> QED BY <3>3, <4>1, <4>2 DEF Chain, local
    <3> QED BY <3>2, <3>3
  <2>5. \A final \in relayed : HasFinalized(Replayed(progress[c]).clusters, final)
    BY <1>2, RelayedAreFinalized
  <2> HIDE DEF ids, relayed, r, w, op, d
  <2>6. GoodIds(op, n + 1)
    BY <1>3, <1>4, <2>1, <2>3, <2>4, <2>5 DEF GoodIds
  <2> QED BY <1>0, <2>6
<1>8. compressors' \in [Clients -> Compressors]
  BY <1>1, <1>3 DEF CompressorInv
<1>9. ASSUME NEW x \in Clients
      PROVE  /\ CompressorInv(compressors'[x])
             /\ compressors'[x].sessionId = compressors[x].sessionId
             /\ compressors'[x].generatedIdCount = compressors[x].generatedIdCount
             /\ compressors'[x].clusters = compressors[x].clusters
             /\ compressors'[x].clusterCapacity = compressors[x].clusterCapacity
             /\ x \notin joined => compressors'[x] = compressors[x]
             /\ compressors'[x].nextRangeBase =
                    IF IsRange(op) /\ x = op.range.session THEN op.range.base + op.range.len
                    ELSE compressors[x].nextRangeBase
  <2>1. CASE x = c
    <3>1. compressors'[x] = d /\ x \in joined
      BY <1>1, <2>1
    <3> HIDE DEF d, op, r
    <3> QED BY <1>1, <1>3, <1>4, <2>1, <3>1
  <2>2. CASE x # c
    <3>1. compressors'[x] = compressors[x]
      BY <1>1, <2>2
    <3> HIDE DEF op, r
    <3> QED BY <1>1, <1>3, <1>4, <2>2, <3>1
  <2> QED BY <2>1, <2>2
<1>10. op.range.session \in joined
  BY <1>3
<1> HIDE DEF op, d
<1> QED BY <1>1, <1>4, <1>5, <1>6, <1>7, <1>8, <1>9, <1>10, LongerLog

LEMMA ProposeKeeps ==
    ASSUME IndInv, ProposeCapacity
    PROVE  IndInv'
<1>1. PICK capacity \in Capacities :
         log' = Append(log, [kind |-> "capacity", capacity |-> capacity])
  BY DEF ProposeCapacity
<1> DEFINE op == [kind |-> "capacity", capacity |-> capacity]
<1>2. /\ op.kind = "capacity" /\ op.capacity \in AllCapacities /\ op.capacity \in Positive
      /\ ~IsRange(op)
  BY DocumentAssumption DEF AllCapacities, IsRange
<1>3. op \in Ops /\ log' = Append(log, op)
  BY <1>1, <1>2 DEF Ops, CapacityOps
<1>4. /\ UNCHANGED <<joined, progress>> /\ compressors' = compressors
      /\ compressors \in [Clients -> Compressors]
      /\ \A x \in Clients : CompressorInv(compressors[x])
  BY DocFacts DEF IndInv, ProposeCapacity
<1> HIDE DEF op
<1>5. Follows(Replayed(Len(log)), op)
  BY <1>2 DEF Follows
<1> QED BY <1>2, <1>3, <1>4, <1>5, LongerLog

LEMMA InitHolds == Init => IndInv
<1> SUFFICES ASSUME Init PROVE IndInv
  OBVIOUS
<1>1. /\ joined = Founders /\ compressors = [c \in Clients |-> NewCompressor(c)]
      /\ log = <<>> /\ Len(log) = 0 /\ progress = [c \in Clients |-> 0]
      /\ 0..Len(log) = {0} /\ 1..Len(log) = {}
  BY DEF Init
<1>2. IsReplay(Replay(log), log) /\ Replayed(0) = NoClusters
  BY <1>1, ReplayEmpty DEF Replayed
<1>3. NoClusters.clusters = <<>> /\ NoClusters.clusterCapacity = DefaultClusterCapacity
  BY DEF NoClusters
<1>4. ASSUME NEW c \in Clients
      PROVE  /\ compressors[c] = NewCompressor(c) /\ progress[c] = 0
             /\ CompressorInv(compressors[c])
             /\ compressors[c].sessionId = c
             /\ compressors[c].generatedIdCount = 0
             /\ compressors[c].nextRangeBase = 1
             /\ compressors[c].clusters = <<>>
             /\ compressors[c].clusterCapacity = DefaultClusterCapacity
  BY <1>1, NewCompressorInv, CapacityTypes
<1>5. TypeOK
  <2>1. compressors \in [Clients -> Compressors]
    BY <1>1, <1>4 DEF CompressorInv
  <2> QED BY <1>1, <2>1, CapacityTypes DEF TypeOK
<1>6. HistoryInv
  <2>1. <<>> \in Seq(Cluster) /\ DOMAIN <<>> = {} /\ DefaultClusterCapacity \in AllCapacities
    BY DEF AllCapacities
  <2>2. Grows(<<>>, <<>>)
    BY <2>1, GrowsReflexive
  <2> QED BY <1>1, <1>2, <1>3, <2>1, <2>2, EmptyTable DEF HistoryInv
<1>7. RangesInv
  BY <1>1, <1>2, <1>3, <1>4, EmptyTable DEF RangesInv
<1>8. ClientsInv
  <2>1. MaxGenerated \in Nat
    BY CapacityTypes
  <2> QED BY <1>1, <1>2, <1>3, <1>4, <2>1 DEF ClientsInv
<1>9. IdsInv
  BY <1>1 DEF IdsInv
<1> QED BY <1>2, <1>5, <1>6, <1>7, <1>8, <1>9 DEF IndInv, DocInv

LEMMA Stutters ==
    ASSUME IndInv, UNCHANGED vars
    PROVE  IndInv'
BY DEF vars, IndInv, DocInv, TypeOK, HistoryInv, RangesInv, ClientsInv, IdsInv, IsRangeOp, Replayed

LEMMA NextKeeps ==
    ASSUME SessionsFarApart, SessionsFit, IndInv, [Next]_vars
    PROVE  IndInv'
<1>1. ASSUME NEW c \in joined, Generate(c) PROVE IndInv'
  BY <1>1, GenerateKeeps
<1>2. ASSUME NEW c \in joined, Send(c) PROVE IndInv'
  BY <1>2, SendKeeps
<1>3. ASSUME NEW c \in joined, Deliver(c) PROVE IndInv'
  BY <1>3, DeliverKeeps
<1>4. CASE ProposeCapacity
  BY <1>4, ProposeKeeps
<1>5. ASSUME NEW c \in Clients \ joined, NEW writer \in joined, Join(c, writer) PROVE IndInv'
  BY <1>5, JoinKeeps
<1>6. CASE UNCHANGED vars
  BY <1>6, Stutters
<1> QED BY <1>1, <1>2, <1>3, <1>4, <1>5, <1>6 DEF Next

LEMMA IndInvHolds == SessionsFarApart /\ SessionsFit => (Spec => []IndInv)
<1> SUFFICES ASSUME SessionsFarApart, SessionsFit PROVE Spec => []IndInv
  OBVIOUS
<1>1. Init => IndInv
  BY InitHolds
<1>2. IndInv /\ [Next]_vars => IndInv'
  BY NextKeeps
<1> QED BY <1>1, <1>2, PTL DEF Spec

(* A document keeps to one history of its cluster tables, which its log
   determines: at any time each client's clusters and capacity are those of
   the point of the log it has come to, each session's ranges follow each
   other there without a gap, and what an op says was true where it was
   written (finalize_range in compressor.rs; ops in op order).             *)
THEOREM HistoryHolds == SessionsFarApart /\ SessionsFit => (Spec => []DocInv)
<1> SUFFICES ASSUME SessionsFarApart, SessionsFit PROVE Spec => []DocInv
  OBVIOUS
<1>1. IndInv => DocInv
  BY DEF IndInv
<1> QED BY <1>1, IndInvHolds, PTL

(* The variables of a document have their types. *)
THEOREM TypesHold == SessionsFarApart /\ SessionsFit => (Spec => []TypeOK)
<1> SUFFICES ASSUME SessionsFarApart, SessionsFit PROVE Spec => []TypeOK
  OBVIOUS
<1>1. IndInv => TypeOK
  BY DEF IndInv, DocInv
<1> QED BY <1>1, IndInvHolds, PTL

-----------------------------------------------------------------------------
(* What clients may rely on. *)

(* In the order of the service finalize_range refuses no range: neither does
   one arrive out of order, nor do its IDs collide with those of another
   session, whichever client processes it and however late.                *)
THEOREM RangesAcceptedHolds == SessionsFarApart /\ SessionsFit => (Spec => []RangesAccepted)
<1> SUFFICES ASSUME SessionsFarApart, SessionsFit PROVE Spec => []RangesAccepted
  OBVIOUS
<1>1. ASSUME IndInv PROVE RangesAccepted
  <2> SUFFICES ASSUME NEW c \in joined, progress[c] < Len(log),
                      NEW op, op = log[progress[c] + 1], op.kind = "range", op.range.len # 0
               PROVE  FinalizeResult(compressors[c], op.range) = "Ok"
    BY DEF RangesAccepted
  <2>1. c \in Clients
    BY <1>1, DocFacts DEF IndInv
  <2> DEFINE p == progress[c] + 1
             d == Process(compressors[c], op)
  <2> QED BY <1>1, <2>1, NextOp DEF IsRange
<1> QED BY <1>1, IndInvHolds, PTL

(* Clients that have processed the same ops agree on every cluster, on the
   limit of the final IDs and on the capacity of the next cluster, whatever
   each generated meanwhile and wherever it joined (compressor.rs:126).    *)
THEOREM ConvergenceHolds == SessionsFarApart /\ SessionsFit => (Spec => []Convergence)
<1> SUFFICES ASSUME SessionsFarApart, SessionsFit PROVE Spec => []Convergence
  OBVIOUS
<1>1. ASSUME IndInv PROVE Convergence
  <2>1. ASSUME NEW c \in joined
        PROVE  /\ compressors[c].clusters = Replayed(progress[c]).clusters
               /\ compressors[c].finalIdLimit = FinalLimit(Replayed(progress[c]).clusters)
               /\ compressors[c].clusterCapacity = Replayed(progress[c]).clusterCapacity
    <3>1. c \in Clients
      BY <1>1, DocFacts DEF IndInv
    <3>2. CompressorInv(compressors[c])
      BY <1>1, <3>1, DocFacts DEF IndInv
    <3> QED BY <1>1, <3>1, <3>2 DEF IndInv, DocInv, ClientsInv, CompressorInv
  <2> QED BY <2>1 DEF Convergence
<1> QED BY <1>1, IndInvHolds, PTL

(* A client that closes at any point of the document and resumes from what it
   serialized has the compressor it closed with.                           *)
THEOREM ResumeIsExactHolds ==
    SessionsFarApart /\ SessionsFit /\ SessionsStable => (Spec => []ResumeIsExact)
<1> SUFFICES ASSUME SessionsFarApart, SessionsFit, SessionsStable
             PROVE  Spec => []ResumeIsExact
  OBVIOUS
<1>1. ASSUME IndInv PROVE ResumeIsExact
  <2> SUFFICES ASSUME NEW c \in joined
               PROVE  Deserialize(SerializeWithLocal(compressors[c]), c) = {compressors[c]}
    BY DEF ResumeIsExact
  <2> DEFINE w == compressors[c]
  <2>1. DocInv /\ c \in Clients
    BY <1>1, DocFacts DEF IndInv
  <2>2. CompressorInv(w) /\ w.sessionId = c
    BY <2>1 DEF DocInv, ClientsInv
  <2>3. w.sessionId < StableLimit
    <3>1. c \in Sessions
      BY <2>2, CompressorTypes DEF CompressorInv
    <3> QED BY <2>2, <3>1 DEF SessionsStable
  <2> HIDE DEF w
  <2>4. IndexFits(w)
    BY <2>2, IndicesFit
  <2>5. Deserialize(SerializeWithLocal(w), c) = {w}
    BY <2>2, <2>3, <2>4, LocalStateLoads
  <2> QED BY <2>5 DEF w
<1> QED BY <1>1, IndInvHolds, PTL

(* A table and a later one read a final ID in the same way. *)
LEMMA OneReading ==
    ASSUME NEW c, CompressorInv(c), NEW d, CompressorInv(d), Grows(c.clusters, d.clusters),
           NEW final \in Nat, Decompress(c, final) # {}, Decompress(d, final) # {}
    PROVE  Decompress(c, final) = Decompress(d, final)
<1> DEFINE t == c.clusters
           u == d.clusters
           Reading(v, i) == StableOf(v[i].session, AlignedLocal(v[i], final))
<1>1. TableInv(t) /\ t \in Seq(Cluster) /\ TableInv(u) /\ u \in Seq(Cluster)
      /\ ~(final < 0) /\ final \in Int
  BY CompressorFacts
<1>2. PICK i \in DOMAIN t : HoldsFinal(t[i], final)
  BY <1>1 DEF Decompress, Search
<1>3. Search(t, final) = {i}
  BY <1>1, <1>2, FinalsDisjoint
<1>4. /\ i \in DOMAIN u /\ u[i].session = t[i].session
      /\ HoldsFinal(u[i], final) /\ AlignedLocal(u[i], final) = AlignedLocal(t[i], final)
  BY <1>1, <1>2, GrowsHolds
<1>5. Search(u, final) = {i}
  BY <1>1, <1>4, FinalsDisjoint
<1>6. Decompress(c, final) = {Reading(t, i)}
  BY <1>1, <1>3 DEF Decompress
<1>7. Decompress(d, final) = {Reading(u, i)}
  BY <1>1, <1>5 DEF Decompress
<1> QED BY <1>4, <1>6, <1>7

(* A final ID stands for the same UUID at every client that can decompress
   it, those included that got it eagerly and whose range is on its way
   (lib.rs invariant 2).                                                   *)
THEOREM FinalsAgreeHolds == SessionsFarApart /\ SessionsFit => (Spec => []FinalsAgree)
<1> SUFFICES ASSUME SessionsFarApart, SessionsFit PROVE Spec => []FinalsAgree
  OBVIOUS
<1>1. ASSUME IndInv PROVE FinalsAgree
  <2> SUFFICES ASSUME NEW c \in joined, NEW d \in joined,
                      NEW final \in 0..(NextBaseFinal(compressors[c].clusters) - 1),
                      Decompress(compressors[c], final) # {},
                      Decompress(compressors[d], final) # {}
               PROVE  Decompress(compressors[c], final) = Decompress(compressors[d], final)
    BY DEF FinalsAgree
  <2>1. DocInv /\ c \in Clients /\ d \in Clients
    BY <1>1, DocFacts DEF IndInv
  <2>2. final \in Nat
    <3>1. compressors[c].clusters \in Seq(Cluster)
      BY <2>1, ClientFacts, CompressorFacts
    <3>2. NextBaseFinal(compressors[c].clusters) \in Nat
      BY <3>1, NextBaseFinalType
    <3> QED BY <3>2
  <2>3. ASSUME NEW x \in Clients, NEW y \in Clients, progress[x] <= progress[y]
        PROVE  Grows(compressors[x].clusters, compressors[y].clusters)
    <3>1. progress[x] \in 0..Len(log) /\ progress[y] \in progress[x]..Len(log)
      BY <2>1, <2>3, DocFacts
    <3> QED BY <2>1, <3>1, HistoryTypes, ClientFacts
  <2>4. CompressorInv(compressors[c]) /\ CompressorInv(compressors[d])
    BY <2>1, ClientFacts
  <2>5. progress[c] <= progress[d] \/ progress[d] <= progress[c]
    BY <2>1, DocFacts
  <2> QED BY <2>1, <2>2, <2>3, <2>4, <2>5, OneReading
<1> QED BY <1>1, IndInvHolds, PTL

(* A finalized ID means one thing to a compressor: with the sessions far apart
   its UUID is found in its own session.                                   *)
LEMMA NearestIsOwn ==
    ASSUME SessionsFarApart, NEW known \in SUBSET Sessions, NEW s \in known,
           NEW g \in Int, 1 <= g, g <= MaxGenerated, NEW uuid, uuid = s + g - 1
    PROVE  Nearest(known, uuid) = {s}
<1>1. s \in Int /\ known \subseteq Int /\ MaxGenerated \in Int
      /\ DefaultClusterCapacity \in AllCapacities /\ DefaultClusterCapacity \in Int
      /\ DefaultClusterCapacity > 0
  <2>1. known \subseteq Sessions /\ Sessions \subseteq Int
    BY CapacityTypes
  <2> QED BY <2>1, CapacityTypes DEF AllCapacities
<1>2. s <= uuid /\ uuid \in Int
  BY <1>1
<1>3. ASSUME NEW u \in known, s < u PROVE ~(u <= uuid)
  <2>1. s + MaxGenerated + DefaultClusterCapacity < u /\ u \in Int
    BY <1>1, <1>3 DEF SessionsFarApart
  <2> QED BY <1>1, <2>1
<1>4. \A u \in known : u <= uuid => u <= s
  BY <1>1, <1>3
<1>5. s \in Nearest(known, uuid)
  BY <1>2, <1>4 DEF Nearest
<1>6. ASSUME NEW u \in Nearest(known, uuid) PROVE u = s
  <2>1. u \in known /\ u <= uuid /\ (s <= uuid => s <= u)
    BY DEF Nearest
  <2> QED BY <1>1, <1>2, <1>4, <2>1
<1> QED BY <1>5, <1>6

(* c takes a final ID and its local ID for the one ID of a UUID. *)
MeansOne(c, s, local, final, uuid) ==
    /\ final \in Nat
    /\ \E n : /\ NormalizeToSessionSpace(c, final, s) = {n}
              /\ NormalizeToSessionSpace(c, local, s) = {n}
              /\ Decompress(c, n) = {uuid}
              /\ Recompress(c, uuid) = {n}
    /\ Decompress(c, final) = {uuid}
    /\ \A u : NormalizeToSessionSpace(c, final, u) = NormalizeToSessionSpace(c, final, s)

LEMMA FinalizedMeansHere ==
    ASSUME SessionsFarApart, NEW c, CompressorInv(c), Bounded(c.clusters),
           NEW s \in Sessions, NEW i \in Chain(c.clusters, s), NEW local \in LocalIds,
           HoldsFinalizedLocal(c.clusters[i], local),
           NEW uuid, uuid = StableOf(s, local),
           NEW final, final = AllocatedFinal(c.clusters[i], local)
    PROVE  MeansOne(c, s, local, final, uuid)
<1> DEFINE t == c.clusters
           g == -local
<1>1. /\ TableInv(t) /\ t \in Seq(Cluster) /\ i \in DOMAIN t /\ t[i].session = s
      /\ Known(c) \in SUBSET Sessions /\ s \in Known(c)
  BY CompressorFacts DEF Chain, CompressorInv
<1>2. local \in Int /\ g \in Int /\ 1 <= g /\ -g = local
  BY DEF LocalIds
<1>3. g <= MaxGenerated
  <2>1. GenCount(MaxLocal(t[i])) \in Int /\ GenCount(MaxLocal(t[i])) < NextBase(t, s)
    BY <1>1, FinalizedBelowNext
  <2>2. NextBase(t, s) \in Int /\ NextBase(t, s) <= MaxGenerated + 1 /\ MaxGenerated \in Int
    BY <1>1, NextBaseType, CapacityTypes DEF Bounded
  <2>3. MaxLocal(t[i]) \in Int /\ MaxLocal(t[i]) <= local
    <3>1. t[i].baseLocal \in Int /\ t[i].count \in Int
      BY <1>1, TableTypes
    <3> QED BY <3>1 DEF MaxLocal, HoldsFinalizedLocal
  <2> DEFINE max == MaxLocal(t[i])
             next == NextBase(t, s)
  <2>4. max \in Int /\ max <= local /\ -max < next /\ next \in Int /\ next <= MaxGenerated + 1
    BY <2>1, <2>2, <2>3 DEF GenCount
  <2> HIDE DEF max, next
  <2> QED BY <1>2, <2>2, <2>4
<1>4. uuid = s + g - 1
  BY DEF StableOf, GenCount
<1> HIDE DEF g
<1>5. Nearest(Known(c), uuid) = {s}
  BY <1>1, <1>2, <1>3, <1>4, NearestIsOwn
<1>6. final \in Nat /\ ~(final < 0) /\ final >= 0
  <2>1. HoldsLocal(t[i], local)
    BY <1>1, <1>2, FinalizedIsHeld
  <2> QED BY <1>1, <1>2, <2>1, FinalOfLocal
<1>7. \A u : NormalizeToSessionSpace(c, final, u) = NormalizeFinal(c, final)
  BY <1>6 DEF NormalizeToSessionSpace
<1>8. \E n : /\ NormalizeFinal(c, final) = {n}
             /\ NormalizeToSessionSpace(c, local, s) = {n}
             /\ Decompress(c, n) = {uuid}
             /\ Recompress(c, uuid) = {n}
  BY <1>5, FinalizedMeans
<1>9. Decompress(c, final) = {StableOf(t[i].session, local)}
  <2>1. i \in DOMAIN c.clusters
    BY <1>1
  <2> QED BY <1>2, <2>1, FinalizedDecompresses
<1> QED BY <1>1, <1>6, <1>7, <1>8, <1>9 DEF MeansOne

(* What a processed op has to say: its place in the history. *)
LEMMA ProcessedOp ==
    ASSUME IndInv, NEW c \in joined, NEW i \in Processed(c)
    PROVE  /\ c \in Clients /\ i \in 1..Len(log) /\ IsRangeOp(i) /\ i \in Nat
           /\ log[i] \in Ops /\ IsRange(log[i])
           /\ log[i].range.session \in Sessions
           /\ GoodIds(log[i], i)
           /\ log[i].range.base + log[i].range.len
                 = NextBase(Replayed(i).clusters, log[i].range.session)
           /\ \A j \in 0..i : /\ TableInv(Replayed(j).clusters)
                              /\ Grows(Replayed(j).clusters, compressors[c].clusters)
<1>1. /\ DocInv /\ c \in Clients /\ progress[c] \in 0..Len(log) /\ Len(log) \in Nat
      /\ i \in 1..progress[c] /\ IsRangeOp(i)
  BY DocFacts DEF IndInv, Processed
<1>2. /\ i \in 1..Len(log) /\ i \in Nat
      /\ \A j \in 0..i : j \in 0..Len(log) /\ progress[c] \in j..Len(log)
  BY <1>1
<1>3. log[i] \in Ops /\ IsRange(log[i])
  BY <1>1, <1>2, DocFacts DEF IsRangeOp, IsRange
<1>4. GoodIds(log[i], i)
  BY <1>1, <1>2 DEF DocInv, IdsInv, GoodIds
<1>5. log[i].range.base + log[i].range.len = NextBase(Replayed(i).clusters, log[i].range.session)
  BY <1>1, <1>2 DEF DocInv, RangesInv
<1>6. compressors[c].clusters = Replayed(progress[c]).clusters
  BY <1>1, ClientFacts
<1> QED BY <1>1, <1>2, <1>3, <1>4, <1>5, <1>6, OpTypes, HistoryTypes

(* Every ID of a processed op normalizes at every client to the one ID of the
   UUID that its creator gave it, although the sender put it in op space when
   it knew less of the log, or more (normalize_to_op_space,
   normalize_to_session_space).                                            *)
THEOREM DeliveredIdsHolds ==
    SessionsFarApart /\ SessionsFit => (Spec => []DeliveredIdsKeepTheirMeaning)
<1> SUFFICES ASSUME SessionsFarApart, SessionsFit
             PROVE  Spec => []DeliveredIdsKeepTheirMeaning
  OBVIOUS
<1>1. ASSUME IndInv PROVE DeliveredIdsKeepTheirMeaning
  <2> SUFFICES ASSUME NEW c \in joined, NEW i \in Processed(c), NEW g \in DOMAIN log[i].ids
               PROVE  Means(c, log[i].ids[g], log[i].range.session, log[i].range.session + g - 1)
    BY DEF DeliveredIdsKeepTheirMeaning
  <2> DEFINE w == compressors[c]
             t == w.clusters
             s == log[i].range.session
             r == log[i].range
             id == log[i].ids[g]
             early == Replayed(i - 1).clusters
             late == Replayed(i).clusters
  <2>1. DocInv /\ c \in Clients
    BY <1>1, DocFacts DEF IndInv
  <2>2. /\ i \in 1..Len(log) /\ i \in Nat /\ s \in Sessions
        /\ log[i] \in Ops /\ IsRange(log[i])
        /\ GoodIds(log[i], i)
        /\ r.base + r.len = NextBase(late, s)
    BY <1>1, ProcessedOp
  <2>3. /\ TableInv(early) /\ Grows(early, t) /\ TableInv(late) /\ Grows(late, t)
    <3>1. i - 1 \in 0..i /\ i \in 0..i
      BY <2>2
    <3> QED BY <1>1, <3>1, ProcessedOp
  <2>4. CompressorInv(w) /\ Bounded(t) /\ TableInv(t)
    BY <2>1, ClientFacts, CompressorFacts
  <2>5. g \in Int /\ 1 <= g /\ g < NextBase(t, s)
    <3> DEFINE a == NextBase(late, s)
               b == NextBase(t, s)
               sum == r.base + r.len
    <3>1. g \in 1..(sum - 1)
      <4>1. g \in 1..(r.base + r.len - 1)
        BY <2>2 DEF GoodIds
      <4>2. r.base \in Int /\ r.len \in Int
        BY <2>2, OpTypes
      <4> HIDE DEF r
      <4> QED BY <4>1, <4>2
    <3>2. NextBase(late, s) <= NextBase(t, s) /\ NextBase(late, s) \in Int /\ NextBase(t, s) \in Int
      <4> HIDE DEF late, t, s
      <4> QED BY <2>2, <2>3, <2>4, NextBaseGrows, NextBaseType
    <3>3. sum = a
      BY <2>2
    <3> HIDE DEF a, b, sum
    <3>4. a <= b /\ a \in Int /\ b \in Int
      BY <3>2 DEF a, b
    <3>5. g \in Int /\ 1 <= g /\ g < b
      BY <3>1, <3>3, <3>4
    <3> QED BY <3>5 DEF b
  <2> DEFINE local == -g
  <2>6. local \in LocalIds /\ local \in Int /\ StableOf(s, local) = s + g - 1
    <3>1. -(-g) = g
      BY <2>5
    <3> QED BY <2>5, <3>1 DEF LocalIds, StableOf, GenCount
  <2>7. PICK k \in Chain(t, s) : HoldsFinalizedLocal(t[k], local)
    BY <2>2, <2>4, <2>5, BelowNextIsFinalized
  <2> DEFINE final == AllocatedFinal(t[k], local)
             uuid == StableOf(s, local)
  <2>8. PICK n : /\ NormalizeToSessionSpace(w, final, s) = {n}
                 /\ NormalizeToSessionSpace(w, local, s) = {n}
                 /\ Decompress(w, n) = {uuid}
                 /\ Recompress(w, uuid) = {n}
    <3>1. MeansOne(w, s, local, final, uuid)
      <4> HIDE DEF local, w, s
      <4> QED BY <2>2, <2>4, <2>6, <2>7, FinalizedMeansHere
    <3> HIDE DEF local, final, uuid, w, s
    <3> QED BY <3>1 DEF MeansOne
  <2>9. id = local \/ id = final
    <3>1. \/ id = -g
          \/ \E m \in Chain(early, s) : HoldsLocal(early[m], -g) /\ id = AllocatedFinal(early[m], -g)
      BY <2>2 DEF GoodIds
    <3>2. ASSUME NEW m \in Chain(early, s), HoldsLocal(early[m], local),
                 id = AllocatedFinal(early[m], local)
          PROVE  id = final
      <4> HIDE DEF local, t, early, s, id
      <4>1. m \in DOMAIN early /\ early[m].session = s /\ early \in Seq(Cluster) /\ t \in Seq(Cluster)
        BY <2>3, <2>4, <3>2 DEF Chain, TableInv
      <4>2. /\ m \in DOMAIN t /\ t[m].session = s /\ HoldsLocal(t[m], local)
            /\ AllocatedFinal(t[m], local) = AllocatedFinal(early[m], local)
        BY <2>3, <2>6, <3>2, <4>1, GrowsHolds
      <4>3. k \in DOMAIN t /\ HoldsLocal(t[k], local)
        BY <2>4, <2>6, <2>7, FinalizedIsHeld DEF Chain
      <4>4. m \in Chain(t, s)
        BY <4>2 DEF Chain
      <4>5. m = k
        BY <2>4, <2>6, <2>7, <4>2, <4>3, <4>4, LocalsDisjoint
      <4> QED BY <3>2, <4>2, <4>5
    <3> QED BY <3>1, <3>2
  <2> HIDE DEF final, w, local, id
  <2>10. NormalizeToSessionSpace(w, id, s) = {n}
    BY <2>8, <2>9
  <2> QED BY <2>6, <2>8, <2>10 DEF Means, w, id
<1> QED BY <1>1, IndInvHolds, PTL

(* A final ID that a client relays in an op means to whoever processes the op
   what it meant to the client, which need not have created it.            *)
THEOREM RelayedIdsHolds ==
    SessionsFarApart /\ SessionsFit => (Spec => []RelayedIdsKeepTheirMeaning)
<1> SUFFICES ASSUME SessionsFarApart, SessionsFit
             PROVE  Spec => []RelayedIdsKeepTheirMeaning
  OBVIOUS
<1>1. ASSUME IndInv PROVE RelayedIdsKeepTheirMeaning
  <2> SUFFICES ASSUME NEW c \in joined, NEW i \in Processed(c), NEW final \in log[i].relayed
               PROVE  \E uuid \in Decompress(compressors[log[i].range.session], final) :
                         Means(c, final, log[i].range.session, uuid)
    BY DEF RelayedIdsKeepTheirMeaning
  <2> DEFINE s == log[i].range.session
             w == compressors[c]
             v == compressors[s]
  <2>1. DocInv /\ c \in Clients
    BY <1>1, DocFacts DEF IndInv
  <2>2. /\ i \in 1..Len(log) /\ i \in Nat /\ s \in Sessions /\ s \in Clients
        /\ log[i] \in Ops /\ IsRange(log[i]) /\ GoodIds(log[i], i)
    BY <1>1, ProcessedOp, CapacityTypes
  <2>3. PICK j \in 0..(i - 1) : /\ j <= progress[s]
                                /\ HasFinalized(Replayed(j).clusters, final)
    BY <2>2 DEF GoodIds
  <2> DEFINE early == Replayed(j).clusters
  <2>4. final \in Int /\ j \in 0..i /\ j \in 0..Len(log) /\ progress[s] \in j..Len(log)
    <3>1. log[i].relayed \subseteq Nat
      BY <2>2, OpTypes
    <3> QED BY <2>1, <2>2, <2>3, <3>1, DocFacts
  <2>5. /\ TableInv(early) /\ early \in Seq(Cluster)
        /\ Grows(early, w.clusters) /\ Grows(early, v.clusters)
    <3>1. TableInv(early) /\ Grows(early, w.clusters)
      BY <1>1, <2>4, ProcessedOp
    <3>2. Grows(early, v.clusters)
      BY <2>1, <2>2, <2>4, HistoryTypes, ClientFacts
    <3> QED BY <3>1, <3>2 DEF TableInv
  <2>6. PICK k \in DOMAIN early : HoldsFinalizedLocal(early[k], AlignedLocal(early[k], final))
    BY <2>3 DEF HasFinalized
  <2> DEFINE local == AlignedLocal(early[k], final)
             u == early[k].session
             uuid == StableOf(u, local)
  <2>7. local \in LocalIds /\ local \in Int /\ AllocatedFinal(early[k], local) = final /\ u \in Sessions
    <3> HIDE DEF early
    <3>1. /\ early[k].baseLocal \in Int /\ early[k].baseLocal < 0 /\ early[k].baseFinal \in Int
          /\ u \in Sessions
      BY <2>5, TableTypes
    <3>2. local \in Int /\ AllocatedFinal(early[k], local) = final
      BY <2>4, <3>1 DEF AllocatedFinal, AlignedLocal, GenCount
    <3>3. local <= early[k].baseLocal
      BY <2>6 DEF HoldsFinalizedLocal
    <3> HIDE DEF local
    <3> QED BY <3>1, <3>2, <3>3 DEF LocalIds
  <2> HIDE DEF local
  <2>8. ASSUME NEW x \in Clients, Grows(early, compressors[x].clusters)
        PROVE  /\ \E n : /\ NormalizeToSessionSpace(compressors[x], final, s) = {n}
                         /\ Decompress(compressors[x], n) = {uuid}
                         /\ Recompress(compressors[x], uuid) = {n}
               /\ Decompress(compressors[x], final) = {uuid}
    <3> DEFINE y == compressors[x]
               t == y.clusters
    <3>1. CompressorInv(y) /\ Bounded(t) /\ t \in Seq(Cluster)
      BY <2>1, ClientFacts, CompressorFacts
    <3>2. /\ k \in Chain(t, u) /\ HoldsFinalizedLocal(t[k], local)
          /\ final = AllocatedFinal(t[k], local)
      <4> HIDE DEF early, t
      <4>1. HoldsFinalizedLocal(early[k], local)
        BY <2>6 DEF local
      <4>2. Grows(early, t)
        BY <2>8 DEF t
      <4> QED BY <2>5, <2>7, <3>1, <4>1, <4>2, GrowsHolds DEF Chain
    <3> HIDE DEF y, u, uuid
    <3>3. uuid = StableOf(u, local)
      BY DEF uuid
    <3>4. MeansOne(y, u, local, final, uuid)
      BY <2>7, <3>1, <3>2, <3>3, FinalizedMeansHere
    <3> HIDE DEF s
    <3>5. NormalizeToSessionSpace(y, final, s) = NormalizeToSessionSpace(y, final, u)
      BY <3>4 DEF MeansOne
    <3> QED BY <3>4, <3>5 DEF y, MeansOne
  <2>9. Decompress(v, final) = {uuid}
    BY <2>2, <2>5, <2>8
  <2>10. PICK n : /\ NormalizeToSessionSpace(w, final, s) = {n}
                  /\ Decompress(w, n) = {uuid}
                  /\ Recompress(w, uuid) = {n}
    BY <2>1, <2>5, <2>8
  <2>11. Means(c, final, s, uuid)
    <3> HIDE DEF uuid, s
    <3> QED BY <2>10 DEF Means
  <2> QED BY <2>9, <2>11
<1> QED BY <1>1, IndInvHolds, PTL

-----------------------------------------------------------------------------
(* A document keeps its promise. *)

(* The final ID and the UUID of a local ID in the k-th cluster. *)
Assignment(t, k, local) ==
    [final |-> AllocatedFinal(t[k], local), uuid |-> StableOf(t[k].session, local)]

IsReserved(t, k, local, a) ==
    k \in DOMAIN t /\ local \in LocalIds /\ HoldsLocal(t[k], local) /\ a = Assignment(t, k, local)

IsFinalizedIn(t, a) ==
    \E k \in DOMAIN t : \E local \in LocalIds :
        IsReserved(t, k, local, a) /\ HoldsFinalizedLocal(t[k], local)

IsEagerOf(w, a) ==
    \E k \in DOMAIN w.clusters : \E local \in LocalIds :
        /\ IsReserved(w.clusters, k, local, a)
        /\ ~HoldsFinalizedLocal(w.clusters[k], local)
        /\ w.clusters[k].session = w.sessionId
        /\ local \notin w.normalizer
        /\ -local <= w.generatedIdCount

AssignedBy(w) ==
    UNION {{[final |-> final, uuid |-> uuid] : uuid \in Decompress(w, final)} :
              final \in 0..(NextBaseFinal(w.clusters) - 1)}

FinalizedBy(w) ==
    {a \in AssignedBy(w) :
        \E i \in Search(w.clusters, a.final) :
            LET cluster == w.clusters[i] IN a.final < cluster.baseFinal + cluster.count}

EagerBy(w) == AssignedBy(w) \ FinalizedBy(w)

(* What follows for a reserved ID. *)
IsFoundAt(t, k, local, a) ==
    /\ t \in Seq(Cluster) /\ k \in DOMAIN t /\ t[k].session \in Sessions
    /\ local \in LocalIds /\ local \in Int /\ local < 0
    /\ HoldsLocal(t[k], local)
    /\ a.final = AllocatedFinal(t[k], local)
    /\ a.uuid = StableOf(t[k].session, local)
    /\ a.final \in Nat /\ ~(a.final < 0)
    /\ HoldsFinal(t[k], a.final)
    /\ Search(t, a.final) = {k}
    /\ AlignedLocal(t[k], a.final) = local
    /\ HoldsFinalizedLocal(t[k], local) <=> a.final < t[k].baseFinal + t[k].count

LEMMA ReservedFacts ==
    ASSUME NEW t, TableInv(t), NEW k, NEW local, NEW a, IsReserved(t, k, local, a)
    PROVE  IsFoundAt(t, k, local, a)
<1>1. t \in Seq(Cluster) /\ k \in DOMAIN t /\ local \in LocalIds /\ HoldsLocal(t[k], local)
      /\ local \in Int /\ local < 0
  BY DEF IsReserved, LocalIds, TableInv
<1> DEFINE final == AllocatedFinal(t[k], local)
<1>2. a.final = final /\ a.uuid = StableOf(t[k].session, local)
  BY DEF IsReserved, Assignment
<1>3. /\ final \in Nat /\ ~(final < 0) /\ HoldsFinal(t[k], final)
      /\ Search(t, final) = {k} /\ AlignedLocal(t[k], final) = local
  BY <1>1, FinalOfLocal
<1>4. HoldsFinalizedLocal(t[k], local) <=> t[k].baseFinal <= final /\ final < t[k].baseFinal + t[k].count
  BY <1>1, FinalizedTogether
<1>5. t[k].baseFinal <= final
  BY <1>3 DEF HoldsFinal
<1>6. t[k].session \in Sessions
  BY <1>1, TableTypes
<1>7. a.final = AllocatedFinal(t[k], local)
  BY <1>2
<1> HIDE DEF final
<1> QED BY <1>1, <1>2, <1>3, <1>4, <1>5, <1>6, <1>7 DEF IsFoundAt

LEMMA HeldBelowNextBase ==
    ASSUME NEW t, TableInv(t), NEW k \in DOMAIN t, NEW final \in Nat, HoldsFinal(t[k], final)
    PROVE  final \in 0..(NextBaseFinal(t) - 1)
<1> DEFINE n == Len(t)
<1>1. /\ t \in Seq(Cluster) /\ n \in Nat /\ k \in 1..n /\ n \in DOMAIN t /\ t # <<>>
      /\ k = n \/ k < n
  BY DEF TableInv
<1>2. /\ t[k].baseFinal \in Int /\ t[k].capacity \in Int
      /\ t[n].baseFinal \in Int /\ t[n].capacity \in Int /\ t[n].capacity > 0
  BY <1>1, TableTypes
<1>3. NextBaseFinal(t) = t[n].baseFinal + t[n].capacity
  BY <1>1 DEF NextBaseFinal
<1>4. final <= t[k].baseFinal + (t[k].capacity - 1)
  BY DEF HoldsFinal, MaxAllocatedFinal
<1>5. k = n \/ t[k].baseFinal + t[k].capacity <= t[n].baseFinal
  BY <1>1 DEF TableInv, FinalsOrdered
<1> DEFINE a == t[k].baseFinal
           b == t[k].capacity
           c == t[n].baseFinal
           d == t[n].capacity
<1>6. /\ a \in Int /\ b \in Int /\ c \in Int /\ d \in Int /\ d > 0
      /\ final <= a + (b - 1)
      /\ a + b <= c \/ a + b = c + d
  BY <1>2, <1>4, <1>5
<1> HIDE DEF a, b, c, d, n
<1>7. final \in 0..(c + d - 1)
  BY <1>6
<1>8. NextBaseFinal(t) = c + d /\ c + d - 1 = (c + d) - 1
  BY <1>3, <1>6 DEF c, d
<1> QED BY <1>7, <1>8

LEMMA AssignedMeans ==
    ASSUME NEW w, CompressorInv(w), NEW a
    PROVE  a \in AssignedBy(w) <=>
              \E k \in DOMAIN w.clusters : \E local \in LocalIds :
                 IsReserved(w.clusters, k, local, a) /\ MayDecompress(w, w.clusters[k], local)
<1> DEFINE t == w.clusters
<1>1. TableInv(t) /\ t \in Seq(Cluster)
  BY CompressorFacts
<1>2. ASSUME a \in AssignedBy(w)
      PROVE  \E k \in DOMAIN t : \E local \in LocalIds :
                 IsReserved(t, k, local, a) /\ MayDecompress(w, t[k], local)
  <2>1. PICK final \in 0..(NextBaseFinal(t) - 1) : \E uuid \in Decompress(w, final) :
              a = [final |-> final, uuid |-> uuid]
    BY <1>2 DEF AssignedBy
  <2>2. final \in Int /\ ~(final < 0)
    <3>1. NextBaseFinal(t) \in Nat
      BY <1>1, NextBaseFinalType
    <3> QED BY <3>1
  <2>3. PICK uuid \in Decompress(w, final) : a = [final |-> final, uuid |-> uuid]
    BY <2>1
  <2>4. PICK k \in Search(t, final) : /\ MayDecompress(w, t[k], AlignedLocal(t[k], final))
                                      /\ uuid = StableOf(t[k].session, AlignedLocal(t[k], final))
    BY <2>2, <2>3 DEF Decompress
  <2> DEFINE cluster == t[k]
             local == AlignedLocal(cluster, final)
  <2>5. k \in DOMAIN t /\ HoldsFinal(cluster, final) /\ cluster \in Cluster
    BY <1>1, <2>4, TableTypes DEF Search
  <2>6. local \in LocalIds /\ HoldsLocal(cluster, local) /\ AllocatedFinal(cluster, local) = final
    <3> HIDE DEF cluster
    <3> QED BY <2>2, <2>5, ClusterInverse
  <2> HIDE DEF local
  <2>7. a = Assignment(t, k, local)
    BY <2>3, <2>4, <2>6 DEF Assignment, local
  <2>8. MayDecompress(w, t[k], local)
    BY <2>4 DEF local
  <2> QED BY <2>5, <2>6, <2>7, <2>8 DEF IsReserved
<1>3. ASSUME NEW k \in DOMAIN t, NEW local \in LocalIds,
             IsReserved(t, k, local, a), MayDecompress(w, t[k], local)
      PROVE  a \in AssignedBy(w)
  <2> DEFINE final == a.final
             uuid == StableOf(t[k].session, local)
  <2>1. /\ final \in Nat /\ ~(final < 0) /\ HoldsFinal(t[k], final)
        /\ Search(t, final) = {k} /\ AlignedLocal(t[k], final) = local
    <3>1. IsFoundAt(t, k, local, a)
      BY <1>1, <1>3, ReservedFacts
    <3> QED BY <3>1 DEF IsFoundAt
  <2>2. a = [final |-> final, uuid |-> uuid]
    BY <1>3 DEF IsReserved, Assignment
  <2> HIDE DEF final
  <2>3. uuid \in Decompress(w, final)
    BY <1>3, <2>1 DEF Decompress
  <2>4. final \in 0..(NextBaseFinal(t) - 1)
    BY <1>1, <2>1, HeldBelowNextBase
  <2> HIDE DEF uuid
  <2> QED BY <2>2, <2>3, <2>4 DEF AssignedBy
<1> QED BY <1>2, <1>3

LEMMA FinalizedMeansIn ==
    ASSUME NEW w, CompressorInv(w), NEW a
    PROVE  a \in FinalizedBy(w) <=> IsFinalizedIn(w.clusters, a)
<1> DEFINE t == w.clusters
<1>1. TableInv(t)
  BY CompressorFacts
<1>2. ASSUME a \in FinalizedBy(w) PROVE IsFinalizedIn(t, a)
  <2>1. PICK k \in DOMAIN t : \E local \in LocalIds : IsReserved(t, k, local, a)
    BY <1>2, AssignedMeans DEF FinalizedBy
  <2>2. PICK local \in LocalIds : IsReserved(t, k, local, a)
    BY <2>1
  <2>3. /\ Search(t, a.final) = {k}
        /\ HoldsFinalizedLocal(t[k], local) <=> a.final < t[k].baseFinal + t[k].count
    <3>1. IsFoundAt(t, k, local, a)
      BY <1>1, <2>2, ReservedFacts
    <3> QED BY <3>1 DEF IsFoundAt
  <2>4. a.final < t[k].baseFinal + t[k].count
    BY <1>2, <2>3 DEF FinalizedBy
  <2> QED BY <2>2, <2>3, <2>4 DEF IsFinalizedIn
<1>3. ASSUME IsFinalizedIn(t, a) PROVE a \in FinalizedBy(w)
  <2>1. PICK k \in DOMAIN t : \E local \in LocalIds :
            IsReserved(t, k, local, a) /\ HoldsFinalizedLocal(t[k], local)
    BY <1>3 DEF IsFinalizedIn
  <2>2. PICK local \in LocalIds : IsReserved(t, k, local, a) /\ HoldsFinalizedLocal(t[k], local)
    BY <2>1
  <2>3. /\ Search(t, a.final) = {k} /\ local \in Int /\ t \in Seq(Cluster)
        /\ HoldsFinalizedLocal(t[k], local) <=> a.final < t[k].baseFinal + t[k].count
    <3>1. IsFoundAt(t, k, local, a)
      BY <1>1, <2>2, ReservedFacts
    <3> QED BY <3>1 DEF IsFoundAt
  <2>4. MayDecompress(w, t[k], local)
    <3>1. MaxLocal(t[k]) <= local /\ MaxLocal(t[k]) \in Int
      <4>1. t[k].baseLocal \in Int /\ t[k].count \in Int
        BY <2>3, TableTypes
      <4> QED BY <2>2, <4>1 DEF HoldsFinalizedLocal, MaxLocal
    <3> QED BY <2>3, <3>1 DEF MayDecompress
  <2>5. a \in AssignedBy(w)
    BY <2>2, <2>4, AssignedMeans
  <2> QED BY <2>2, <2>3, <2>5 DEF FinalizedBy
<1> QED BY <1>2, <1>3

LEMMA EagerMeans ==
    ASSUME NEW w, CompressorInv(w), NEW a
    PROVE  a \in EagerBy(w) <=> IsEagerOf(w, a)
<1> DEFINE t == w.clusters
<1>1. TableInv(t) /\ t \in Seq(Cluster)
  BY CompressorFacts
<1>2. \A k \in DOMAIN t : \A local \in LocalIds :
         HoldsLocal(t[k], local) /\ ~HoldsFinalizedLocal(t[k], local) => ~(local >= MaxLocal(t[k]))
  <2> TAKE k \in DOMAIN t
  <2> TAKE local \in LocalIds
  <2>1. MaxLocal(t[k]) \in Int /\ local \in Int
    <3>1. t[k].baseLocal \in Int /\ t[k].count \in Int
      BY <1>1, TableTypes
    <3> QED BY <3>1 DEF MaxLocal, LocalIds
  <2> QED BY <2>1 DEF HoldsLocal, HoldsFinalizedLocal
<1>3. ASSUME a \in EagerBy(w) PROVE IsEagerOf(w, a)
  <2>1. a \in AssignedBy(w) /\ ~IsFinalizedIn(t, a)
    BY <1>3, FinalizedMeansIn DEF EagerBy
  <2>2. PICK k \in DOMAIN t : \E local \in LocalIds :
            IsReserved(t, k, local, a) /\ MayDecompress(w, t[k], local)
    BY <2>1, AssignedMeans
  <2>3. PICK local \in LocalIds : IsReserved(t, k, local, a) /\ MayDecompress(w, t[k], local)
    BY <2>2
  <2>4. ~HoldsFinalizedLocal(t[k], local)
    BY <2>1, <2>3 DEF IsFinalizedIn
  <2>5. ~(local >= MaxLocal(t[k]))
    BY <1>2, <2>3, <2>4 DEF IsReserved
  <2> QED BY <2>3, <2>4, <2>5 DEF IsEagerOf, MayDecompress, GenCount
<1>4. ASSUME IsEagerOf(w, a) PROVE a \in EagerBy(w)
  <2>1. PICK k \in DOMAIN t : \E local \in LocalIds :
            /\ IsReserved(t, k, local, a)
            /\ ~HoldsFinalizedLocal(t[k], local)
            /\ t[k].session = w.sessionId
            /\ local \notin w.normalizer
            /\ -local <= w.generatedIdCount
    BY <1>4 DEF IsEagerOf
  <2>2. PICK local \in LocalIds :
            /\ IsReserved(t, k, local, a)
            /\ ~HoldsFinalizedLocal(t[k], local)
            /\ t[k].session = w.sessionId
            /\ local \notin w.normalizer
            /\ -local <= w.generatedIdCount
    BY <2>1
  <2>3. MayDecompress(w, t[k], local)
    BY <2>2 DEF MayDecompress, GenCount
  <2>4. a \in AssignedBy(w)
    BY <2>2, <2>3, AssignedMeans
  <2>5. ~(a.final < t[k].baseFinal + t[k].count) /\ Search(t, a.final) = {k}
    <3>1. IsFoundAt(t, k, local, a)
      BY <1>1, <2>2, ReservedFacts
    <3> QED BY <2>2, <3>1 DEF IsFoundAt
  <2> QED BY <2>4, <2>5 DEF EagerBy, FinalizedBy
<1> QED BY <1>3, <1>4

(* Assignments stay while the table grows. *)
LEMMA ReservedStays ==
    ASSUME NEW t \in Seq(Cluster), NEW u \in Seq(Cluster), Grows(t, u),
           NEW k, NEW local, NEW a, IsReserved(t, k, local, a)
    PROVE  /\ IsReserved(u, k, local, a)
           /\ u[k].session = t[k].session
           /\ HoldsFinalizedLocal(t[k], local) => HoldsFinalizedLocal(u[k], local)
<1>1. k \in DOMAIN t /\ local \in LocalIds /\ local \in Int /\ HoldsLocal(t[k], local)
      /\ a = Assignment(t, k, local)
  BY DEF IsReserved, LocalIds
<1>2. /\ k \in DOMAIN u /\ u[k].session = t[k].session /\ HoldsLocal(u[k], local)
      /\ HoldsFinalizedLocal(t[k], local) => HoldsFinalizedLocal(u[k], local)
      /\ AllocatedFinal(u[k], local) = AllocatedFinal(t[k], local)
  BY <1>1, GrowsHolds
<1> QED BY <1>1, <1>2 DEF IsReserved, Assignment

LEMMA FinalizedStays ==
    ASSUME NEW t \in Seq(Cluster), NEW u \in Seq(Cluster), Grows(t, u),
           NEW a, IsFinalizedIn(t, a)
    PROVE  IsFinalizedIn(u, a)
<1>1. PICK k \in DOMAIN t : \E local \in LocalIds :
          IsReserved(t, k, local, a) /\ HoldsFinalizedLocal(t[k], local)
  BY DEF IsFinalizedIn
<1>2. PICK local \in LocalIds : IsReserved(t, k, local, a) /\ HoldsFinalizedLocal(t[k], local)
  BY <1>1
<1>3. IsReserved(u, k, local, a) /\ HoldsFinalizedLocal(u[k], local)
  BY <1>2, ReservedStays
<1> QED BY <1>2, <1>3 DEF IsFinalizedIn, IsReserved

(* An assignment has one place in a table, by its final ID or its UUID. *)
LEMMA ReservedOnce ==
    ASSUME NEW t, TableInv(t), NEW k, NEW local, NEW a, IsReserved(t, k, local, a),
           NEW k2, NEW local2, NEW b, IsReserved(t, k2, local2, b), a.final = b.final
    PROVE  k2 = k /\ local2 = local /\ b = a
<1>1. IsFoundAt(t, k, local, a) /\ IsFoundAt(t, k2, local2, b)
  BY ReservedFacts
<1>2. k2 = k
  BY <1>1 DEF IsFoundAt
<1>3. local2 = local
  BY <1>1, <1>2 DEF IsFoundAt
<1> QED BY <1>2, <1>3 DEF IsReserved

LEMMA UuidsApart ==
    ASSUME SessionsFarApart, NEW s \in Sessions, NEW u \in Sessions,
           NEW g \in Int, NEW h \in Int, 1 <= g, g <= MaxGenerated, 1 <= h, h <= MaxGenerated,
           s + g - 1 = u + h - 1
    PROVE  s = u /\ g = h
<1>1. s \in Int /\ u \in Int /\ MaxGenerated \in Int
      /\ DefaultClusterCapacity \in AllCapacities /\ DefaultClusterCapacity \in Int
      /\ DefaultClusterCapacity > 0
  BY CapacityTypes DEF AllCapacities
<1>2. CASE s < u
  <2>1. s + MaxGenerated + DefaultClusterCapacity < u
    BY <1>1, <1>2 DEF SessionsFarApart
  <2> QED BY <1>1, <2>1
<1>3. CASE u < s
  <2>1. u + MaxGenerated + DefaultClusterCapacity < s
    BY <1>1, <1>3 DEF SessionsFarApart
  <2> QED BY <1>1, <2>1
<1>4. CASE u = s
  BY <1>1, <1>4
<1> QED BY <1>1, <1>2, <1>3, <1>4

IsPlaced(t, a) ==
    \E k \in DOMAIN t : \E local \in LocalIds :
        IsReserved(t, k, local, a) /\ -local <= MaxGenerated

LEMMA PlacedOneToOne ==
    ASSUME SessionsFarApart, NEW t, TableInv(t), NEW a, IsPlaced(t, a), NEW b, IsPlaced(t, b)
    PROVE  a.final = b.final <=> a.uuid = b.uuid
<1>1. PICK k \in DOMAIN t : \E local \in LocalIds :
          IsReserved(t, k, local, a) /\ -local <= MaxGenerated
  BY DEF IsPlaced
<1>2. PICK local \in LocalIds : IsReserved(t, k, local, a) /\ -local <= MaxGenerated
  BY <1>1
<1>3. PICK k2 \in DOMAIN t : \E l \in LocalIds : IsReserved(t, k2, l, b) /\ -l <= MaxGenerated
  BY DEF IsPlaced
<1>4. PICK local2 \in LocalIds : IsReserved(t, k2, local2, b) /\ -local2 <= MaxGenerated
  BY <1>3
<1>5. ASSUME a.final = b.final PROVE a.uuid = b.uuid
  BY <1>2, <1>4, <1>5, ReservedOnce
<1>6. ASSUME a.uuid = b.uuid PROVE a.final = b.final
  <2>1. IsFoundAt(t, k, local, a) /\ IsFoundAt(t, k2, local2, b)
    BY <1>2, <1>4, ReservedFacts
  <2> DEFINE g == -local
             h == -local2
             s == t[k].session
             u == t[k2].session
  <2>2. /\ g \in Int /\ h \in Int /\ 1 <= g /\ 1 <= h /\ g <= MaxGenerated /\ h <= MaxGenerated
        /\ s \in Sessions /\ u \in Sessions
    BY <1>2, <1>4, <2>1 DEF IsFoundAt
  <2>3. s + g - 1 = u + h - 1
    BY <1>6, <2>1 DEF IsFoundAt, StableOf, GenCount
  <2>4. s = u /\ g = h
    <3> HIDE DEF s, u, g, h
    <3> QED BY <2>2, <2>3, UuidsApart
  <2>5. local = local2
    BY <2>1, <2>4 DEF IsFoundAt
  <2>6. k \in Chain(t, s) /\ k2 \in Chain(t, s)
    BY <2>4 DEF Chain
  <2>7. HoldsLocal(t[k], local) /\ HoldsLocal(t[k2], local) /\ local \in Int
    BY <2>1, <2>5 DEF IsFoundAt
  <2>8. k2 = k
    <3> HIDE DEF s
    <3> QED BY <2>6, <2>7, LocalsDisjoint
  <2> QED BY <2>1, <2>5, <2>8 DEF IsFoundAt
<1> QED BY <1>5, <1>6

(* The whole history's table. *)
LastTable == Replayed(Len(log)).clusters

LEMMA LastTableFacts ==
    ASSUME IndInv
    PROVE  /\ TableInv(LastTable) /\ LastTable \in Seq(Cluster)
           /\ \A c \in Clients : /\ TableInv(compressors[c].clusters)
                                 /\ compressors[c].clusters \in Seq(Cluster)
                                 /\ CompressorInv(compressors[c])
                                 /\ compressors[c].sessionId = c
                                 /\ Grows(compressors[c].clusters, LastTable)
                                 /\ NextBase(LastTable, c) <= compressors[c].generatedIdCount + 1
                                 /\ NextBase(LastTable, c) <= MaxGenerated + 1
                                 /\ NextBase(LastTable, c) \in Int
                                 /\ compressors[c].generatedIdCount <= MaxGenerated
                                 /\ compressors[c].generatedIdCount \in Nat
<1>1. DocInv /\ Len(log) \in Nat /\ Len(log) \in 0..Len(log)
  BY DocFacts DEF IndInv
<1>2. TableInv(LastTable) /\ LastTable \in Seq(Cluster)
  BY <1>1, HistoryTypes DEF LastTable
<1>3. ASSUME NEW c \in Clients
      PROVE  /\ TableInv(compressors[c].clusters)
             /\ compressors[c].clusters \in Seq(Cluster)
             /\ CompressorInv(compressors[c])
             /\ compressors[c].sessionId = c
             /\ Grows(compressors[c].clusters, LastTable)
             /\ NextBase(LastTable, c) <= compressors[c].generatedIdCount + 1
             /\ NextBase(LastTable, c) <= MaxGenerated + 1
             /\ NextBase(LastTable, c) \in Int
             /\ compressors[c].generatedIdCount <= MaxGenerated
             /\ compressors[c].generatedIdCount \in Nat
  <2>1. /\ CompressorInv(compressors[c]) /\ c \in Sessions
        /\ compressors[c].sessionId = c
        /\ compressors[c].clusters = Replayed(progress[c]).clusters
        /\ progress[c] \in 0..Len(log) /\ progress[c] \in Nat
        /\ compressors[c].generatedIdCount <= MaxGenerated
        /\ compressors[c].generatedIdCount \in Nat
    BY <1>1, ClientFacts
  <2>2. Len(log) \in progress[c]..Len(log)
    BY <1>1, <2>1
  <2>3. Grows(compressors[c].clusters, LastTable)
    BY <1>1, <2>1, <2>2, HistoryTypes DEF LastTable
  <2>4. /\ NextBase(LastTable, c) <= compressors[c].generatedIdCount + 1
        /\ NextBase(LastTable, c) <= MaxGenerated + 1
    BY <1>1, HistoryBounded DEF LastTable
  <2>5. NextBase(LastTable, c) \in Int
    BY <1>2, <2>1, NextBaseType
  <2> QED BY <2>1, <2>3, <2>4, <2>5, CompressorFacts
<1> QED BY <1>2, <1>3

(* A finalized ID is within what its session may generate. *)
LEMMA FinalizedIsBelow ==
    ASSUME NEW t, TableInv(t), NEW k, NEW local, NEW a, IsReserved(t, k, local, a),
           HoldsFinalizedLocal(t[k], local)
    PROVE  t[k].session \in Sessions /\ -local \in Int /\ -local < NextBase(t, t[k].session)
<1>1. IsFoundAt(t, k, local, a)
  BY ReservedFacts
<1> DEFINE s == t[k].session
<1>2. s \in Sessions /\ k \in Chain(t, s) /\ local \in Int
  BY <1>1 DEF IsFoundAt, Chain
<1>3. GenCount(MaxLocal(t[k])) \in Int /\ GenCount(MaxLocal(t[k])) < NextBase(t, s)
  <2> HIDE DEF s
  <2> QED BY <1>2, FinalizedBelowNext
<1>4. MaxLocal(t[k]) \in Int /\ MaxLocal(t[k]) <= local
  <2>1. t[k].baseLocal \in Int /\ t[k].count \in Int
    BY <1>1, TableTypes DEF IsFoundAt
  <2> QED BY <2>1 DEF MaxLocal, HoldsFinalizedLocal
<1>5. NextBase(t, s) \in Int
  <2> HIDE DEF s
  <2> QED BY <1>2, NextBaseType
<1> DEFINE max == MaxLocal(t[k])
           next == NextBase(t, s)
<1>6. max \in Int /\ max <= local /\ -max < next /\ next \in Int
  BY <1>3, <1>4, <1>5 DEF GenCount
<1> HIDE DEF max, next
<1>7. -local \in Int /\ -local < next
  BY <1>2, <1>6
<1> QED BY <1>2, <1>7 DEF next

LEMMA AssignedIsPlaced ==
    ASSUME IndInv, NEW c \in Clients, NEW a \in AssignedBy(compressors[c])
    PROVE  IsPlaced(LastTable, a)
<1> DEFINE w == compressors[c]
           t == w.clusters
<1>1. /\ CompressorInv(w) /\ TableInv(t) /\ t \in Seq(Cluster) /\ Grows(t, LastTable)
      /\ TableInv(LastTable) /\ LastTable \in Seq(Cluster)
      /\ w.generatedIdCount <= MaxGenerated /\ w.generatedIdCount \in Nat
  BY LastTableFacts
<1>2. MaxGenerated \in Int
  BY CapacityTypes
<1>3. CASE a \in FinalizedBy(w)
  <2>1. IsFinalizedIn(LastTable, a)
    BY <1>1, <1>3, FinalizedMeansIn, FinalizedStays
  <2>2. PICK k \in DOMAIN LastTable : \E local \in LocalIds :
            IsReserved(LastTable, k, local, a) /\ HoldsFinalizedLocal(LastTable[k], local)
    BY <2>1 DEF IsFinalizedIn
  <2>3. PICK local \in LocalIds :
            IsReserved(LastTable, k, local, a) /\ HoldsFinalizedLocal(LastTable[k], local)
    BY <2>2
  <2> DEFINE s == LastTable[k].session
  <2>4. s \in Sessions /\ -local \in Int /\ -local < NextBase(LastTable, s)
    BY <1>1, <2>3, FinalizedIsBelow
  <2>5. NextBase(LastTable, s) \in Int /\ NextBase(LastTable, s) <= MaxGenerated + 1
    BY <2>4, LastTableFacts, CapacityTypes
  <2>6. -local <= MaxGenerated
    <3> DEFINE g == -local
               b == NextBase(LastTable, s)
    <3>1. g \in Int /\ g < b /\ b \in Int /\ b <= MaxGenerated + 1
      BY <2>4, <2>5
    <3> HIDE DEF g, b
    <3>2. g <= MaxGenerated
      BY <1>2, <3>1
    <3> QED BY <3>2 DEF g
  <2> QED BY <2>3, <2>6 DEF IsPlaced, IsReserved
<1>4. CASE a \notin FinalizedBy(w)
  <2>1. IsEagerOf(w, a)
    BY <1>1, <1>4, EagerMeans DEF EagerBy
  <2>2. PICK k \in DOMAIN t : \E local \in LocalIds :
            IsReserved(t, k, local, a) /\ -local <= w.generatedIdCount
    BY <2>1 DEF IsEagerOf
  <2>3. PICK local \in LocalIds : IsReserved(t, k, local, a) /\ -local <= w.generatedIdCount
    BY <2>2
  <2>4. IsReserved(LastTable, k, local, a)
    BY <1>1, <2>3, ReservedStays
  <2>5. -local <= MaxGenerated
    BY <1>1, <1>2, <2>3 DEF LocalIds
  <2> QED BY <2>4, <2>5 DEF IsPlaced, IsReserved
<1> QED BY <1>3, <1>4

(* The ledger's variables in terms of one compressor each. *)
LEMMA LedgerView ==
    ASSUME NEW c
    PROVE  /\ Assigned(c) = AssignedBy(compressors[c])
           /\ Finalized(c) = FinalizedBy(compressors[c])
           /\ Assigned(c) \ Finalized(c) = EagerBy(compressors[c])
<1>1. Assigned(c) = AssignedBy(compressors[c])
  BY DEF Assigned, AssignedBy
<1>2. Finalized(c) = FinalizedBy(compressors[c])
  BY <1>1 DEF Finalized, FinalizedBy
<1> QED BY <1>1, <1>2 DEF EagerBy

LEMMA LedgerViewNext ==
    ASSUME NEW c
    PROVE  /\ Finalized(c)' = FinalizedBy(compressors'[c])
           /\ (Assigned(c) \ Finalized(c))' = EagerBy(compressors'[c])
<1>1. Assigned(c)' = AssignedBy(compressors'[c])
  BY DEF Assigned, AssignedBy, Decompress, MayDecompress
<1>2. Finalized(c)' = FinalizedBy(compressors'[c])
  BY <1>1 DEF Finalized, FinalizedBy
<1> QED BY <1>1, <1>2 DEF EagerBy

LEMMA LedgerStutters ==
    ASSUME joined' = joined,
           \A c \in Clients : /\ EagerBy(compressors'[c]) = EagerBy(compressors[c])
                              /\ FinalizedBy(compressors'[c]) = FinalizedBy(compressors[c])
    PROVE  UNCHANGED Promise!vars
BY LedgerView, LedgerViewNext DEF Promise!vars

LEMMA LedgerIssues ==
    ASSUME joined \subseteq Clients, joined' = joined, NEW c \in joined, NEW a,
           \A b \in joined : a \notin AssignedBy(compressors[b]),
           EagerBy(compressors'[c]) = EagerBy(compressors[c]) \cup {a},
           FinalizedBy(compressors'[c]) = FinalizedBy(compressors[c]),
           \A x \in Clients \ {c} : compressors'[x] = compressors[x]
    PROVE  Promise!Issue(c)
<1>1. c \in Clients
  OBVIOUS
<1>2. \A x \in Clients : 
         /\ Finalized(x)' = Finalized(x)
         /\ x # c => (Assigned(x) \ Finalized(x))' = Assigned(x) \ Finalized(x)
  BY LedgerView, LedgerViewNext
<1>3. (Assigned(c) \ Finalized(c))' = (Assigned(c) \ Finalized(c)) \cup {a}
  BY LedgerView, LedgerViewNext
<1>4. a \notin Promise!Assignments
  <2>1. \A b \in joined : a \notin (Assigned(b) \ Finalized(b)) /\ a \notin Finalized(b)
    BY LedgerView DEF EagerBy, FinalizedBy
  <2> QED BY <2>1 DEF Promise!Assignments
<1>5. a \in (Assigned(c) \ Finalized(c))'
  BY <1>3
<1> DEFINE eager == [x \in Clients |-> Assigned(x) \ Finalized(x)]
           finalized == [x \in Clients |-> Finalized(x)]
<1>6. eager' = [eager EXCEPT ![c] = @ \cup {a}]
  BY <1>1, <1>2, <1>3
<1>7. finalized' = finalized
  BY <1>2
<1>8. a \in (eager')[c]
  BY <1>1, <1>5
<1> QED BY <1>4, <1>6, <1>7, <1>8 DEF Promise!Issue

LEMMA LedgerHears ==
    ASSUME joined \subseteq Clients, joined' = joined, NEW c \in joined,
           FinalizedBy(compressors[c]) \subseteq FinalizedBy(compressors'[c]),
           \A b \in joined : \/ FinalizedBy(compressors'[c]) \subseteq FinalizedBy(compressors[b])
                            \/ FinalizedBy(compressors[b]) \subseteq FinalizedBy(compressors'[c]),
           EagerBy(compressors'[c]) = EagerBy(compressors[c]) \ FinalizedBy(compressors'[c]),
           \A x \in Clients \ {c} : compressors'[x] = compressors[x]
    PROVE  Promise!Hear(c)
<1> DEFINE eager == [x \in Clients |-> Assigned(x) \ Finalized(x)]
           finalized == [x \in Clients |-> Finalized(x)]
<1>1. c \in Clients
  OBVIOUS
<1>2. \A x \in Clients \ {c} : /\ Finalized(x)' = Finalized(x)
                              /\ (Assigned(x) \ Finalized(x))' = Assigned(x) \ Finalized(x)
  BY LedgerView, LedgerViewNext
<1>3. (Assigned(c) \ Finalized(c))' = (Assigned(c) \ Finalized(c)) \ Finalized(c)'
  BY LedgerView, LedgerViewNext
<1>4. /\ Finalized(c) \subseteq Finalized(c)'
      /\ \A b \in joined : Finalized(c)' \subseteq Finalized(b) \/ Finalized(b) \subseteq Finalized(c)'
  BY LedgerView, LedgerViewNext
<1>5. finalized' = [finalized EXCEPT ![c] = (finalized')[c]]
  BY <1>1, <1>2
<1>6. eager' = [eager EXCEPT ![c] = @ \ (finalized')[c]]
  BY <1>1, <1>2, <1>3
<1>7. /\ finalized[c] \subseteq (finalized')[c]
      /\ \A b \in joined : (finalized')[c] \subseteq finalized[b] \/ finalized[b] \subseteq (finalized')[c]
  BY <1>1, <1>4
<1> QED BY <1>5, <1>6, <1>7 DEF Promise!Hear

LEMMA LedgerOpens ==
    ASSUME joined \subseteq Clients, NEW c \in Clients, NEW writer \in joined,
           joined' = joined \cup {c},
           FinalizedBy(compressors'[c]) = FinalizedBy(compressors[writer]),
           EagerBy(compressors'[c]) = EagerBy(compressors[c]),
           \A x \in Clients \ {c} : compressors'[x] = compressors[x]
    PROVE  Promise!Open(c, writer)
<1> DEFINE eager == [x \in Clients |-> Assigned(x) \ Finalized(x)]
           finalized == [x \in Clients |-> Finalized(x)]
<1>1. \A x \in Clients : /\ x # c => Finalized(x)' = Finalized(x)
                        /\ (Assigned(x) \ Finalized(x))' = Assigned(x) \ Finalized(x)
  BY LedgerView, LedgerViewNext
<1>2. Finalized(c)' = Finalized(writer)
  BY LedgerView, LedgerViewNext
<1>3. eager' = eager
  BY <1>1
<1>4. finalized' = [finalized EXCEPT ![c] = finalized[writer]]
  BY <1>1, <1>2
<1> QED BY <1>3, <1>4 DEF Promise!Open

-----------------------------------------------------------------------------
(* What compressors with the same clusters have heard of is the same. *)
LEMMA SameFinalized ==
    ASSUME NEW w, CompressorInv(w), NEW d, CompressorInv(d), d.clusters = w.clusters
    PROVE  FinalizedBy(d) = FinalizedBy(w)
<1>1. \A a : a \in FinalizedBy(d) <=> IsFinalizedIn(d.clusters, a)
  BY FinalizedMeansIn
<1>2. \A a : a \in FinalizedBy(w) <=> IsFinalizedIn(w.clusters, a)
  BY FinalizedMeansIn
<1>3. \A a : a \in FinalizedBy(d) <=> a \in FinalizedBy(w)
  BY <1>1, <1>2
<1> QED BY <1>3

(* An ID that is not final changes no assignment. *)
LEMMA LocalAssignsNothing ==
    ASSUME NEW w, CompressorInv(w), ~IsNextEager(w), NEW d, d = GenerateNextId(w)
    PROVE  FinalizedBy(d) = FinalizedBy(w) /\ EagerBy(d) = EagerBy(w)
<1> DEFINE t == w.clusters
           n == w.generatedIdCount + 1
<1>1. /\ CompressorInv(d) /\ d.clusters = t /\ d.sessionId = w.sessionId
      /\ d.generatedIdCount = n
  BY GenerateEffect
<1>2. d.normalizer = w.normalizer \cup {-n}
  <2>1. w \in Compressors
    BY CompressorFacts
  <2> QED BY <2>1 DEF GenerateNextId, NextId, NextGenCount, Compressors
<1>3. w.generatedIdCount \in Nat
  BY CompressorFacts
<1>4. \A local \in LocalIds :
         local \notin d.normalizer /\ -local <= n
            <=> local \notin w.normalizer /\ -local <= w.generatedIdCount
  <2> TAKE local \in LocalIds
  <2> DEFINE g == w.generatedIdCount
  <2>1. g \in Nat /\ n = g + 1 /\ local \in Int
    BY <1>3 DEF LocalIds
  <2> HIDE DEF g, n
  <2>2. (-local <= n /\ local # -n) <=> -local <= g
    BY <2>1
  <2>3. local \notin d.normalizer <=> local \notin w.normalizer /\ local # -n
    BY <1>2
  <2>4. local \notin d.normalizer /\ -local <= n <=> local \notin w.normalizer /\ -local <= g
    BY <2>2, <2>3
  <2> QED BY <2>4 DEF g
<1> HIDE DEF n
<1>5. \A a : IsEagerOf(d, a) <=> IsEagerOf(w, a)
  BY <1>1, <1>4 DEF IsEagerOf
<1>6. \A a : a \in EagerBy(d) <=> a \in EagerBy(w)
  BY <1>1, <1>5, EagerMeans
<1> QED BY <1>1, <1>6, SameFinalized

(* An eager final ID is one new assignment. *)
LEMMA EagerAssigns ==
    ASSUME NEW w, CompressorInv(w), IsNextEager(w), NEW d, d = GenerateNextId(w),
           NEW n, n = w.generatedIdCount + 1,
           NEW k, k = TailIndex(w.clusters, w.sessionId),
           NEW a, a = Assignment(w.clusters, k, -n)
    PROVE  /\ IsReserved(w.clusters, k, -n, a)
           /\ w.clusters[k].session = w.sessionId
           /\ FinalizedBy(d) = FinalizedBy(w)
           /\ EagerBy(d) = EagerBy(w) \cup {a}
<1> DEFINE t == w.clusters
           s == w.sessionId
           g == w.generatedIdCount
           l == -n
<1>1. /\ CompressorInv(d) /\ d.clusters = t /\ d.sessionId = s /\ d.generatedIdCount = n
  BY GenerateEffect
<1>2. d.normalizer = w.normalizer
  <2>1. w \in Compressors
    BY CompressorFacts
  <2> QED BY <2>1 DEF GenerateNextId, Compressors
<1>3. /\ TableInv(t) /\ t \in Seq(Cluster) /\ g \in Nat /\ s \in Sessions
      /\ NextBase(t, s) \in Int /\ NextBase(t, s) <= n
      /\ w.normalizer \subseteq {-x : x \in 1..g}
  BY CompressorFacts, NextBaseType DEF CompressorInv
<1>4. k \in Chain(t, s) /\ HoldsLocal(t[k], l)
  BY EagerIsReserved
<1>5. /\ n = g + 1 /\ n \in Int /\ l \in Int /\ l \in LocalIds /\ -l = n
      /\ l \notin w.normalizer
  BY <1>3 DEF LocalIds
<1>6. IsReserved(t, k, l, a) /\ t[k].session = s
  BY <1>4, <1>5 DEF IsReserved, Chain
<1>7. ~HoldsFinalizedLocal(t[k], l)
  <2> SUFFICES ASSUME HoldsFinalizedLocal(t[k], l) PROVE FALSE
    OBVIOUS
  <2>1. -l < NextBase(t, s)
    BY <1>3, <1>6, FinalizedIsBelow
  <2> DEFINE b == NextBase(t, s)
  <2>2. b \in Int /\ b <= n /\ n < b
    BY <1>3, <1>5, <2>1
  <2> HIDE DEF b
  <2> QED BY <1>5, <2>2
<1>8. \A local \in LocalIds : -local <= n <=> -local <= g \/ local = l
  <2> TAKE local \in LocalIds
  <2>1. local \in Int /\ g \in Int
    BY <1>3 DEF LocalIds
  <2> HIDE DEF g
  <2> QED BY <1>5, <2>1
<1> HIDE DEF l, g
<1>9. ASSUME NEW b PROVE IsEagerOf(d, b) <=> IsEagerOf(w, b) \/ b = a
  <2>1. ASSUME IsEagerOf(w, b) PROVE IsEagerOf(d, b)
    BY <1>1, <1>2, <1>8, <2>1 DEF IsEagerOf, g
  <2>2. ASSUME b = a PROVE IsEagerOf(d, b)
    <3>1. k \in DOMAIN t /\ l \in LocalIds /\ -l <= n
      BY <1>5, <1>6 DEF IsReserved
    <3> QED BY <1>1, <1>2, <1>5, <1>6, <1>7, <2>2, <3>1 DEF IsEagerOf
  <2>3. ASSUME IsEagerOf(d, b), b # a PROVE IsEagerOf(w, b)
    <3>1. PICK k2 \in DOMAIN t : \E local \in LocalIds :
              /\ IsReserved(t, k2, local, b)
              /\ ~HoldsFinalizedLocal(t[k2], local)
              /\ t[k2].session = s
              /\ local \notin w.normalizer
              /\ -local <= n
      BY <1>1, <1>2, <2>3 DEF IsEagerOf
    <3>2. PICK local \in LocalIds :
              /\ IsReserved(t, k2, local, b)
              /\ ~HoldsFinalizedLocal(t[k2], local)
              /\ t[k2].session = s
              /\ local \notin w.normalizer
              /\ -local <= n
      BY <3>1
    <3>3. local # l
      <4> SUFFICES ASSUME local = l PROVE FALSE
        OBVIOUS
      <4>1. k2 \in Chain(t, s) /\ HoldsLocal(t[k2], l)
        BY <3>2 DEF Chain, IsReserved
      <4>2. k2 = k
        BY <1>3, <1>4, <1>5, <4>1, LocalsDisjoint
      <4> QED BY <1>6, <2>3, <3>2, <4>2 DEF IsReserved
    <3>4. -local <= g
      BY <1>8, <3>2, <3>3
    <3> QED BY <3>2, <3>4 DEF IsEagerOf, g
  <2> QED BY <2>1, <2>2, <2>3
<1>10. \A b : b \in EagerBy(d) <=> b \in EagerBy(w) \/ b = a
  BY <1>1, <1>9, EagerMeans
<1>11. EagerBy(d) = EagerBy(w) \cup {a}
  BY <1>10
<1> QED BY <1>1, <1>6, <1>11, SameFinalized DEF l

(* Claims turn eager assignments into finalized ones and change none. *)
LEMMA ClaimsFinalize ==
    ASSUME NEW w, CompressorInv(w), NEW d, CompressorInv(d), Grows(w.clusters, d.clusters),
           d.sessionId = w.sessionId, d.generatedIdCount = w.generatedIdCount,
           d.normalizer = w.normalizer
    PROVE  /\ FinalizedBy(w) \subseteq FinalizedBy(d)
           /\ EagerBy(d) = EagerBy(w) \ FinalizedBy(d)
<1> DEFINE t == w.clusters
           u == d.clusters
           s == w.sessionId
<1>1. TableInv(t) /\ TableInv(u) /\ t \in Seq(Cluster) /\ u \in Seq(Cluster) /\ Grows(t, u)
  BY CompressorFacts
<1>2. ASSUME NEW a \in FinalizedBy(w) PROVE a \in FinalizedBy(d)
  BY <1>1, FinalizedMeansIn, FinalizedStays
<1>3. ASSUME NEW a \in EagerBy(w), a \notin FinalizedBy(d) PROVE a \in EagerBy(d)
  <2>1. IsEagerOf(w, a) /\ ~IsFinalizedIn(u, a)
    BY <1>3, EagerMeans, FinalizedMeansIn
  <2>2. PICK k \in DOMAIN t : \E local \in LocalIds :
            /\ IsReserved(t, k, local, a)
            /\ t[k].session = s
            /\ local \notin w.normalizer
            /\ -local <= w.generatedIdCount
    BY <2>1 DEF IsEagerOf
  <2>3. PICK local \in LocalIds :
            /\ IsReserved(t, k, local, a)
            /\ t[k].session = s
            /\ local \notin w.normalizer
            /\ -local <= w.generatedIdCount
    BY <2>2
  <2>4. IsReserved(u, k, local, a) /\ u[k].session = s
    BY <1>1, <2>3, ReservedStays
  <2>5. ~HoldsFinalizedLocal(u[k], local) /\ k \in DOMAIN u
    BY <2>1, <2>4 DEF IsFinalizedIn, IsReserved
  <2>6. IsEagerOf(d, a)
    BY <2>3, <2>4, <2>5 DEF IsEagerOf
  <2> QED BY <2>6, EagerMeans
<1>4. ASSUME NEW a \in EagerBy(d) PROVE a \in EagerBy(w) /\ a \notin FinalizedBy(d)
  <2>1. IsEagerOf(d, a) /\ a \notin FinalizedBy(d)
    BY <1>4, EagerMeans DEF EagerBy
  <2>2. PICK k \in DOMAIN u : \E local \in LocalIds :
            /\ IsReserved(u, k, local, a)
            /\ ~HoldsFinalizedLocal(u[k], local)
            /\ u[k].session = s
            /\ local \notin w.normalizer
            /\ -local <= w.generatedIdCount
    BY <2>1 DEF IsEagerOf
  <2>3. PICK local \in LocalIds :
            /\ IsReserved(u, k, local, a)
            /\ ~HoldsFinalizedLocal(u[k], local)
            /\ u[k].session = s
            /\ local \notin w.normalizer
            /\ -local <= w.generatedIdCount
    BY <2>2
  <2>4. PICK i \in Chain(t, s) : HoldsLocal(t[i], local)
    <3>1. w.generatedIdCount \in Nat /\ \A g \in 1..w.generatedIdCount : Held(w, g)
      BY CompressorFacts DEF CompressorInv
    <3> DEFINE g == -local
               max == w.generatedIdCount
    <3>2. g \in 1..max /\ -g = local
      <4>1. local \in Int /\ local < 0 /\ -local <= max /\ max \in Nat
        BY <2>3, <3>1 DEF LocalIds
      <4> HIDE DEF max
      <4> QED BY <4>1
    <3> HIDE DEF g
    <3>3. Held(w, g)
      BY <3>1, <3>2
    <3> QED BY <2>3, <3>2, <3>3 DEF Held
  <2> DEFINE b == Assignment(t, i, local)
  <2>5. IsReserved(t, i, local, b) /\ t[i].session = s /\ i \in DOMAIN t
    BY <2>4 DEF IsReserved, Chain
  <2> HIDE DEF b
  <2>6. /\ IsReserved(u, i, local, b) /\ u[i].session = s
        /\ HoldsFinalizedLocal(t[i], local) => HoldsFinalizedLocal(u[i], local)
    BY <1>1, <2>5, ReservedStays
  <2>7. i = k
    <3>1. i \in Chain(u, s) /\ k \in Chain(u, s) /\ HoldsLocal(u[i], local)
          /\ HoldsLocal(u[k], local) /\ local \in Int
      BY <2>3, <2>6 DEF Chain, IsReserved, LocalIds
    <3> HIDE DEF u, s
    <3> QED BY <1>1, <3>1, LocalsDisjoint
  <2>8. b = a
    BY <2>3, <2>6, <2>7 DEF IsReserved
  <2>9. ~HoldsFinalizedLocal(t[i], local)
    BY <2>3, <2>6, <2>7
  <2>10. IsEagerOf(w, a)
    BY <2>3, <2>5, <2>8, <2>9 DEF IsEagerOf
  <2> QED BY <2>1, <2>10, EagerMeans
<1> QED BY <1>2, <1>3, <1>4

(* A compressor that has generated nothing has assigned nothing on its own. *)
LEMMA NothingEager ==
    ASSUME NEW w, CompressorInv(w), w.generatedIdCount = 0
    PROVE  EagerBy(w) = {}
<1>1. \A a : ~IsEagerOf(w, a)
  BY DEF IsEagerOf, LocalIds
<1> QED BY <1>1, EagerMeans

(* A new client's compressor has no assignments at all. *)
LEMMA NothingAssigned ==
    ASSUME NEW w, CompressorInv(w), w.clusters = <<>>
    PROVE  EagerBy(w) = {} /\ FinalizedBy(w) = {}
<1>1. \A a : a \notin AssignedBy(w)
  BY AssignedMeans
<1> QED BY <1>1 DEF EagerBy, FinalizedBy

(* An eager final ID is new to everyone. *)
LEMMA EagerIsNew ==
    ASSUME IndInv, NEW c \in Clients, NEW w, w = compressors[c], IsNextEager(w),
           NEW n, n = w.generatedIdCount + 1, NEW k, NEW a,
           IsReserved(w.clusters, k, -n, a), w.clusters[k].session = c,
           NEW b \in Clients
    PROVE  a \notin AssignedBy(compressors[b])
<1> DEFINE v == compressors[b]
           t == LastTable
           l == -n
<1>1. /\ TableInv(t) /\ t \in Seq(Cluster)
      /\ w.clusters \in Seq(Cluster) /\ Grows(w.clusters, t)
      /\ v.clusters \in Seq(Cluster) /\ Grows(v.clusters, t)
      /\ CompressorInv(w) /\ CompressorInv(v) /\ v.sessionId = b
      /\ w.generatedIdCount \in Nat
      /\ NextBase(t, c) \in Int /\ NextBase(t, c) <= n
  BY LastTableFacts
<1>2. n \in Int /\ l \in Int /\ -l = n
  BY <1>1
<1> HIDE DEF t
<1>3. IsReserved(t, k, l, a) /\ t[k].session = c
  BY <1>1, ReservedStays
<1>4. ~HoldsFinalizedLocal(t[k], l)
  <2> SUFFICES ASSUME HoldsFinalizedLocal(t[k], l) PROVE FALSE
    OBVIOUS
  <2>1. -l < NextBase(t, c)
    BY <1>1, <1>3, FinalizedIsBelow
  <2> DEFINE base == NextBase(t, c)
  <2>2. base \in Int /\ base <= n /\ n < base
    BY <1>1, <1>2, <2>1
  <2> HIDE DEF base
  <2> QED BY <1>2, <2>2
<1> HIDE DEF v, l
<1>5. a \notin FinalizedBy(v)
  <2> SUFFICES ASSUME a \in FinalizedBy(v) PROVE FALSE
    OBVIOUS
  <2>1. IsFinalizedIn(t, a)
    BY <1>1, FinalizedMeansIn, FinalizedStays
  <2>2. PICK k2 \in DOMAIN t : \E local \in LocalIds :
            IsReserved(t, k2, local, a) /\ HoldsFinalizedLocal(t[k2], local)
    BY <2>1 DEF IsFinalizedIn
  <2>3. PICK local \in LocalIds : IsReserved(t, k2, local, a) /\ HoldsFinalizedLocal(t[k2], local)
    BY <2>2
  <2>4. k2 = k /\ local = l
    BY <1>1, <1>3, <2>3, ReservedOnce
  <2> QED BY <1>4, <2>3, <2>4
<1>6. a \notin EagerBy(v)
  <2> SUFFICES ASSUME a \in EagerBy(v) PROVE FALSE
    OBVIOUS
  <2>1. IsEagerOf(v, a)
    BY <1>1, EagerMeans
  <2>2. PICK k2 \in DOMAIN v.clusters : \E local \in LocalIds :
            /\ IsReserved(v.clusters, k2, local, a)
            /\ v.clusters[k2].session = b
            /\ -local <= v.generatedIdCount
    BY <1>1, <2>1 DEF IsEagerOf
  <2>3. PICK local \in LocalIds :
            /\ IsReserved(v.clusters, k2, local, a)
            /\ v.clusters[k2].session = b
            /\ -local <= v.generatedIdCount
    BY <2>2
  <2>4. IsReserved(t, k2, local, a) /\ t[k2].session = b
    BY <1>1, <2>3, ReservedStays
  <2>5. k2 = k /\ local = l
    BY <1>1, <1>3, <2>4, ReservedOnce
  <2>6. v = w
    BY <1>3, <2>4, <2>5 DEF v
  <2> DEFINE g == w.generatedIdCount
  <2>7. n <= g /\ n = g + 1 /\ g \in Nat
    BY <1>1, <1>2, <2>3, <2>5, <2>6
  <2> HIDE DEF g
  <2> QED BY <2>7
<1> QED BY <1>5, <1>6 DEF EagerBy, v

(* All clients hear of assignments in one order. *)
LEMMA OneOrder ==
    ASSUME IndInv, NEW d, CompressorInv(d), NEW p \in 0..Len(log),
           d.clusters = Replayed(p).clusters, NEW b \in Clients
    PROVE  \/ FinalizedBy(d) \subseteq FinalizedBy(compressors[b])
           \/ FinalizedBy(compressors[b]) \subseteq FinalizedBy(d)
<1> DEFINE v == compressors[b]
           q == progress[b]
           n == Len(log)
<1>1. /\ CompressorInv(v) /\ v.clusters = Replayed(q).clusters /\ q \in 0..n /\ n \in Nat
      /\ p \in 0..n
  BY ClientFacts, DocFacts DEF IndInv
<1>2. /\ Replayed(p).clusters \in Seq(Cluster) /\ Replayed(q).clusters \in Seq(Cluster)
      /\ \A i, j \in 0..n : i <= j => Grows(Replayed(i).clusters, Replayed(j).clusters)
  BY <1>1, HistoryTypes DEF IndInv, DocInv, HistoryInv
<1> HIDE DEF v, q, n
<1>3. p <= q \/ q <= p
  BY <1>1
<1>4. /\ \A a : a \in FinalizedBy(v) <=> IsFinalizedIn(Replayed(q).clusters, a)
      /\ \A a : a \in FinalizedBy(d) <=> IsFinalizedIn(Replayed(p).clusters, a)
  BY <1>1, FinalizedMeansIn
<1>5. CASE p <= q
  <2>1. Grows(Replayed(p).clusters, Replayed(q).clusters)
    BY <1>1, <1>2, <1>5
  <2>2. \A a : IsFinalizedIn(Replayed(p).clusters, a) => IsFinalizedIn(Replayed(q).clusters, a)
    BY <1>2, <2>1, FinalizedStays
  <2> QED BY <1>4, <2>2 DEF v
<1>6. CASE q <= p
  <2>1. Grows(Replayed(q).clusters, Replayed(p).clusters)
    BY <1>1, <1>2, <1>6
  <2>2. \A a : IsFinalizedIn(Replayed(q).clusters, a) => IsFinalizedIn(Replayed(p).clusters, a)
    BY <1>2, <2>1, FinalizedStays
  <2> QED BY <1>4, <2>2 DEF v
<1> QED BY <1>3, <1>5, <1>6

-----------------------------------------------------------------------------
(* The assignments of a document are one to one: they have their places in
   the whole history's table.                                              *)
LEMMA DocumentOneToOne ==
    SessionsFarApart => (IndInv => Promise!OneToOne(Promise!Assignments))
<1> SUFFICES ASSUME SessionsFarApart, IndInv,
                    NEW a \in Promise!Assignments, NEW b \in Promise!Assignments
             PROVE  a.final = b.final <=> a.uuid = b.uuid
  BY DEF Promise!OneToOne
<1>1. joined \subseteq Clients
  BY DocFacts DEF IndInv
<1>2. TableInv(LastTable)
  BY LastTableFacts
<1>3. ASSUME NEW x \in Promise!Assignments PROVE IsPlaced(LastTable, x)
  <2>1. PICK c \in joined : x \in AssignedBy(compressors[c])
    BY <1>1, LedgerView DEF Promise!Assignments, EagerBy, FinalizedBy
  <2> QED BY <1>1, <2>1, AssignedIsPlaced
<1> HIDE DEF LastTable
<1> QED BY <1>2, <1>3, PlacedOneToOne

(* Each operation is a step of the ledger. *)
LEMMA GenerateIssues ==
    ASSUME IndInv, NEW c \in joined, Generate(c)
    PROVE  Promise!Issue(c) \/ UNCHANGED Promise!vars
<1> DEFINE w == compressors[c]
           d == GenerateNextId(w)
<1>1. /\ joined \subseteq Clients /\ c \in Clients /\ joined' = joined
      /\ compressors \in [Clients -> Compressors]
      /\ compressors' = [compressors EXCEPT ![c] = d]
      /\ CompressorInv(w) /\ w.sessionId = c
  BY DocFacts DEF IndInv, Generate
<1>2. compressors'[c] = d /\ \A x \in Clients \ {c} : compressors'[x] = compressors[x]
  BY <1>1
<1>3. CASE IsNextEager(w)
  <2> DEFINE n == w.generatedIdCount + 1
             k == TailIndex(w.clusters, w.sessionId)
             a == Assignment(w.clusters, k, -n)
  <2> HIDE DEF d, n, k, a
  <2>1. /\ IsReserved(w.clusters, k, -n, a) /\ w.clusters[k].session = w.sessionId
        /\ FinalizedBy(d) = FinalizedBy(w) /\ EagerBy(d) = EagerBy(w) \cup {a}
    BY <1>1, <1>3, EagerAssigns DEF d, n, k, a
  <2>2. \A b \in Clients : a \notin AssignedBy(compressors[b])
    BY <1>1, <1>3, <2>1, EagerIsNew DEF n
  <2>3. Promise!Issue(c)
    BY <1>1, <1>2, <2>1, <2>2, LedgerIssues
  <2> QED BY <2>3
<1>4. CASE ~IsNextEager(w)
  <2>1. FinalizedBy(d) = FinalizedBy(w) /\ EagerBy(d) = EagerBy(w)
    BY <1>1, <1>4, LocalAssignsNothing
  <2>2. \A x \in Clients : /\ EagerBy(compressors'[x]) = EagerBy(compressors[x])
                           /\ FinalizedBy(compressors'[x]) = FinalizedBy(compressors[x])
    BY <1>2, <2>1
  <2> QED BY <1>1, <2>2, LedgerStutters
<1> QED BY <1>3, <1>4

LEMMA SendStutters ==
    ASSUME IndInv, NEW c \in joined, Send(c)
    PROVE  UNCHANGED Promise!vars
<1> DEFINE w == compressors[c]
           d == TakeNextRange(w)
<1>1. /\ c \in Clients /\ joined' = joined
      /\ compressors \in [Clients -> Compressors]
      /\ compressors' = [compressors EXCEPT ![c] = d]
      /\ CompressorInv(w)
  BY DocFacts DEF IndInv, Send
<1>2. compressors'[c] = d /\ \A x \in Clients \ {c} : compressors'[x] = compressors[x]
  BY <1>1
<1>3. /\ CompressorInv(d) /\ d.sessionId = w.sessionId /\ d.clusters = w.clusters
      /\ d.generatedIdCount = w.generatedIdCount /\ d.normalizer = w.normalizer
  BY <1>1, TakeEffect
<1>4. \A a : IsEagerOf(d, a) <=> IsEagerOf(w, a)
  BY <1>3 DEF IsEagerOf
<1>5. \A a : a \in EagerBy(d) <=> a \in EagerBy(w)
  BY <1>1, <1>3, <1>4, EagerMeans
<1>6. EagerBy(d) = EagerBy(w) /\ FinalizedBy(d) = FinalizedBy(w)
  BY <1>1, <1>3, <1>5, SameFinalized
<1>7. \A x \in Clients : /\ EagerBy(compressors'[x]) = EagerBy(compressors[x])
                         /\ FinalizedBy(compressors'[x]) = FinalizedBy(compressors[x])
  BY <1>2, <1>6
<1> QED BY <1>1, <1>7, LedgerStutters

LEMMA DeliverHears ==
    ASSUME SessionsFarApart, IndInv, NEW c \in joined, Deliver(c)
    PROVE  Promise!Hear(c)
<1> DEFINE w == compressors[c]
           p == progress[c] + 1
           op == log[p]
           d == Process(w, op)
<1>1. /\ joined \subseteq Clients /\ c \in Clients /\ joined' = joined
      /\ compressors \in [Clients -> Compressors]
      /\ compressors' = [compressors EXCEPT ![c] = d]
      /\ progress[c] < Len(log) /\ progress[c] \in 0..Len(log) /\ Len(log) \in Nat
      /\ CompressorInv(w) /\ w.sessionId = c /\ w.clusters = Replayed(progress[c]).clusters
  BY DocFacts, ClientFacts DEF IndInv, Deliver
<1>2. compressors'[c] = d /\ \A x \in Clients \ {c} : compressors'[x] = compressors[x]
  BY <1>1
<1> HIDE DEF d, op
<1>3. /\ p \in 0..Len(log) /\ CompressorInv(d) /\ d.sessionId = c
      /\ d.generatedIdCount = w.generatedIdCount /\ d.normalizer = w.normalizer
      /\ d.clusters = Replayed(p).clusters
  <2> HIDE DEF p
  <2> QED BY <1>1, NextOp DEF d, op, p
<1>4. Grows(w.clusters, d.clusters)
  <2>1. progress[c] <= p /\ DocInv
    BY <1>1 DEF IndInv
  <2>2. Grows(Replayed(progress[c]).clusters, Replayed(p).clusters)
    <3> HIDE DEF p
    <3> QED BY <1>1, <1>3, <2>1 DEF DocInv, HistoryInv
  <2> QED BY <1>1, <1>3, <2>2
<1> HIDE DEF p
<1>5. FinalizedBy(w) \subseteq FinalizedBy(d) /\ EagerBy(d) = EagerBy(w) \ FinalizedBy(d)
  BY <1>1, <1>3, <1>4, ClaimsFinalize
<1>6. \A b \in joined : \/ FinalizedBy(d) \subseteq FinalizedBy(compressors[b])
                        \/ FinalizedBy(compressors[b]) \subseteq FinalizedBy(d)
  BY <1>1, <1>3, OneOrder
<1> QED BY <1>1, <1>2, <1>5, <1>6, LedgerHears

LEMMA JoinOpens ==
    ASSUME SessionsFit, IndInv, NEW c \in Clients \ joined, NEW writer \in joined,
           Join(c, writer)
    PROVE  Promise!Open(c, writer)
<1> DEFINE w == compressors[writer]
<1>1. /\ joined \subseteq Clients /\ c \in Clients /\ c \in Sessions /\ writer \in Clients
      /\ joined' = joined \cup {c} /\ compressors \in [Clients -> Compressors]
      /\ CompressorInv(w) /\ CompressorInv(compressors[c])
      /\ compressors[c] = NewCompressor(c)
  BY DocFacts, CapacityTypes DEF IndInv, Join, DocInv, ClientsInv
<1>2. PICK d \in Deserialize(Serialize(w), c) : compressors' = [compressors EXCEPT ![c] = d]
  BY DEF Join
<1>3. compressors'[c] = d /\ \A x \in Clients \ {c} : compressors'[x] = compressors[x]
  BY <1>1, <1>2
<1> HIDE DEF w
<1>4. CompressorInv(d) /\ d = LoadedFrom(w, c, d.sessions)
  BY <1>1, <1>2, IndicesFit, SummaryLoads
<1>5. d.generatedIdCount = 0 /\ d.clusters = w.clusters
  <2> DEFINE sessions == d.sessions
  <2> HIDE DEF sessions
  <2>1. d = LoadedFrom(w, c, sessions)
    BY <1>4 DEF sessions
  <2> QED BY <2>1, LoadedRecord
<1>6. EagerBy(d) = {} /\ FinalizedBy(d) = FinalizedBy(w)
  BY <1>1, <1>4, <1>5, NothingEager, SameFinalized
<1>7. EagerBy(compressors[c]) = {}
  BY <1>1, NothingEager DEF NewCompressor
<1>8. /\ FinalizedBy(compressors'[c]) = FinalizedBy(compressors[writer])
      /\ EagerBy(compressors'[c]) = EagerBy(compressors[c])
  BY <1>3, <1>6, <1>7 DEF w
<1> QED BY <1>1, <1>3, <1>8, LedgerOpens

LedgerStep ==
    \/ \E c \in joined : Promise!Issue(c) \/ Promise!Hear(c)
    \/ \E c \in Clients \ joined : \E other \in joined : Promise!Open(c, other)

LEMMA StepsOfLedger ==
    ASSUME SessionsFarApart, SessionsFit, IndInv, [Next]_vars
    PROVE  LedgerStep \/ UNCHANGED Promise!vars
<1>1. ASSUME NEW c \in joined, Generate(c) PROVE LedgerStep \/ UNCHANGED Promise!vars
  BY <1>1, GenerateIssues DEF LedgerStep
<1>2. ASSUME NEW c \in joined, Send(c) PROVE UNCHANGED Promise!vars
  BY <1>2, SendStutters
<1>3. ASSUME NEW c \in joined, Deliver(c) PROVE LedgerStep
  BY <1>3, DeliverHears DEF LedgerStep
<1>4. CASE ProposeCapacity
  <2>1. joined' = joined /\ compressors' = compressors
    BY <1>4 DEF ProposeCapacity
  <2> QED BY <2>1, LedgerStutters
<1>5. ASSUME NEW c \in Clients \ joined, NEW writer \in joined, Join(c, writer) PROVE LedgerStep
  BY <1>5, JoinOpens DEF LedgerStep
<1>6. CASE UNCHANGED vars
  <2>1. joined' = joined /\ compressors' = compressors
    BY <1>6 DEF vars
  <2> QED BY <2>1, LedgerStutters
<1> QED BY <1>1, <1>2, <1>3, <1>4, <1>5, <1>6 DEF Next

LEMMA StartOfLedger == Init => Promise!Init
<1> SUFFICES ASSUME Init PROVE Promise!Init
  OBVIOUS
<1>1. ASSUME NEW c \in Clients
      PROVE  Assigned(c) \ Finalized(c) = {} /\ Finalized(c) = {}
  <2>1. compressors[c] = NewCompressor(c) /\ c \in Sessions
    BY CapacityTypes DEF Init
  <2>2. CompressorInv(compressors[c]) /\ compressors[c].clusters = <<>>
    BY <2>1, NewCompressorInv
  <2> QED BY <2>2, NothingAssigned, LedgerView
<1> QED BY <1>1 DEF Promise!Init

(* The document keeps its promise (lib.rs:25-33): whatever clusters are
   claimed, filled, expanded and loaded, and however far the clients are
   apart, final IDs are assigned one to one and permanently, all clients hear
   of them in one order, and an eager final ID turns out as its creator
   assigned it.                                                            *)
THEOREM KeepsPromiseHolds == SessionsFarApart /\ SessionsFit => (Spec => KeepsPromise)
<1> SUFFICES ASSUME SessionsFarApart, SessionsFit PROVE Spec => KeepsPromise
  OBVIOUS
<1>1. Init => Promise!Init
  BY StartOfLedger
<1>2. IndInv => Promise!OneToOne(Promise!Assignments)
  BY DocumentOneToOne
<1>3. /\ IndInv /\ [Next]_vars
      /\ Promise!OneToOne(Promise!Assignments)'
      => [Promise!Next]_(Promise!vars)
  <2> SUFFICES ASSUME IndInv, [Next]_vars, Promise!OneToOne(Promise!Assignments)'
               PROVE  Promise!Next \/ UNCHANGED Promise!vars
    OBVIOUS
  <2>1. LedgerStep \/ UNCHANGED Promise!vars
    BY StepsOfLedger
  <2>2. Promise!OneToOne(Promise!Assignments')
    BY DEF Promise!OneToOne
  <2> QED BY <2>1, <2>2 DEF LedgerStep, Promise!Next
<1> QED BY <1>1, <1>2, <1>3, IndInvHolds, PTL DEF Spec, KeepsPromise, Promise!Spec
=============================================================================
