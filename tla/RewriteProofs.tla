--------------------------- MODULE RewriteProofs ---------------------------
(***************************************************************************)
(* The compressor of the TypeScript rewrite implements that of Rust, for   *)
(* every set of sessions that are far apart, every capacity and bound.     *)
(*                                                                         *)
(* Each operation is shown to do to the chains, the references and the map *)
(* what the one of Rust does to its table and its set; that the latter     *)
(* keeps these correct is known from IdCompressorProofs.                   *)
(***************************************************************************)
EXTENDS RewriteSystem, SequenceTheorems, TLAPS

Core == INSTANCE IdCompressorProofs WITH compressor <- Abstraction(rewrite)

(* What is assumed of the constants of Rust holds for those of the rewrite. *)
LEMMA Constants ==
    /\ Sessions \subseteq Nat \ {0}
    /\ DefaultClusterCapacity \in Core!Positive
    /\ LocalSession \in Sessions
    /\ Capacities \subseteq Core!Positive
    /\ MaxGenerated \in Nat
    /\ AllCapacities \subseteq Nat \ {0}
BY RewriteAssumption, SystemAssumption DEF Core!Positive, AllCapacities

-----------------------------------------------------------------------------
(* The final space and the chains. *)

Linking(c) == c \in Compressor /\ Linked(c)

References(c, s) == {i \in DOMAIN c.clusterList : c.clusterList[i].session = s}

LEMMA CompressorFields ==
    ASSUME NEW c \in Compressor
    PROVE  /\ c.localSessionId \in Sessions
           /\ c.generatedIdCount \in Nat
           /\ c.nextRangeBase \in Nat \ {0}
           /\ c.clusterCapacity \in Nat \ {0}
           /\ c.sessionList \in Seq(Sessions)
           /\ c.chains \in [Sessions -> Seq(IdCluster)]
           /\ c.clusterList \in Seq([session : Sessions, place : Nat \ {0}])
           /\ c.normalizer \in Seq([key : {i \in Int : i < 0}, value : Nat \ {0}])
BY DEF Compressor

(* A reference names a cluster of its session's chain. *)
LEMMA ReferenceHolds ==
    ASSUME NEW c, Linking(c), NEW i \in DOMAIN c.clusterList,
           NEW s, s = c.clusterList[i].session,
           NEW p, p = c.clusterList[i].place
    PROVE  /\ s \in Sessions /\ p \in Nat /\ p > 0
           /\ p \in DOMAIN c.chains[s] /\ c.chains[s] \in Seq(IdCluster)
           /\ c.chains[s][p] \in IdCluster
           /\ c.chains[s][p].session = s
           /\ FinalSpace(c)[i] = c.chains[s][p]
<1>1. c.clusterList[i] \in [session : Sessions, place : Nat \ {0}]
  <2> DEFINE S == [session : Sessions, place : Nat \ {0}]
             list == c.clusterList
  <2>1. list \in Seq(S) /\ i \in DOMAIN list
    BY CompressorFields DEF Linking
  <2>2. list[i] \in S
    <3> HIDE DEF S, list
    <3> QED BY <2>1
  <2> QED BY <2>2
<1>2. s \in Sessions /\ p \in Nat /\ p > 0
  BY <1>1
<1>3. c.chains[s] \in Seq(IdCluster)
  BY <1>2, CompressorFields DEF Linking
<1>4. p \in DOMAIN c.chains[s] /\ c.chains[s][p].session = s
  BY <1>2 DEF Linking, Linked
<1>5. c.chains[s][p] \in IdCluster
  BY <1>3, <1>4
<1>6. FinalSpace(c)[i] = c.chains[s][p]
  BY DEF FinalSpace
<1> QED BY <1>2, <1>3, <1>4, <1>5, <1>6

(* The final space is a table of clusters, as many as there are references. *)
LEMMA SpaceIsTable ==
    ASSUME NEW c, Linking(c), NEW t, t = FinalSpace(c), NEW n, n = Len(c.clusterList)
    PROVE  /\ n \in Nat /\ Len(t) = n
           /\ DOMAIN t = 1..n /\ DOMAIN c.clusterList = 1..n
           /\ t \in Seq(IdCluster)
           /\ \A i \in 1..n : t[i] \in IdCluster /\ t[i].session = c.clusterList[i].session
           /\ \A s : Core!Chain(t, s) = References(c, s)
           /\ t = <<>> <=> n = 0
           /\ t = <<>> <=> c.clusterList = <<>>
<1> DEFINE list == c.clusterList
<1>1. n \in Nat /\ DOMAIN list = 1..n /\ (list = <<>> <=> n = 0)
  <2>1. list \in Seq([session : Sessions, place : Nat \ {0}])
    BY CompressorFields DEF Linking
  <2> HIDE DEF list
  <2>2. n \in Nat /\ DOMAIN list = 1..n /\ (list = <<>> <=> Len(list) = 0) /\ Len(list) = n
    BY <2>1, EmptySeq DEF list
  <2> QED BY <2>2
<1>2. ASSUME NEW i \in 1..n
      PROVE  t[i] \in IdCluster /\ t[i].session = list[i].session
  BY <1>1, ReferenceHolds
<1>3. t = [i \in 1..n |-> t[i]]
  BY <1>1 DEF FinalSpace
<1>4. t \in Seq(IdCluster) /\ Len(t) = n /\ DOMAIN t = 1..n
  <2> DEFINE S == IdCluster
  <2>1. \A i \in 1..n : t[i] \in S
    BY <1>2
  <2> HIDE DEF S
  <2>2. [i \in 1..n |-> t[i]] \in Seq(S)
    BY <1>1, <2>1
  <2>3. t \in Seq(S) /\ Len(t) = n /\ DOMAIN t = 1..n
    BY <1>1, <1>3, <2>2
  <2> QED BY <2>3 DEF S
<1>5. ASSUME NEW s PROVE Core!Chain(t, s) = References(c, s)
  BY <1>1, <1>2, <1>4 DEF Core!Chain, References
<1>6. t = <<>> <=> n = 0
  <2> DEFINE S == IdCluster
  <2>1. t \in Seq(S) BY <1>4
  <2> HIDE DEF S
  <2> QED BY <1>4, <2>1, EmptySeq
<1> QED BY <1>1, <1>2, <1>4, <1>5, <1>6

(* The same, of the length as such. *)
LEMMA SpaceTypes ==
    ASSUME NEW c, Linking(c), NEW t, t = FinalSpace(c)
    PROVE  /\ t \in Seq(IdCluster) /\ DOMAIN t = 1..Len(c.clusterList)
           /\ Len(t) = Len(c.clusterList) /\ Len(c.clusterList) \in Nat
           /\ t = <<>> <=> Len(c.clusterList) = 0
           /\ \A i \in 1..Len(c.clusterList) : t[i] \in IdCluster
<1> DEFINE length == Len(c.clusterList)
<1>1. \A n : n = length => /\ n \in Nat /\ Len(t) = n /\ DOMAIN t = 1..n /\ t \in Seq(IdCluster)
                           /\ (t = <<>> <=> n = 0) /\ \A i \in 1..n : t[i] \in IdCluster
  BY SpaceIsTable
<1> HIDE DEF length
<1>2. /\ length \in Nat /\ Len(t) = length /\ DOMAIN t = 1..length /\ t \in Seq(IdCluster)
      /\ (t = <<>> <=> length = 0) /\ \A i \in 1..length : t[i] \in IdCluster
  BY <1>1
<1> QED BY <1>2 DEF length

(* Every place of a chain is referred to. *)
LEMMA PlaceIsReferred ==
    ASSUME NEW c, Linking(c), NEW s \in Sessions, NEW p \in DOMAIN c.chains[s]
    PROVE  \E i \in References(c, s) : c.clusterList[i].place = p
BY DEF Linking, Linked, References

LEMMA PlacesInOrder ==
    ASSUME NEW c, Linking(c), NEW s \in Sessions,
           NEW i \in References(c, s), NEW j \in References(c, s), i < j
    PROVE  c.clusterList[i].place < c.clusterList[j].place
BY DEF Linking, Linked, References

(* So each is referred to once. *)
LEMMA ReferenceIsUnique ==
    ASSUME NEW c, Linking(c), NEW s \in Sessions,
           NEW i \in References(c, s), NEW j \in References(c, s),
           c.clusterList[i].place = c.clusterList[j].place
    PROVE  i = j
<1>1. /\ i \in DOMAIN c.clusterList /\ c.clusterList[i].session = s
      /\ j \in DOMAIN c.clusterList /\ c.clusterList[j].session = s
  BY DEF References
<1>2. i \in Int /\ j \in Int
  <2>1. \A n \in Nat : \A x \in 1..n : x \in Int
    OBVIOUS
  <2> QED BY <1>1, <2>1, SpaceIsTable
<1>3. c.clusterList[i].place \in Nat
  BY <1>1, ReferenceHolds
<1>4. ~(i < j) /\ ~(j < i)
  BY <1>3, PlacesInOrder
<1> QED BY <1>2, <1>4

(* The chain of a session, as a set of clusters. *)
LEMMA ChainClusters ==
    ASSUME NEW c, Linking(c), NEW s \in Sessions, NEW t, t = FinalSpace(c)
    PROVE  /\ {c.chains[s][p] : p \in DOMAIN c.chains[s]} = {t[i] : i \in Core!Chain(t, s)}
           /\ IsEmpty(c, s) <=> Core!Chain(t, s) = {}
           /\ c.chains[s] \in Seq(IdCluster)
           /\ Len(c.chains[s]) \in Nat /\ DOMAIN c.chains[s] = 1..Len(c.chains[s])
           /\ ~IsEmpty(c, s) => Len(c.chains[s]) \in DOMAIN c.chains[s] /\ Len(c.chains[s]) > 0
<1>1. Core!Chain(t, s) = References(c, s)
  BY SpaceIsTable
<1>2. ASSUME NEW i \in References(c, s)
      PROVE  /\ c.clusterList[i].place \in DOMAIN c.chains[s]
             /\ t[i] = c.chains[s][c.clusterList[i].place]
  <2>1. i \in DOMAIN c.clusterList /\ c.clusterList[i].session = s
    BY DEF References
  <2> QED BY <2>1, ReferenceHolds
<1>3. ASSUME NEW p \in DOMAIN c.chains[s]
      PROVE  \E i \in References(c, s) : c.clusterList[i].place = p /\ t[i] = c.chains[s][p]
  BY <1>2, PlaceIsReferred
<1>4. {c.chains[s][p] : p \in DOMAIN c.chains[s]} = {t[i] : i \in References(c, s)}
  BY <1>2, <1>3
<1>5. /\ c.chains[s] \in Seq(IdCluster)
      /\ Len(c.chains[s]) \in Nat /\ DOMAIN c.chains[s] = 1..Len(c.chains[s])
      /\ IsEmpty(c, s) <=> Len(c.chains[s]) = 0
  <2> DEFINE S == IdCluster
             chain == c.chains[s]
  <2>1. chain \in Seq(S)
    BY CompressorFields DEF Linking
  <2>2. Len(chain) \in Nat /\ DOMAIN chain = 1..Len(chain) /\ (chain = <<>> <=> Len(chain) = 0)
    <3> HIDE DEF S, chain
    <3> QED BY <2>1, EmptySeq
  <2> QED BY <2>1, <2>2 DEF IsEmpty
<1>6. IsEmpty(c, s) <=> References(c, s) = {}
  <2>1. IsEmpty(c, s) => DOMAIN c.chains[s] = {}
    BY <1>5
  <2>2. ~IsEmpty(c, s) => Len(c.chains[s]) \in DOMAIN c.chains[s]
    BY <1>5
  <2> QED BY <1>2, <1>3, <2>1, <2>2
<1>7. ~IsEmpty(c, s) => Len(c.chains[s]) \in DOMAIN c.chains[s] /\ Len(c.chains[s]) > 0
  BY <1>5
<1> QED BY <1>1, <1>4, <1>5, <1>6, <1>7

(* The last cluster of a chain is the tail that the table has for it. *)
LEMMA TailReference ==
    ASSUME NEW c, Linking(c), NEW s \in Sessions, ~IsEmpty(c, s),
           NEW t, t = FinalSpace(c), NEW k, k = Core!TailIndex(t, s)
    PROVE  /\ Core!IsTail(t, s, k)
           /\ k \in References(c, s)
           /\ k \in DOMAIN t
           /\ c.clusterList[k] = [session |-> s, place |-> Len(c.chains[s])]
           /\ t[k] = TailOf(c, s)
           /\ Core!TailCluster(t, s) = TailOf(c, s)
           /\ \A j \in References(c, s) : j # k => c.clusterList[j].place # Len(c.chains[s])
<1> DEFINE n == Len(c.chains[s])
<1>1. n \in DOMAIN c.chains[s] /\ n \in Nat /\ DOMAIN c.chains[s] = 1..n
  BY ChainClusters
<1>2. PICK i \in References(c, s) : c.clusterList[i].place = n
  BY <1>1, PlaceIsReferred
<1>3. i \in DOMAIN c.clusterList /\ c.clusterList[i].session = s
  BY DEF References
<1>4. Core!Chain(t, s) = References(c, s)
  BY SpaceIsTable
<1>5. \A j \in References(c, s) : j \in Int
  <2>1. \A m \in Nat : \A x \in 1..m : x \in Int
    OBVIOUS
  <2> QED BY <2>1, SpaceIsTable DEF References
<1>6. ASSUME NEW j \in References(c, s)
      PROVE  j <= i
  <2> SUFFICES ASSUME i < j PROVE FALSE
    BY <1>5
  <2>1. n < c.clusterList[j].place
    BY <1>2, PlacesInOrder
  <2>2. c.clusterList[j].place \in 1..n
    <3>1. j \in DOMAIN c.clusterList /\ c.clusterList[j].session = s
      BY DEF References
    <3> QED BY <1>1, <3>1, ReferenceHolds
  <2> QED BY <1>1, <2>1, <2>2
<1>7. Core!IsTail(t, s, i)
  BY <1>4, <1>6 DEF Core!IsTail
<1>8. \A j \in Core!Chain(t, s) : Core!IsTail(t, s, j) => j = i
  BY <1>4, <1>5, <1>6, <1>7 DEF Core!IsTail
<1>9. k = i
  <2>1. \E j \in Core!Chain(t, s) : Core!IsTail(t, s, j)
    BY <1>4, <1>7
  <2>2. k \in Core!Chain(t, s) /\ Core!IsTail(t, s, k)
    BY <2>1 DEF Core!TailIndex
  <2> QED BY <1>8, <2>2
<1>10. t[i] = TailOf(c, s)
  BY <1>2, <1>3, ReferenceHolds DEF TailOf
<1>11. c.clusterList[i] = [session |-> s, place |-> n]
  <2> DEFINE S == [session : Sessions, place : Nat \ {0}]
             list == c.clusterList
  <2>1. list \in Seq(S) /\ i \in DOMAIN list
    BY <1>3, CompressorFields DEF Linking
  <2>2. list[i] \in S
    <3> HIDE DEF S, list
    <3> QED BY <2>1
  <2>3. list[i] = [session |-> list[i].session, place |-> list[i].place]
    BY <2>2
  <2> QED BY <1>2, <1>3, <2>3
<1>12. i \in DOMAIN t
  BY <1>3, SpaceIsTable
<1>13. ASSUME NEW j \in References(c, s), j # i
       PROVE  c.clusterList[j].place # n
  BY <1>2, <1>13, ReferenceIsUnique
<1> QED BY <1>7, <1>9, <1>10, <1>11, <1>12, <1>13 DEF Core!TailCluster

LEMMA TailType ==
    ASSUME NEW c, Linking(c), NEW s \in Sessions, ~IsEmpty(c, s)
    PROVE  /\ TailOf(c, s) \in IdCluster
           /\ TailOf(c, s).session = s
           /\ TailOf(c, s).baseFinal \in Nat
           /\ TailOf(c, s).baseLocal \in Int /\ TailOf(c, s).baseLocal < 0
           /\ TailOf(c, s).capacity \in Nat /\ TailOf(c, s).capacity > 0
           /\ TailOf(c, s).count \in Nat
<1> DEFINE Clusters == IdCluster
           chain == c.chains[s]
<1>1. chain \in Seq(Clusters) /\ Len(chain) \in DOMAIN chain
  BY ChainClusters
<1>2. chain[Len(chain)] \in Clusters
  <2> HIDE DEF Clusters, chain
  <2> QED BY <1>1
<1>3. TailOf(c, s) \in IdCluster
  BY <1>2 DEF TailOf
<1>4. TailOf(c, s).session = s
  BY <1>1 DEF TailOf, Linking, Linked
<1> HIDE DEF chain
<1> QED BY <1>3, <1>4 DEF IdCluster

-----------------------------------------------------------------------------
(* Changing the tail of a chain. *)

SameShell(c, d) ==
    /\ d.localSessionId = c.localSessionId
    /\ d.generatedIdCount = c.generatedIdCount
    /\ d.nextRangeBase = c.nextRangeBase
    /\ d.clusterCapacity = c.clusterCapacity
    /\ d.sessionList = c.sessionList
    /\ d.normalizer = c.normalizer

Changed(k, capacity, count) == [k EXCEPT !.capacity = capacity, !.count = count]

ChangedChain(chain, capacity, count) ==
    [chain EXCEPT ![Len(chain)] = Changed(chain[Len(chain)], capacity, count)]

(* It changes two fields of that cluster and nothing else. *)
LEMMA ChangeTailFields ==
    ASSUME NEW c \in Compressor, NEW s \in Sessions, ~IsEmpty(c, s),
           NEW capacity \in Nat \ {0}, NEW count \in Nat,
           NEW d, d = ChangeTail(c, s, capacity, count)
    PROVE  /\ SameShell(c, d)
           /\ d.clusterList = c.clusterList
           /\ d = [c EXCEPT !.chains = [c.chains EXCEPT ![s] = ChangedChain(c.chains[s], capacity, count)]]
<1> DEFINE n == Len(c.chains[s])
           chain == c.chains[s]
<1>1. s \in DOMAIN c.chains /\ chain \in Seq(IdCluster) /\ n \in DOMAIN chain
  <2> DEFINE S == IdCluster
  <2>1. c.chains \in [Sessions -> Seq(S)]
    BY CompressorFields
  <2>2. chain # <<>>
    BY DEF IsEmpty
  <2> HIDE DEF S
  <2>3. chain \in Seq(S) /\ s \in DOMAIN c.chains
    BY <2>1
  <2>4. Len(chain) \in DOMAIN chain
    <3> HIDE DEF chain
    <3> QED BY <2>2, <2>3
  <2> QED BY <2>3, <2>4 DEF S
<1>2. c = [c EXCEPT !.chains = c.chains] /\ "chains" \in DOMAIN c
  BY DEF Compressor
<1>3. chain[n] \in IdCluster
  BY <1>1
<1>4. d = [c EXCEPT !.chains = [c.chains EXCEPT ![s] = [chain EXCEPT ![n] = [[chain[n] EXCEPT !.capacity = capacity] EXCEPT !.count = count]]]]
  <2> DEFINE first == [c EXCEPT !.chains[s][n].capacity = capacity]
             k == [chain[n] EXCEPT !.capacity = capacity]
             grown == [chain EXCEPT ![n] = k]
             chains == [c.chains EXCEPT ![s] = grown]
  <2>1. d = [first EXCEPT !.chains[s][n].count = count]
    BY DEF ChangeTail
  <2>2. first = [c EXCEPT !.chains = chains]
    OBVIOUS
  <2>3. first.chains = chains /\ first = [first EXCEPT !.chains = chains]
    <3> HIDE DEF chains, first
    <3> QED BY ONLY <1>2, <2>2
  <2>4. chains[s] = grown /\ grown[n] = k
    <3> HIDE DEF k, chain, n
    <3> QED BY ONLY <1>1
  <2> HIDE DEF first, k, grown, chains
  <2>5. d = [first EXCEPT !.chains = [first.chains EXCEPT ![s] =
                [first.chains[s] EXCEPT ![n] = [first.chains[s][n] EXCEPT !.count = count]]]]
    BY ONLY <2>1
  <2>6. d = [first EXCEPT !.chains = [chains EXCEPT ![s] = [grown EXCEPT ![n] = [k EXCEPT !.count = count]]]]
    BY ONLY <2>3, <2>4, <2>5
  <2>7. \A x : [first EXCEPT !.chains = x] = [c EXCEPT !.chains = x]
    BY ONLY <2>2
  <2>8. \A x : [grown EXCEPT ![n] = x] = [chain EXCEPT ![n] = x]
    <3> HIDE DEF chain, n
    <3> QED BY ONLY TRUE DEF grown
  <2>9. \A x : [chains EXCEPT ![s] = x] = [c.chains EXCEPT ![s] = x]
    <3> HIDE DEF chain
    <3> QED BY ONLY TRUE DEF chains
  <2>10. d = [c EXCEPT !.chains = [c.chains EXCEPT ![s] = [chain EXCEPT ![n] = [k EXCEPT !.count = count]]]]
    <3> HIDE DEF chain, n
    <3> QED BY ONLY <2>6, <2>7, <2>8, <2>9
  <2> QED BY ONLY <2>10 DEF k
<1>5. d = [c EXCEPT !.chains = [c.chains EXCEPT ![s] = ChangedChain(chain, capacity, count)]]
  BY <1>4 DEF ChangedChain, Changed
<1>6. SameShell(c, d) /\ d.clusterList = c.clusterList
  <2> DEFINE chains == [c.chains EXCEPT ![s] = ChangedChain(chain, capacity, count)]
  <2> HIDE DEF chains
  <2>1. d = [c EXCEPT !.chains = chains]
    BY ONLY <1>5 DEF chains
  <2>2. c \in Compressor
    OBVIOUS
  <2> QED BY ONLY <2>1, <2>2 DEF SameShell, Compressor
<1> QED BY <1>5, <1>6

LEMMA ChangedChainPlaces ==
    ASSUME NEW chain \in Seq(IdCluster), chain # <<>>,
           NEW capacity \in Nat \ {0}, NEW count \in Nat,
           NEW u, u = ChangedChain(chain, capacity, count)
    PROVE  /\ u \in Seq(IdCluster) /\ Len(u) = Len(chain) /\ DOMAIN u = DOMAIN chain
           /\ Len(chain) \in DOMAIN chain
           /\ u[Len(chain)] = Changed(chain[Len(chain)], capacity, count)
           /\ \A p \in DOMAIN chain : p # Len(chain) => u[p] = chain[p]
           /\ \A p \in DOMAIN chain : u[p].session = chain[p].session
<1> DEFINE S == IdCluster
           n == Len(chain)
           k == Changed(chain[n], capacity, count)
<1>1. chain \in Seq(S) /\ n \in DOMAIN chain /\ DOMAIN chain = 1..n /\ n \in Nat
  <2>1. chain \in Seq(S)
    OBVIOUS
  <2> HIDE DEF S
  <2> QED BY <2>1
<1>2. k \in S /\ k.session = chain[n].session
  <2>1. chain[n] \in S
    BY <1>1
  <2> QED BY <2>1 DEF IdCluster, Changed
<1>3. u = [chain EXCEPT ![n] = k]
  BY DEF ChangedChain
<1> HIDE DEF S, k
<1>4. u \in Seq(S) /\ Len(u) = n /\ DOMAIN u = DOMAIN chain
  BY <1>1, <1>2, <1>3
<1>5. u[n] = k /\ \A p \in DOMAIN chain : p # n => u[p] = chain[p]
  BY <1>1, <1>3
<1>6. \A p \in DOMAIN chain : u[p].session = chain[p].session
  BY <1>2, <1>5
<1> QED BY <1>1, <1>4, <1>5, <1>6 DEF S, k

(* So it resizes the tail cluster of the table. *)
LEMMA ChangeTailEffect ==
    ASSUME NEW c, Linking(c), NEW s \in Sessions, ~IsEmpty(c, s),
           NEW capacity \in Nat \ {0}, NEW count \in Nat,
           NEW d, d = ChangeTail(c, s, capacity, count),
           NEW t, t = FinalSpace(c)
    PROVE  /\ Linking(d)
           /\ SameShell(c, d)
           /\ FinalSpace(d) = Core!Resize(t, Core!TailIndex(t, s), capacity, count)
           /\ d.clusterList = c.clusterList
           /\ \A o \in Sessions : /\ Len(d.chains[o]) = Len(c.chains[o])
                                  /\ IsEmpty(d, o) <=> IsEmpty(c, o)
                                  /\ o # s => d.chains[o] = c.chains[o]
<1> DEFINE own == c.chains[s]
           last == Len(own)
           tail == Core!TailIndex(t, s)
           new == Changed(t[tail], capacity, count)
           changed == ChangedChain(own, capacity, count)
<1>1. /\ SameShell(c, d)
      /\ d.clusterList = c.clusterList
      /\ d = [c EXCEPT !.chains = [c.chains EXCEPT ![s] = changed]]
  BY ChangeTailFields DEF Linking
<1>2. c \in Compressor /\ c.chains \in [Sessions -> Seq(IdCluster)] /\ own \in Seq(IdCluster) /\ own # <<>>
  BY CompressorFields DEF Linking, IsEmpty
<1>3. /\ changed \in Seq(IdCluster) /\ Len(changed) = last /\ DOMAIN changed = DOMAIN own
      /\ last \in DOMAIN own
      /\ changed[last] = Changed(own[last], capacity, count)
      /\ \A p \in DOMAIN own : p # last => changed[p] = own[p]
      /\ \A p \in DOMAIN own : changed[p].session = own[p].session
  <2>1. /\ changed \in Seq(IdCluster) /\ Len(changed) = Len(own) /\ DOMAIN changed = DOMAIN own
        /\ Len(own) \in DOMAIN own
        /\ changed[Len(own)] = Changed(own[Len(own)], capacity, count)
        /\ \A p \in DOMAIN own : p # Len(own) => changed[p] = own[p]
        /\ \A p \in DOMAIN own : changed[p].session = own[p].session
    <3>1. changed = ChangedChain(own, capacity, count)
      OBVIOUS
    <3> HIDE DEF own, changed
    <3> QED BY <1>2, <3>1, ChangedChainPlaces
  <2> HIDE DEF own, changed
  <2> QED BY <2>1
<1>4. /\ tail \in References(c, s) /\ tail \in DOMAIN t
      /\ c.clusterList[tail].place = last
      /\ t[tail] = own[last]
      /\ \A j \in References(c, s) : j # tail => c.clusterList[j].place # last
  <2>1. /\ tail \in References(c, s) /\ tail \in DOMAIN t
        /\ c.clusterList[tail] = [session |-> s, place |-> Len(c.chains[s])]
        /\ t[tail] = TailOf(c, s)
        /\ \A j \in References(c, s) : j # tail => c.clusterList[j].place # Len(c.chains[s])
    <3> HIDE DEF tail
    <3>1. tail = Core!TailIndex(t, s)
      BY DEF tail
    <3> QED BY <3>1, TailReference
  <2> HIDE DEF tail
  <2>2. TailOf(c, s) = own[last] /\ Len(c.chains[s]) = last
    BY DEF TailOf
  <2> QED BY <2>1, <2>2
<1> HIDE DEF changed, tail
<1>5. d.chains = [c.chains EXCEPT ![s] = changed] /\ d \in Compressor
  <2> DEFINE S == Seq(IdCluster)
             chains == [c.chains EXCEPT ![s] = changed]
  <2>1. chains \in [Sessions -> S]
    <3>1. c.chains \in [Sessions -> S] /\ changed \in S
      BY <1>2, <1>3
    <3> HIDE DEF S
    <3> QED BY <3>1
  <2> HIDE DEF chains
  <2>2. d = [c EXCEPT !.chains = chains]
    BY <1>1 DEF chains
  <2>3. d.chains = chains /\ d \in Compressor
    BY <1>2, <2>1, <2>2 DEF Compressor
  <2> QED BY <2>3 DEF chains
<1>6. d.chains[s] = changed /\ \A o \in Sessions : o # s => d.chains[o] = c.chains[o]
  <2>1. DOMAIN c.chains = Sessions
    BY <1>2
  <2> QED BY <1>5, <2>1
<1>7. \A o \in Sessions : /\ Len(d.chains[o]) = Len(c.chains[o])
                          /\ DOMAIN d.chains[o] = DOMAIN c.chains[o]
                          /\ IsEmpty(d, o) <=> IsEmpty(c, o)
                          /\ \A p \in DOMAIN c.chains[o] : d.chains[o][p].session = c.chains[o][p].session
  <2>1. changed # <<>>
    BY <1>3
  <2> QED BY <1>3, <1>6, <2>1 DEF IsEmpty
<1>8. Linked(d)
  BY <1>1, <1>7 DEF Linking, Linked
<1>9. /\ DOMAIN FinalSpace(d) = DOMAIN t
      /\ FinalSpace(d) = [i \in DOMAIN t |-> d.chains[c.clusterList[i].session][c.clusterList[i].place]]
  BY <1>1, SpaceIsTable DEF FinalSpace
<1>10. ASSUME NEW i \in DOMAIN t
       PROVE  d.chains[c.clusterList[i].session][c.clusterList[i].place] = IF i = tail THEN new ELSE t[i]
  <2> DEFINE o == c.clusterList[i].session
             p == c.clusterList[i].place
  <2>1. i \in DOMAIN c.clusterList
    BY SpaceIsTable
  <2>2. o \in Sessions /\ p \in DOMAIN c.chains[o] /\ t[i] = c.chains[o][p]
    BY <2>1, ReferenceHolds
  <2>3. CASE o # s
    <3>1. i # tail
      BY <1>4, <2>3 DEF References
    <3> QED BY <1>6, <2>2, <2>3, <3>1
  <2>4. CASE o = s /\ i # tail
    <3>1. i \in References(c, s)
      BY <2>1, <2>4 DEF References
    <3>2. p # last
      BY <1>4, <2>4, <3>1
    <3> QED BY <1>3, <1>6, <2>2, <2>4, <3>2
  <2>5. CASE i = tail
    <3>1. o = s /\ p = last
      BY <1>4, <2>5 DEF References
    <3> QED BY <1>3, <1>4, <1>6, <2>5, <3>1
  <2> QED BY <2>3, <2>4, <2>5
<1>11. Core!Resize(t, tail, capacity, count) = [i \in DOMAIN t |-> IF i = tail THEN new ELSE t[i]]
  <2>1. t \in Seq(IdCluster)
    BY SpaceIsTable
  <2>2. t = [i \in DOMAIN t |-> t[i]]
    BY DEF FinalSpace
  <2>3. t[tail] \in IdCluster
    BY <1>4, SpaceIsTable
  <2>4. Core!Resize(t, tail, capacity, count) = [[t EXCEPT ![tail] = [t[tail] EXCEPT !.capacity = capacity]]
           EXCEPT ![tail] = [[t[tail] EXCEPT !.capacity = capacity] EXCEPT !.count = count]]
    BY <1>4, <2>2 DEF Core!Resize
  <2>5. [[t[tail] EXCEPT !.capacity = capacity] EXCEPT !.count = count] = new
    BY <2>3 DEF IdCluster, Changed
  <2> QED BY <1>4, <2>2, <2>4, <2>5
<1>12. FinalSpace(d) = Core!Resize(t, tail, capacity, count)
  BY <1>9, <1>10, <1>11
<1> QED BY <1>1, <1>5, <1>6, <1>7, <1>8, <1>12 DEF Linking, tail

-----------------------------------------------------------------------------
(* Adding a cluster. *)

Reference(s, p) == [session |-> s, place |-> p]

Push(c, s, k) ==
    [c EXCEPT !.chains = [c.chains EXCEPT ![s] = Append(c.chains[s], k)],
              !.clusterList = Append(c.clusterList, Reference(s, Len(c.chains[s]) + 1))]

(* A sequence with one more element. *)
LEMMA Appended ==
    ASSUME NEW S, NEW q \in Seq(S), NEW e \in S
    PROVE  /\ Append(q, e) \in Seq(S) /\ Append(q, e) # <<>>
           /\ Len(q) \in Nat /\ Len(Append(q, e)) = Len(q) + 1
           /\ DOMAIN q = 1..Len(q) /\ DOMAIN Append(q, e) = 1..(Len(q) + 1)
           /\ Append(q, e)[Len(q) + 1] = e
           /\ \A i \in 1..Len(q) : Append(q, e)[i] = q[i]
           /\ Append(q, e) = [i \in 1..(Len(q) + 1) |-> IF i = Len(q) + 1 THEN e ELSE q[i]]
<1> DEFINE u == Append(q, e)
           n == Len(q)
<1>1. /\ u \in Seq(S) /\ u # <<>>
      /\ n \in Nat /\ Len(u) = n + 1
      /\ DOMAIN q = 1..n /\ DOMAIN u = 1..(n + 1)
      /\ u[n + 1] = e
      /\ \A i \in 1..n : u[i] = q[i]
  OBVIOUS
<1> HIDE DEF u, n
<1>2. ASSUME NEW i \in 1..(n + 1)
      PROVE  u[i] = IF i = n + 1 THEN e ELSE q[i]
  BY <1>1
<1>3. u = [i \in 1..(n + 1) |-> u[i]]
  BY <1>1
<1>4. u = [i \in 1..(n + 1) |-> IF i = n + 1 THEN e ELSE q[i]]
  BY <1>2, <1>3
<1> QED BY <1>1, <1>4 DEF u, n

LEMMA PushFields ==
    ASSUME NEW c, Linking(c), NEW s \in Sessions, NEW k \in IdCluster, NEW d, d = Push(c, s, k)
    PROVE  /\ d \in Compressor
           /\ SameShell(c, d)
           /\ d.clusterList = Append(c.clusterList, Reference(s, Len(c.chains[s]) + 1))
           /\ d.chains[s] = Append(c.chains[s], k)
           /\ \A o \in Sessions : o # s => d.chains[o] = c.chains[o]
<1> DEFINE P == Nat \ {0}
           R == [session : Sessions, place : P]
           chains == [c.chains EXCEPT ![s] = Append(c.chains[s], k)]
           list == Append(c.clusterList, Reference(s, Len(c.chains[s]) + 1))
<1>1. c.chains \in [Sessions -> Seq(IdCluster)] /\ c.clusterList \in Seq(R) /\ c \in Compressor
  BY CompressorFields DEF Linking
<1>2. chains \in [Sessions -> Seq(IdCluster)]
  <2> DEFINE S == IdCluster
  <2>1. c.chains \in [Sessions -> Seq(S)] /\ k \in S
    BY <1>1
  <2> HIDE DEF S
  <2>2. Append(c.chains[s], k) \in Seq(S)
    BY <2>1
  <2>3. chains \in [Sessions -> Seq(S)]
    BY <2>1, <2>2
  <2> QED BY <2>3 DEF S
<1>3. list \in Seq(R)
  <2>1. Len(c.chains[s]) + 1 \in P
    BY ChainClusters
  <2>2. Reference(s, Len(c.chains[s]) + 1) \in R
    BY <2>1 DEF Reference
  <2> HIDE DEF R, P
  <2> QED BY <1>1, <2>2
<1>4. d = [c EXCEPT !.chains = chains, !.clusterList = list]
  BY DEF Push
<1>5. chains[s] = Append(c.chains[s], k) /\ \A o \in Sessions : o # s => chains[o] = c.chains[o]
  BY <1>1
<1> HIDE DEF chains, list
<1>6. d \in Compressor /\ SameShell(c, d) /\ d.chains = chains /\ d.clusterList = list
  BY <1>1, <1>2, <1>3, <1>4 DEF Compressor, SameShell
<1> QED BY <1>5, <1>6 DEF list

(* A cluster that is added to a chain and referred to is appended to the
   table.                                                                  *)
LEMMA PushEffect ==
    ASSUME NEW c, Linking(c), NEW s \in Sessions, NEW k \in IdCluster, k.session = s,
           NEW d, d = Push(c, s, k), NEW t, t = FinalSpace(c)
    PROVE  Linking(d) /\ FinalSpace(d) = Append(t, k)
<1> DEFINE n == Len(c.clusterList)
           m == Len(c.chains[s])
           list == d.clusterList
           own == d.chains[s]
           new == Reference(s, m + 1)
<1>1. /\ d \in Compressor
      /\ list = Append(c.clusterList, new)
      /\ own = Append(c.chains[s], k)
      /\ \A o \in Sessions : o # s => d.chains[o] = c.chains[o]
  BY PushFields
<1>2. /\ n \in Nat /\ Len(t) = n /\ DOMAIN t = 1..n /\ DOMAIN c.clusterList = 1..n
      /\ t \in Seq(IdCluster)
  BY SpaceIsTable
<1>3. /\ c.chains[s] \in Seq(IdCluster) /\ m \in Nat /\ DOMAIN c.chains[s] = 1..m
  BY ChainClusters
<1>4. /\ DOMAIN own = 1..(m + 1) /\ own[m + 1] = k
      /\ \A p \in 1..m : own[p] = c.chains[s][p]
  <2> DEFINE Clusters == IdCluster
             before == c.chains[s]
  <2>1. before \in Seq(Clusters) /\ k \in Clusters /\ own = Append(before, k) /\ Len(before) = m
    BY <1>1, <1>3
  <2>2. /\ DOMAIN Append(before, k) = 1..(Len(before) + 1)
        /\ Append(before, k)[Len(before) + 1] = k
        /\ \A p \in 1..Len(before) : Append(before, k)[p] = before[p]
    <3> HIDE DEF Clusters, before
    <3> QED BY <2>1, Appended
  <2> HIDE DEF own, m
  <2> QED BY <2>1, <2>2
<1>5. /\ DOMAIN list = 1..(n + 1) /\ list[n + 1] = new
      /\ \A i \in 1..n : list[i] = c.clusterList[i]
  <2> DEFINE P == Nat \ {0}
             R == [session : Sessions, place : P]
             before == c.clusterList
  <2>1. before \in Seq(R) /\ list = Append(before, new) /\ Len(before) = n
    BY <1>1, CompressorFields DEF Linking
  <2>2. new \in R
    <3>1. m + 1 \in P
      BY <1>3
    <3> HIDE DEF P
    <3> QED BY <3>1 DEF Reference
  <2>3. /\ DOMAIN Append(before, new) = 1..(Len(before) + 1)
        /\ Append(before, new)[Len(before) + 1] = new
        /\ \A p \in 1..Len(before) : Append(before, new)[p] = before[p]
    <3> HIDE DEF R, before, new
    <3> QED BY <2>1, <2>2, Appended
  <2> HIDE DEF list, n, new
  <2> QED BY <2>1, <2>3
<1>6. new.session = s /\ new.place = m + 1
  BY DEF Reference
<1> HIDE DEF n, m, list, own, new
<1>7. /\ References(d, s) = References(c, s) \cup {n + 1}
      /\ \A o : o # s => References(d, o) = References(c, o)
      /\ \A i \in References(c, s) : i \in 1..n /\ c.clusterList[i].session = s
  BY <1>2, <1>5, <1>6 DEF References, list
<1>8. ASSUME NEW i \in 1..n
      PROVE  /\ c.clusterList[i].session \in Sessions
             /\ c.clusterList[i].place \in DOMAIN c.chains[c.clusterList[i].session]
             /\ t[i] = c.chains[c.clusterList[i].session][c.clusterList[i].place]
  BY <1>2, ReferenceHolds
<1>9. Linked(d)
  <2> SUFFICES ASSUME NEW o \in Sessions
               PROVE  /\ DOMAIN d.chains[o] = {list[i].place : i \in References(d, o)}
                      /\ \A i, j \in References(d, o) : i < j => list[i].place < list[j].place
                      /\ \A p \in DOMAIN d.chains[o] : d.chains[o][p].session = o
    BY DEF Linked, References, list
  <2>1. /\ DOMAIN c.chains[o] = {c.clusterList[i].place : i \in References(c, o)}
        /\ \A i, j \in References(c, o) : i < j => c.clusterList[i].place < c.clusterList[j].place
        /\ \A p \in DOMAIN c.chains[o] : c.chains[o][p].session = o
    BY DEF Linking, Linked, References
  <2>2. \A i \in References(c, o) : i \in 1..n
    BY <1>2 DEF References
  <2>3. CASE o # s
    <3>1. d.chains[o] = c.chains[o] /\ References(d, o) = References(c, o)
      BY <1>1, <1>7, <2>3
    <3>2. \A i \in References(c, o) : list[i].place = c.clusterList[i].place
      BY <1>5, <2>2
    <3>3. {list[i].place : i \in References(c, o)} = {c.clusterList[i].place : i \in References(c, o)}
      BY <3>2
    <3> QED BY <2>1, <3>1, <3>2, <3>3
  <2>4. CASE o = s
    <3>1. \A i \in References(c, s) : list[i].place = c.clusterList[i].place /\ list[i].place \in 1..m
      BY <1>3, <1>5, <2>1, <2>2, <2>4
    <3>2. list[n + 1].place = m + 1
      BY <1>5, <1>6
    <3>3. 1..(m + 1) = {list[i].place : i \in References(d, s)}
      <4>1. 1..(m + 1) = 1..m \cup {m + 1}
        BY <1>3
      <4>2. 1..m = {list[i].place : i \in References(c, s)}
        <5>1. {list[i].place : i \in References(c, s)} = {c.clusterList[i].place : i \in References(c, s)}
          BY <3>1
        <5> QED BY <1>3, <2>1, <2>4, <5>1
      <4> QED BY <1>7, <3>2, <4>1, <4>2
    <3>4. ASSUME NEW i \in References(d, s), NEW j \in References(d, s), i < j
          PROVE  list[i].place < list[j].place
      <4>1. i # n + 1
        <5>1. j <= n + 1 /\ j \in Int
          BY <1>2, <1>7
        <5> QED BY <1>2, <3>4, <5>1
      <4>2. i \in References(c, s)
        BY <1>7, <4>1
      <4>3. CASE j = n + 1
        <5>1. list[i].place \in 1..m /\ list[j].place = m + 1
          BY <3>1, <3>2, <4>2, <4>3
        <5> QED BY <1>3, <5>1
      <4>4. CASE j # n + 1
        BY <1>7, <2>1, <2>4, <3>1, <3>4, <4>2, <4>4
      <4> QED BY <4>3, <4>4
    <3>5. ASSUME NEW p \in 1..(m + 1)
          PROVE  own[p].session = s
      <4>1. CASE p = m + 1
        BY <1>4, <4>1
      <4>2. CASE p # m + 1
        <5>1. p \in 1..m
          BY <1>3, <4>2
        <5> QED BY <1>3, <1>4, <2>1, <2>4, <5>1
      <4> QED BY <4>1, <4>2
    <3> QED BY <1>4, <2>4, <3>3, <3>4, <3>5 DEF own
  <2> QED BY <2>3, <2>4
<1>10. FinalSpace(d) = [i \in 1..(n + 1) |-> d.chains[list[i].session][list[i].place]]
  BY <1>5 DEF FinalSpace, list
<1>11. ASSUME NEW i \in 1..(n + 1)
       PROVE  d.chains[list[i].session][list[i].place] = IF i = n + 1 THEN k ELSE t[i]
  <2>1. CASE i = n + 1
    BY <1>4, <1>5, <1>6, <2>1 DEF own
  <2>2. CASE i # n + 1
    <3>1. i \in 1..n
      BY <1>2, <2>2
    <3>2. /\ c.clusterList[i].session \in Sessions
          /\ c.clusterList[i].place \in DOMAIN c.chains[c.clusterList[i].session]
          /\ t[i] = c.chains[c.clusterList[i].session][c.clusterList[i].place]
      BY <1>8, <3>1
    <3>3. CASE c.clusterList[i].session = s
      <4>1. c.clusterList[i].place \in 1..m /\ t[i] = c.chains[s][c.clusterList[i].place]
        BY <1>3, <3>2, <3>3
      <4>2. d.chains[s][c.clusterList[i].place] = c.chains[s][c.clusterList[i].place]
        BY <1>4, <4>1 DEF own
      <4>3. list[i] = c.clusterList[i]
        BY <1>5, <3>1
      <4> QED BY <2>2, <3>3, <4>1, <4>2, <4>3
    <3>4. CASE c.clusterList[i].session # s
      BY <1>1, <1>5, <2>2, <3>1, <3>2, <3>4
    <3> QED BY <3>3, <3>4
  <2> QED BY <2>1, <2>2
<1>12. Append(t, k) = [i \in 1..(n + 1) |-> IF i = n + 1 THEN k ELSE t[i]]
  <2> DEFINE Clusters == IdCluster
  <2>1. t \in Seq(Clusters) /\ k \in Clusters /\ Len(t) = n
    BY <1>2
  <2>2. Append(t, k) = [i \in 1..(Len(t) + 1) |-> IF i = Len(t) + 1 THEN k ELSE t[i]]
    <3> HIDE DEF Clusters
    <3> QED BY <2>1, Appended
  <2> QED BY <2>1, <2>2
<1> QED BY <1>1, <1>9, <1>10, <1>11, <1>12 DEF Linking

-----------------------------------------------------------------------------
(* Collisions: between sessions that are far apart neither detects any. *)

LEMMA SpaceLimits ==
    ASSUME NEW c
    PROVE  /\ NextBaseFinal(c) = Core!NextBaseFinal(FinalSpace(c))
           /\ FinalIdLimit(c) = Core!FinalLimit(FinalSpace(c))
BY DEF NextBaseFinal, FinalIdLimit, Core!NextBaseFinal, Core!FinalLimit

(* A compressor whose tables are correct, which has finalized no more IDs
   than a session can have and reserves no more than the capacity.         *)
Bounded(c) ==
    /\ Linking(c)
    /\ Core!TableInv(FinalSpace(c))
    /\ Reserved(c)
    /\ \A o \in Sessions : Core!NextBase(FinalSpace(c), o) <= 2 * MaxGenerated + 1

LEMMA SessionTypes == \A s \in Sessions : s \in Nat /\ s \in Int /\ s > 0
BY Constants

LEMMA CapacityTypes == \A n \in AllCapacities : n \in Nat /\ n \in Int /\ n > 0
BY Constants

LEMMA KnownTypes ==
    ASSUME NEW c \in Compressor
    PROVE  Known(c) \subseteq Sessions
<1>1. c.sessionList \in Seq(Sessions)
  BY CompressorFields
<1> QED BY <1>1 DEF Known

(* The UUIDs that the clusters of a session reserve end soon. *)
LEMMA TailEnds ==
    ASSUME NEW c, Bounded(c), NEW o \in Sessions, ~IsEmpty(c, o)
    PROVE  \E capacity \in AllCapacities :
              /\ StableOf(o, LastAllocatedLocal(TailOf(c, o))) \in Int
              /\ StableOf(o, LastAllocatedLocal(TailOf(c, o))) < o + 2 * MaxGenerated + capacity
<1> DEFINE t == FinalSpace(c)
           k == Core!TailIndex(t, o)
           tail == TailOf(c, o)
<1>1. Core!IsTail(t, o, k) /\ k \in DOMAIN t /\ t[k] = tail /\ k \in References(c, o)
  BY TailReference DEF Bounded
<1>2. k \in DOMAIN c.clusterList
  BY <1>1 DEF References
<1>3. PICK capacity \in AllCapacities : Remaining(tail) <= capacity
  BY <1>1, <1>2 DEF Bounded, Reserved
<1>4. Core!NextBase(t, o) = tail.count - tail.baseLocal
  BY <1>1, Constants, Core!NextBaseOfTail DEF Bounded
<1>5. Core!NextBase(t, o) <= 2 * MaxGenerated + 1
  BY DEF Bounded
<1>6. tail \in IdCluster
  BY TailType DEF Bounded
<1>7. tail.count \in Int /\ tail.baseLocal \in Int /\ tail.capacity \in Int
  BY <1>6 DEF IdCluster
<1>8. o \in Int /\ capacity \in Int /\ MaxGenerated \in Int
  BY Constants, SessionTypes, CapacityTypes
<1> HIDE DEF tail
<1>9. tail.count - tail.baseLocal <= 2 * MaxGenerated + 1 /\ tail.capacity - tail.count <= capacity
  BY <1>3, <1>4, <1>5 DEF Remaining
<1>10. StableOf(o, LastAllocatedLocal(tail)) = o + (-(tail.baseLocal - (tail.capacity - 1)) - 1)
  BY DEF StableOf, LastAllocatedLocal
<1>11. \A so, n, b, a, m, e \in Int :
          n - b <= 2 * m + 1 /\ a - n <= e =>
            /\ so + (-(b - (a - 1)) - 1) \in Int
            /\ so + (-(b - (a - 1)) - 1) < so + 2 * m + e
  OBVIOUS
<1>12. /\ o + (-(tail.baseLocal - (tail.capacity - 1)) - 1) \in Int
       /\ o + (-(tail.baseLocal - (tail.capacity - 1)) - 1) < o + 2 * MaxGenerated + capacity
  BY <1>7, <1>8, <1>9, <1>11
<1> QED BY <1>10, <1>12 DEF tail

LEMMA ApartArithmetic ==
    ASSUME NEW s \in Int, NEW o \in Int, NEW m \in Nat, NEW e \in Int, NEW reach \in Int,
           s + 2 * m + e <= o, reach < 2 * m + e
    PROVE  ~(o <= s + reach)
OBVIOUS

(* No claim of a session reaches into the UUIDs of another. *)
LEMMA NoCollision ==
    ASSUME SessionsFarApart, NEW c, Bounded(c), NEW s \in Sessions,
           NEW baseLocal \in Int, baseLocal < 0, NEW capacity \in Nat,
           NEW spare \in AllCapacities, capacity - baseLocal <= 2 * MaxGenerated + spare
    PROVE  ~ClusterCollides(c, s, baseLocal, capacity)
<1> DEFINE base == StableOf(s, baseLocal)
           others == {o \in Known(c) \ {s} : ~IsEmpty(c, o)}
<1> SUFFICES ASSUME NEW o \in Closest(others, base + (capacity - 1)),
                    StableOf(o, LastAllocatedLocal(TailOf(c, o))) >= base
             PROVE  FALSE
  BY DEF ClusterCollides
<1>1. o \in Sessions /\ o # s /\ ~IsEmpty(c, o) /\ o <= base + (capacity - 1)
  <2>1. o \in others /\ o <= base + (capacity - 1)
    BY DEF Closest
  <2> QED BY <2>1, KnownTypes DEF Bounded, Linking
<1>2. o \in Int /\ s \in Int /\ spare \in Int /\ MaxGenerated \in Int /\ MaxGenerated \in Nat
  BY <1>1, Constants, SessionTypes, CapacityTypes
<1>3. base = s + (-baseLocal - 1)
  BY DEF StableOf
<1>4. CASE s < o
  <2>1. s + 2 * MaxGenerated + spare <= o
    BY <1>1, <1>4 DEF SessionsFarApart
  <2>2. \A cap, b, x, y \in Int : cap - b <= x => ((-b - 1) + (cap - 1) < x
                                      /\ y + (-b - 1) + (cap - 1) = y + ((-b - 1) + (cap - 1)))
    OBVIOUS
  <2>3. 2 * MaxGenerated + spare \in Int /\ capacity \in Int
    BY <1>2
  <2>4. (-baseLocal - 1) + (capacity - 1) < 2 * MaxGenerated + spare
    BY <2>2, <2>3, <1>2
  <2>5. o <= s + ((-baseLocal - 1) + (capacity - 1))
    BY <1>1, <1>2, <1>3, <2>2, <2>3
  <2> QED BY <1>2, <2>1, <2>3, <2>4, <2>5, ApartArithmetic
<1>5. CASE o < s
  <2>1. PICK reserved \in AllCapacities :
           /\ StableOf(o, LastAllocatedLocal(TailOf(c, o))) \in Int
           /\ StableOf(o, LastAllocatedLocal(TailOf(c, o))) < o + 2 * MaxGenerated + reserved
    BY <1>1, TailEnds
  <2>2. o + 2 * MaxGenerated + reserved <= s
    BY <1>1, <1>5 DEF SessionsFarApart
  <2>3. base >= s /\ base \in Int
    BY <1>2, <1>3
  <2>4. reserved \in Int
    BY CapacityTypes
  <2>5. o + 2 * MaxGenerated + reserved \in Int
    BY <1>2, <2>4
  <2> HIDE DEF base
  <2> QED BY <1>2, <2>1, <2>2, <2>3, <2>5
<1> QED BY <1>1, <1>2, <1>4, <1>5

(* Nor does Rust find a range to collide. *)
LEMMA NoRangeCollision ==
    ASSUME SessionsFarApart, NEW c, Bounded(c), NEW s \in Sessions,
           NEW base \in Nat \ {0}, NEW len \in Nat, base + len <= 2 * MaxGenerated,
           NEW known, known \subseteq Sessions,
           NEW rangeBase, rangeBase = s + base - 1
    PROVE  ~Core!RangeCollides(known, FinalSpace(c), s, rangeBase, rangeBase + len + c.clusterCapacity)
<1> DEFINE t == FinalSpace(c)
           spare == c.clusterCapacity
<1> SUFFICES ASSUME NEW o \in Core!Nearest(known, rangeBase + len + spare),
                    s # o, rangeBase <= Core!MaxAllocatedStable(t, o)
             PROVE  FALSE
  BY DEF Core!RangeCollides
<1>1. o \in Sessions /\ o <= rangeBase + len + spare
  BY DEF Core!Nearest
<1>2. spare \in AllCapacities
  BY DEF Bounded, Reserved
<1> HIDE DEF spare
<1>3. o \in Int /\ s \in Int /\ spare \in Int /\ MaxGenerated \in Int /\ MaxGenerated \in Nat
  BY <1>1, <1>2, Constants, SessionTypes, CapacityTypes
<1>4. rangeBase \in Int /\ rangeBase >= s
  BY <1>3
<1>5. CASE s < o
  <2>1. s + 2 * MaxGenerated + spare <= o
    BY <1>1, <1>2, <1>5 DEF SessionsFarApart
  <2>2. (base - 1) + len + spare \in Int /\ (base - 1) + len + spare < 2 * MaxGenerated + spare
    BY <1>3
  <2>3. o <= s + ((base - 1) + len + spare)
    BY <1>1, <1>3
  <2> QED BY <1>3, <2>1, <2>2, <2>3, ApartArithmetic
<1>6. CASE o < s
  <2>1. CASE Core!Chain(t, o) = {}
    <3>1. Core!MaxAllocatedStable(t, o) = o
      BY <2>1 DEF Core!MaxAllocatedStable
    <3> QED BY <1>3, <1>4, <1>6, <3>1
  <2>2. CASE Core!Chain(t, o) # {}
    <3>1. ~IsEmpty(c, o) /\ Core!TailCluster(t, o) = TailOf(c, o)
      BY <1>1, <2>2, ChainClusters, TailReference DEF Bounded
    <3>2. Core!MaxAllocatedStable(t, o) = Core!StableOf(o, Core!MaxAllocatedLocal(TailOf(c, o)))
      BY <2>2, <3>1 DEF Core!MaxAllocatedStable
    <3>3. Core!StableOf(o, Core!MaxAllocatedLocal(TailOf(c, o))) = o + (-(Core!MaxAllocatedLocal(TailOf(c, o)))) - 1
      BY DEF Core!StableOf, Core!GenCount
    <3>4. Core!MaxAllocatedLocal(TailOf(c, o)) = LastAllocatedLocal(TailOf(c, o))
      BY DEF Core!MaxAllocatedLocal, LastAllocatedLocal
    <3>5. PICK reserved \in AllCapacities :
             /\ StableOf(o, LastAllocatedLocal(TailOf(c, o))) \in Int
             /\ StableOf(o, LastAllocatedLocal(TailOf(c, o))) < o + 2 * MaxGenerated + reserved
      BY <1>1, <3>1, TailEnds
    <3>6. LastAllocatedLocal(TailOf(c, o)) \in Int
      <4>1. TailOf(c, o) \in IdCluster
        BY <1>1, <3>1, TailType DEF Bounded
      <4> QED BY <4>1 DEF IdCluster, LastAllocatedLocal
    <3>7. Core!MaxAllocatedStable(t, o) = StableOf(o, LastAllocatedLocal(TailOf(c, o)))
      <4> DEFINE last == LastAllocatedLocal(TailOf(c, o))
      <4>1. o + (-last) - 1 = o + (-last - 1)
        <5>1. last \in Int
          BY <3>6
        <5> HIDE DEF last
        <5> QED BY <1>3, <5>1
      <4> QED BY <3>2, <3>3, <3>4, <4>1 DEF StableOf
    <3>8. o + 2 * MaxGenerated + reserved <= s
      BY <1>1, <1>6 DEF SessionsFarApart
    <3>9. reserved \in Int
      BY CapacityTypes
    <3>10. o + 2 * MaxGenerated + reserved \in Int
      BY <1>3, <3>9
    <3> QED BY <1>3, <1>4, <3>5, <3>7, <3>8, <3>10
  <2> QED BY <2>1, <2>2
<1> QED BY <1>3, <1>5, <1>6

-----------------------------------------------------------------------------
(* A claim does to the table what the claim of Rust does. *)

LEMMA NextBaseFinalType ==
    ASSUME NEW c, Linking(c)
    PROVE  NextBaseFinal(c) \in Nat
<1> DEFINE t == FinalSpace(c)
           last == Len(t)
<1>1. t \in Seq(IdCluster) /\ (t # <<>> => t[last] \in IdCluster)
  <2>0. /\ t \in Seq(IdCluster) /\ Len(t) = Len(c.clusterList) /\ Len(c.clusterList) \in Nat
        /\ t = <<>> <=> Len(c.clusterList) = 0
        /\ \A i \in 1..Len(c.clusterList) : t[i] \in IdCluster
    BY SpaceIsTable
  <2>1. t \in Seq(IdCluster) /\ last \in Nat /\ (t = <<>> <=> last = 0) /\ \A i \in 1..last : t[i] \in IdCluster
    BY <2>0
  <2> HIDE DEF t, last
  <2> QED BY <2>1
<1>2. t # <<>> => t[last].baseFinal \in Nat /\ t[last].capacity \in Nat
  BY <1>1 DEF IdCluster
<1>3. NextBaseFinal(c) = IF t = <<>> THEN 0 ELSE t[last].baseFinal + t[last].capacity
  BY DEF NextBaseFinal
<1> HIDE DEF t, last
<1> QED BY <1>2, <1>3

LEMMA AddClusterEffect ==
    ASSUME NEW c, Linking(c), NEW s \in Sessions, NEW baseLocal \in Int, baseLocal < 0,
           NEW capacity \in Nat \ {0}, NEW count \in Nat,
           ~ClusterCollides(c, s, baseLocal, capacity),
           NEW d, d = AddCluster(c, s, baseLocal, capacity, count),
           NEW t, t = FinalSpace(c)
    PROVE  /\ Linking(d) /\ SameShell(c, d)
           /\ FinalSpace(d) = Append(t, Core!NewCluster(t, s, baseLocal, capacity, count))
<1> DEFINE k == [session |-> s, baseFinal |-> NextBaseFinal(c), baseLocal |-> baseLocal,
                 capacity |-> capacity, count |-> count]
<1>1. k \in IdCluster /\ k.session = s
  BY NextBaseFinalType DEF IdCluster
<1>2. k = Core!NewCluster(t, s, baseLocal, capacity, count)
  BY SpaceLimits DEF Core!NewCluster
<1>3. d = Push(c, s, k)
  <2>1. s \in DOMAIN c.chains
    BY CompressorFields DEF Linking
  <2>2. d = [c EXCEPT !.chains[s] = Append(@, k),
                      !.clusterList = Append(@, [session |-> s, place |-> Len(c.chains[s]) + 1])]
    BY DEF AddCluster
  <2> QED BY <2>1, <2>2 DEF Push, Reference
<1> HIDE DEF k
<1> QED BY <1>1, <1>2, <1>3, PushFields, PushEffect

(* Whether a claim collides is a matter of the chains of other sessions. *)
LEMMA SameCollisions ==
    ASSUME NEW c, Linking(c), NEW d, d.sessionList = c.sessionList, NEW s,
           \A o \in Sessions : /\ IsEmpty(d, o) <=> IsEmpty(c, o)
                               /\ o # s => d.chains[o] = c.chains[o],
           NEW baseLocal, NEW capacity, ~ClusterCollides(c, s, baseLocal, capacity)
    PROVE  ~ClusterCollides(d, s, baseLocal, capacity)
<1>1. Known(d) = Known(c) /\ Known(c) \subseteq Sessions
  BY KnownTypes DEF Known, Linking
<1>2. {o \in Known(d) \ {s} : ~IsEmpty(d, o)} = {o \in Known(c) \ {s} : ~IsEmpty(c, o)}
  BY <1>1
<1> DEFINE others == {o \in Known(c) \ {s} : ~IsEmpty(c, o)}
           top == StableOf(s, baseLocal) + (capacity - 1)
<1>3. \A o \in Closest(others, top) : TailOf(d, o) = TailOf(c, o)
  BY <1>1 DEF Closest, TailOf
<1>4. ClusterCollides(d, s, baseLocal, capacity) <=>
         \E o \in Closest(others, top) :
            StableOf(o, LastAllocatedLocal(TailOf(d, o))) >= StableOf(s, baseLocal)
  BY <1>2 DEF ClusterCollides
<1>5. ClusterCollides(c, s, baseLocal, capacity) <=>
         \E o \in Closest(others, top) :
            StableOf(o, LastAllocatedLocal(TailOf(c, o))) >= StableOf(s, baseLocal)
  BY DEF ClusterCollides
<1> HIDE DEF others, top
<1> QED BY <1>3, <1>4, <1>5

(* The tail of a session is the last cluster in the one sense if and only if
   it is in the other.                                                     *)
LEMMA TailIsLastAgrees ==
    ASSUME NEW c, Bounded(c), NEW s \in Sessions, ~IsEmpty(c, s)
    PROVE  TailIsLast(c, s) <=> Core!TailIsLast(FinalSpace(c), s)
<1> DEFINE t == FinalSpace(c)
           k == Core!TailIndex(t, s)
           list == c.clusterList
           place == Len(c.chains[s])
<1>1. Linking(c) /\ Core!TableInv(t)
  BY DEF Bounded
<1>2. /\ k \in References(c, s) /\ k \in DOMAIN t
      /\ list[k] = [session |-> s, place |-> place]
      /\ Core!TailCluster(t, s) = t[k]
      /\ \A j \in References(c, s) : j # k => list[j].place # place
  BY <1>1, TailReference
<1>3. /\ Len(t) = Len(list) /\ (list = <<>> <=> Len(list) = 0) /\ DOMAIN t = 1..Len(list)
      /\ DOMAIN list = 1..Len(list) /\ Len(list) \in Nat
  BY <1>1, SpaceIsTable
<1>4. TailIsLast(c, s) <=> list # <<>> /\ list[Len(list)] = [session |-> s, place |-> place]
  BY DEF TailIsLast
<1>5. Core!TailIsLast(t, s) <=> t[k].baseFinal = t[Len(t)].baseFinal
  BY <1>2 DEF Core!TailIsLast
<1>6. t[k].baseFinal = t[Len(t)].baseFinal => k = Len(t)
  BY <1>1, <1>2, Constants, Core!TailIsLastIndex
<1> HIDE DEF t, k, list, place
<1>7. list # <<>> /\ Len(list) \in DOMAIN list
  BY <1>2, <1>3
<1>8. ASSUME list[Len(list)] = [session |-> s, place |-> place]
      PROVE  k = Len(list)
  <2>1. list[Len(list)].session = s /\ list[Len(list)].place = place
    BY <1>8
  <2>2. Len(list) \in References(c, s)
    BY <1>7, <2>1 DEF References, list
  <2> QED BY <1>2, <2>1, <2>2
<1> QED BY <1>2, <1>3, <1>4, <1>5, <1>6, <1>7, <1>8 DEF t

(* A session's first claim. *)
LEMMA FirstClaimAgrees ==
    ASSUME SessionsFarApart, NEW c, Bounded(c), NEW r \in Core!Ranges, r.len # 0,
           r.base + r.len <= 2 * MaxGenerated, IsEmpty(c, r.session),
           NEW d, d = Claim(c, r), NEW t, t = FinalSpace(c)
    PROVE  /\ Linking(d) /\ SameShell(c, d)
           /\ FinalSpace(d) = Core!Claim(t, r, c.clusterCapacity)
<1> DEFINE s == r.session
           spare == c.clusterCapacity
           reserve == spare + r.len
           start == -r.base
<1>1. /\ s \in Sessions /\ r.base \in Nat /\ r.base > 0 /\ r.len \in Nat /\ r.len > 0
  BY DEF Core!Ranges, Core!Positive
<1>2. Linking(c) /\ spare \in AllCapacities /\ spare \in Nat /\ spare > 0
  BY CapacityTypes DEF Bounded, Reserved
<1>3. start \in Int /\ start < 0 /\ reserve \in Nat \ {0} /\ reserve \in Nat
  BY <1>1, <1>2
<1>4. reserve - start <= 2 * MaxGenerated + spare
  <2>1. MaxGenerated \in Int
    BY Constants
  <2>2. \A base, len, most, e \in Int : base + len <= 2 * most => (e + len) - (-base) <= 2 * most + e
    OBVIOUS
  <2> HIDE DEF spare
  <2> QED BY <1>1, <1>2, <2>1, <2>2
<1>5. d = AddCluster(c, s, start, reserve, r.len)
  BY DEF Claim
<1>6. Core!Claim(t, r, spare) = Append(t, Core!NewCluster(t, s, start, reserve, r.len))
  <2>1. Core!Chain(t, s) = {}
    BY <1>1, <1>2, ChainClusters
  <2> QED BY <2>1 DEF Core!Claim, Core!ClaimFirstCluster
<1> HIDE DEF s, spare, reserve, start
<1>7. ~ClusterCollides(c, s, start, reserve)
  BY <1>1, <1>2, <1>3, <1>4, NoCollision
<1>8. /\ Linking(d) /\ SameShell(c, d)
      /\ FinalSpace(d) = Append(t, Core!NewCluster(t, s, start, reserve, r.len))
  BY <1>1, <1>2, <1>3, <1>5, <1>7, AddClusterEffect
<1> QED BY <1>6, <1>8 DEF spare

(* A claim that the tail has room for, or that the tail, being the last
   cluster, is expanded for.                                               *)
LEMMA TailClaimAgrees ==
    ASSUME NEW c, Bounded(c), NEW r \in Core!Ranges, r.len # 0, ~IsEmpty(c, r.session),
           Fits(TailOf(c, r.session), r) \/ TailIsLast(c, r.session),
           NEW d, d = Claim(c, r), NEW t, t = FinalSpace(c)
    PROVE  /\ Linking(d) /\ SameShell(c, d)
           /\ FinalSpace(d) = Core!Claim(t, r, c.clusterCapacity)
<1> DEFINE s == r.session
           spare == c.clusterCapacity
           tail == TailOf(c, s)
           at == Core!TailIndex(t, s)
           remaining == Remaining(tail)
           claimed == (r.len - remaining) + spare
           fits == remaining >= r.len
           capacity == IF fits THEN tail.capacity ELSE tail.capacity + claimed
           count == tail.count + r.len
<1>1. /\ s \in Sessions /\ r.len \in Nat /\ r.len > 0
  BY DEF Core!Ranges, Core!Positive
<1>2. Linking(c) /\ spare \in Nat /\ spare > 0
  BY CapacityTypes DEF Bounded, Reserved
<1>3. tail.capacity \in Nat /\ tail.capacity > 0 /\ tail.count \in Nat
  BY <1>1, <1>2, TailType
<1>4. remaining \in Int /\ remaining = tail.capacity - tail.count
  BY <1>3 DEF Remaining
<1>5. Core!TailCluster(t, s) = tail /\ t[at] = tail
  <2>1. ~IsEmpty(c, s)
    OBVIOUS
  <2>2. Core!TailCluster(t, s) = TailOf(c, s) /\ t[Core!TailIndex(t, s)] = TailOf(c, s)
    <3> HIDE DEF s
    <3> QED BY <1>1, <1>2, <2>1, TailReference
  <2> QED BY <2>2
<1>6. Core!Chain(t, s) # {} /\ Core!Remaining(t, s) = remaining
  BY <1>1, <1>2, <1>5, ChainClusters DEF Core!Remaining, Remaining
<1>7. d = ChangeTail(c, s, capacity, count)
  BY DEF Claim, Fits
<1>8. TailIsLast(c, s) <=> Core!TailIsLast(t, s)
  BY <1>1, TailIsLastAgrees
<1>9. Core!Claim(t, r, spare) = Core!Resize(t, at, capacity, count)
  <2>1. CASE fits
    BY <1>5, <1>6, <2>1 DEF Core!Claim, Core!FillTail
  <2>2. CASE ~fits
    <3>1. Core!TailIsLast(t, s)
      BY <1>8, <2>2 DEF Fits
    <3> HIDE DEF remaining
    <3>2. Core!Claim(t, r, spare) = Core!ExpandTail(t, r, spare)
      BY <1>6, <2>2, <3>1 DEF Core!Claim
    <3>3. Core!ExpandTail(t, r, spare) = Core!Resize(t, at, tail.capacity + ((r.len - remaining) + spare), count)
      BY <1>5, <1>6 DEF Core!ExpandTail
    <3> QED BY <2>2, <3>2, <3>3
  <2> QED BY <2>1, <2>2
<1>10. capacity \in Nat \ {0} /\ count \in Nat
  <2>1. ~fits => tail.capacity + claimed \in Nat /\ tail.capacity + claimed > 0
    <3> HIDE DEF spare, tail, remaining
    <3> QED BY <1>1, <1>2, <1>3, <1>4
  <2>2. count \in Nat
    <3> HIDE DEF tail
    <3> QED BY <1>1, <1>3
  <2> HIDE DEF fits, claimed, tail
  <2> QED BY <1>3, <2>1, <2>2
<1> HIDE DEF s, capacity, count, at
<1>11. /\ Linking(d) /\ SameShell(c, d)
       /\ FinalSpace(d) = Core!Resize(t, Core!TailIndex(t, s), capacity, count)
  <2>1. ~IsEmpty(c, s)
    BY DEF s
  <2> HIDE DEF spare, tail, remaining, claimed, fits
  <2> QED BY <1>1, <1>2, <1>7, <1>10, <2>1, ChangeTailEffect
<1> QED BY <1>9, <1>11 DEF at

(* A claim that fills the tail and begins a new cluster. *)
LEMMA OverflowAgrees ==
    ASSUME SessionsFarApart, NEW c, Bounded(c), NEW r \in Core!Ranges, r.len # 0,
           r.base + r.len <= 2 * MaxGenerated, ~IsEmpty(c, r.session),
           ~Fits(TailOf(c, r.session), r), ~TailIsLast(c, r.session),
           NEW d, d = Claim(c, r), NEW t, t = FinalSpace(c)
    PROVE  /\ Linking(d) /\ SameShell(c, d)
           /\ FinalSpace(d) = Core!Claim(t, r, c.clusterCapacity)
<1> DEFINE s == r.session
           spare == c.clusterCapacity
           tail == TailOf(c, s)
           at == Core!TailIndex(t, s)
           remaining == Remaining(tail)
           overflow == r.len - remaining
           claimed == overflow + spare
           start == -r.base - remaining
           e == ChangeTail(c, s, tail.capacity, tail.capacity)
           u == Core!Resize(t, at, tail.capacity, tail.capacity)
<1>1. /\ s \in Sessions /\ r.len \in Nat /\ r.len > 0 /\ r.base \in Nat /\ r.base > 0
      /\ ~IsEmpty(c, s)
  BY DEF Core!Ranges, Core!Positive
<1>2. Linking(c) /\ spare \in AllCapacities /\ spare \in Nat /\ spare > 0
  BY CapacityTypes DEF Bounded, Reserved
<1>3. tail.capacity \in Nat /\ tail.capacity > 0 /\ tail.count \in Nat
  BY <1>1, <1>2, TailType
<1>4. at \in DOMAIN t /\ t[at] = tail /\ Core!TailCluster(t, s) = tail
  <2> HIDE DEF s
  <2>1. /\ Core!TailIndex(t, s) \in DOMAIN t /\ t[Core!TailIndex(t, s)] = TailOf(c, s)
        /\ Core!TailCluster(t, s) = TailOf(c, s)
    BY <1>1, <1>2, TailReference
  <2> QED BY <2>1
<1>5. Core!Chain(t, s) # {} /\ Core!Remaining(t, s) = remaining
  BY <1>1, <1>2, <1>4, ChainClusters DEF Core!Remaining, Remaining
<1>6. ~(remaining >= r.len) /\ d = AddCluster(e, s, start, claimed, overflow)
  BY DEF Claim, Fits
<1>7. Core!Claim(t, r, spare) = Append(u, Core!NewCluster(t, s, start, claimed, overflow))
  <2>1. ~Core!TailIsLast(t, s)
    BY <1>1, TailIsLastAgrees
  <2>2. Core!Claim(t, r, spare) = Core!OverflowToNew(t, r, spare)
    <3> HIDE DEF remaining
    <3> QED BY <1>5, <1>6, <2>1 DEF Core!Claim
  <2> QED BY <1>4, <1>5, <2>2 DEF Core!OverflowToNew
<1>8. remaining \in Nat
  <2>1. tail.count <= tail.capacity
    BY <1>4 DEF Bounded, Core!TableInv, Core!LocalsTile
  <2> HIDE DEF tail
  <2> QED BY <1>3, <2>1 DEF Remaining
<1> HIDE DEF remaining
<1>9. /\ overflow \in Nat /\ overflow > 0 /\ claimed \in Nat /\ claimed \in Nat \ {0}
      /\ start \in Int /\ start < 0
  <2> HIDE DEF spare
  <2> QED BY <1>1, <1>2, <1>6, <1>8
<1>10. claimed - start <= 2 * MaxGenerated + spare
  <2>1. MaxGenerated \in Int
    BY Constants
  <2>2. \A base, len, most, x, y \in Int :
           base + len <= 2 * most => ((len - y) + x) - (-base - y) <= 2 * most + x
    OBVIOUS
  <2> HIDE DEF spare
  <2> QED BY <1>1, <1>2, <1>8, <2>1, <2>2
<1> HIDE DEF s, spare, tail, at, overflow, claimed, start, e, u
<1>11. /\ Linking(e) /\ SameShell(c, e) /\ FinalSpace(e) = u
       /\ \A o \in Sessions : (IsEmpty(e, o) <=> IsEmpty(c, o)) /\ (o # s => e.chains[o] = c.chains[o])
  <2> DEFINE full == tail.capacity
  <2>1. full \in Nat \ {0} /\ full \in Nat
    BY <1>3
  <2>2. e = ChangeTail(c, s, full, full)
    BY DEF e
  <2>3. /\ Linking(e) /\ SameShell(c, e)
        /\ FinalSpace(e) = Core!Resize(t, Core!TailIndex(t, s), full, full)
        /\ \A o \in Sessions : (IsEmpty(e, o) <=> IsEmpty(c, o)) /\ (o # s => e.chains[o] = c.chains[o])
    <3>1. Linking(c) /\ s \in Sessions /\ ~IsEmpty(c, s)
      BY <1>1, <1>2
    <3> HIDE DEF full
    <3>2. /\ Linking(e) /\ SameShell(c, e)
          /\ FinalSpace(e) = Core!Resize(t, Core!TailIndex(t, s), full, full)
          /\ e.clusterList = c.clusterList
          /\ \A o \in Sessions : /\ Len(e.chains[o]) = Len(c.chains[o])
                                 /\ IsEmpty(e, o) <=> IsEmpty(c, o)
                                 /\ o # s => e.chains[o] = c.chains[o]
      <4>1. ASSUME NEW g, g = FinalSpace(c)
            PROVE  /\ Linking(e) /\ SameShell(c, e)
                   /\ FinalSpace(e) = Core!Resize(g, Core!TailIndex(g, s), full, full)
                   /\ e.clusterList = c.clusterList
                   /\ \A o \in Sessions : /\ Len(e.chains[o]) = Len(c.chains[o])
                                          /\ IsEmpty(e, o) <=> IsEmpty(c, o)
                                          /\ o # s => e.chains[o] = c.chains[o]
        BY ONLY <2>1, <2>2, <3>1, <4>1, ChangeTailEffect
      <4> QED BY <4>1
    <3> QED BY <3>2
  <2> QED BY <2>3 DEF u, at
<1>12. ~ClusterCollides(c, s, start, claimed)
  BY <1>1, <1>2, <1>9, <1>10, NoCollision
<1>13. ~ClusterCollides(e, s, start, claimed)
  BY <1>2, <1>11, <1>12, SameCollisions DEF SameShell
<1>14. /\ Linking(d) /\ SameShell(e, d)
       /\ FinalSpace(d) = Append(u, Core!NewCluster(u, s, start, claimed, overflow))
  BY <1>1, <1>6, <1>9, <1>11, <1>13, AddClusterEffect
<1>15. Core!NextBaseFinal(u) = Core!NextBaseFinal(t)
  <2> DEFINE last == Len(t)
  <2>1. /\ t \in Seq(IdCluster) /\ at \in 1..last /\ last \in 1..last
        /\ DOMAIN t = 1..last /\ t # <<>> /\ \A i \in 1..last : t[i] \in IdCluster
    <3>1. /\ t \in Seq(IdCluster) /\ DOMAIN t = 1..Len(c.clusterList) /\ Len(t) = Len(c.clusterList)
          /\ Len(c.clusterList) \in Nat /\ (t = <<>> <=> Len(c.clusterList) = 0)
          /\ \A i \in 1..Len(c.clusterList) : t[i] \in IdCluster
      <4>1. Linking(c)
        BY <1>2
      <4> QED BY ONLY <4>1, t = FinalSpace(c), SpaceTypes
    <3> QED BY <1>4, <3>1
  <2>2. /\ DOMAIN u = 1..last /\ Len(u) = last /\ u # <<>>
        /\ u[last].baseFinal = t[last].baseFinal /\ u[last].capacity = t[last].capacity
    <3> DEFINE Clusters == IdCluster
               k == [[t[at] EXCEPT !.capacity = tail.capacity] EXCEPT !.count = tail.capacity]
    <3>1. u = [[t EXCEPT ![at] = [t[at] EXCEPT !.capacity = tail.capacity]] EXCEPT ![at] = k]
      BY <1>4 DEF u, Core!Resize
    <3>2. k.baseFinal = t[at].baseFinal /\ k.capacity = t[at].capacity
      <4>1. t[at] \in IdCluster
        BY <2>1
      <4> QED BY <1>4, <4>1 DEF IdCluster
    <3> HIDE DEF Clusters, k
    <3>3. u = [t EXCEPT ![at] = k]
      BY <2>1, <3>1
    <3>4. DOMAIN u = 1..last /\ u[at] = k /\ \A i \in 1..last : i # at => u[i] = t[i]
      BY <2>1, <3>3
    <3>5. Len(u) = last
      <4>1. last \in Nat
        BY <2>1
      <4> HIDE DEF last
      <4> QED BY <3>4, <4>1
    <3>6. u # <<>>
      BY <2>1, <3>4
    <3> QED BY <2>1, <3>2, <3>4, <3>5, <3>6
  <2> QED BY <2>1, <2>2 DEF Core!NextBaseFinal
<1>16. Core!NewCluster(u, s, start, claimed, overflow) = Core!NewCluster(t, s, start, claimed, overflow)
  BY <1>15 DEF Core!NewCluster
<1>17. SameShell(c, d)
  BY <1>11, <1>14 DEF SameShell
<1> QED BY <1>7, <1>14, <1>16, <1>17 DEF spare

LEMMA ClaimAgrees ==
    ASSUME SessionsFarApart, NEW c, Bounded(c), NEW r \in Core!Ranges, r.len # 0,
           r.base + r.len <= 2 * MaxGenerated,
           NEW d, d = Claim(c, r), NEW t, t = FinalSpace(c)
    PROVE  /\ Linking(d) /\ SameShell(c, d)
           /\ FinalSpace(d) = Core!Claim(t, r, c.clusterCapacity)
<1>1. CASE IsEmpty(c, r.session)
  BY <1>1, FirstClaimAgrees
<1>2. CASE ~IsEmpty(c, r.session) /\ (Fits(TailOf(c, r.session), r) \/ TailIsLast(c, r.session))
  BY <1>2, TailClaimAgrees
<1>3. CASE ~IsEmpty(c, r.session) /\ ~Fits(TailOf(c, r.session), r) /\ ~TailIsLast(c, r.session)
  BY <1>3, OverflowAgrees
<1> QED BY <1>1, <1>2, <1>3

(* Listing the session of a range leaves its clusters alone. *)
LEMMA GetOrCreateAgrees ==
    ASSUME NEW c, Bounded(c), NEW s \in Sessions, NEW d, d = GetOrCreate(c, s)
    PROVE  /\ Bounded(d)
           /\ FinalSpace(d) = FinalSpace(c)
           /\ d.sessionList = Core!GetOrCreate(c.sessionList, s)
           /\ d.localSessionId = c.localSessionId
           /\ d.generatedIdCount = c.generatedIdCount
           /\ d.nextRangeBase = c.nextRangeBase
           /\ d.clusterCapacity = c.clusterCapacity
           /\ d.normalizer = c.normalizer
           /\ d.chains = c.chains /\ d.clusterList = c.clusterList
<1>1. c \in Compressor /\ Linked(c) /\ c.sessionList \in Seq(Sessions)
  BY CompressorFields DEF Bounded, Linking
<1>2. Known(c) = Core!Elements(c.sessionList)
  BY DEF Known, Core!Elements
<1>3. CASE s \in Known(c)
  BY <1>2, <1>3 DEF GetOrCreate, Core!GetOrCreate
<1>4. CASE s \notin Known(c)
  <2>1. d = [c EXCEPT !.sessionList = Append(c.sessionList, s)]
    BY <1>4 DEF GetOrCreate
  <2>2. /\ d.sessionList = Append(c.sessionList, s)
        /\ d.localSessionId = c.localSessionId
        /\ d.generatedIdCount = c.generatedIdCount
        /\ d.nextRangeBase = c.nextRangeBase
        /\ d.clusterCapacity = c.clusterCapacity
        /\ d.normalizer = c.normalizer
        /\ d.chains = c.chains /\ d.clusterList = c.clusterList
    BY <1>1, <2>1 DEF Compressor
  <2>3. d \in Compressor
    <3>1. Append(c.sessionList, s) \in Seq(Sessions)
      BY <1>1
    <3> QED BY <1>1, <2>1, <3>1 DEF Compressor
  <2>4. FinalSpace(d) = FinalSpace(c)
    BY <2>2 DEF FinalSpace
  <2>5. Linked(d) /\ Reserved(d)
    BY <1>1, <2>2, <2>4 DEF Linked, Bounded, Reserved
  <2>6. d.sessionList = Core!GetOrCreate(c.sessionList, s)
    BY <1>2, <1>4, <2>2 DEF Core!GetOrCreate
  <2>7. Bounded(d)
    BY <2>3, <2>4, <2>5 DEF Bounded, Linking
  <2> QED BY <2>2, <2>4, <2>6, <2>7
<1> QED BY <1>3, <1>4

(* Both refuse the same ranges as out of order. *)
LEMMA IsInOrderAgrees ==
    ASSUME NEW c, Linking(c), NEW r \in Core!Ranges
    PROVE  IsInOrder(c, r) <=> Core!IsInOrder(FinalSpace(c), r)
<1> DEFINE s == r.session
           space == FinalSpace(c)
<1>1. s \in Sessions
  BY DEF Core!Ranges
<1>2. IsEmpty(c, s) <=> Core!Chain(space, s) = {}
  BY <1>1, ChainClusters
<1>3. ~IsEmpty(c, s) => Core!TailCluster(space, s) = TailOf(c, s)
  BY <1>1, TailReference
<1> QED BY <1>2, <1>3 DEF IsInOrder, Core!IsInOrder

(* The fields of the abstraction. *)
LEMMA AbstractionFields ==
    ASSUME NEW c
    PROVE  /\ Abstraction(c).sessionId = c.localSessionId
           /\ Abstraction(c).generatedIdCount = c.generatedIdCount
           /\ Abstraction(c).nextRangeBase = c.nextRangeBase
           /\ Abstraction(c).finalIdLimit = Core!FinalLimit(FinalSpace(c))
           /\ Abstraction(c).clusterCapacity = c.clusterCapacity
           /\ Abstraction(c).sessions = c.sessionList
           /\ Abstraction(c).clusters = FinalSpace(c)
           /\ Abstraction(c).normalizer = {local \in -MaxGenerated..-1 : ContainsLocal(c.normalizer, local)}
BY SpaceLimits DEF Abstraction

(* What finalizing changes of the abstraction. *)
Listed(a, list) == [a EXCEPT !.sessions = list]
Placed(a, list, space, limit) ==
    [a EXCEPT !.sessions = list, !.clusters = space, !.finalIdLimit = limit]

LEMMA AbstractionChanges ==
    ASSUME NEW c, NEW d, NEW list, d.sessionList = list,
           NEW space, FinalSpace(d) = space, NEW limit, FinalIdLimit(d) = limit,
           d.localSessionId = c.localSessionId, d.generatedIdCount = c.generatedIdCount,
           d.nextRangeBase = c.nextRangeBase, d.clusterCapacity = c.clusterCapacity,
           d.normalizer = c.normalizer
    PROVE  /\ Abstraction(d) = Placed(Abstraction(c), list, space, limit)
           /\ FinalSpace(c) = space => Abstraction(d) = Listed(Abstraction(c), list)
<1> DEFINE held == {local \in -MaxGenerated..-1 : ContainsLocal(c.normalizer, local)}
<1>1. Abstraction(d) = [sessionId |-> c.localSessionId, generatedIdCount |-> c.generatedIdCount,
                        nextRangeBase |-> c.nextRangeBase, finalIdLimit |-> limit,
                        clusterCapacity |-> c.clusterCapacity, sessions |-> list,
                        clusters |-> space, normalizer |-> held]
  BY DEF Abstraction
<1>2. Abstraction(c) = [sessionId |-> c.localSessionId, generatedIdCount |-> c.generatedIdCount,
                        nextRangeBase |-> c.nextRangeBase, finalIdLimit |-> FinalIdLimit(c),
                        clusterCapacity |-> c.clusterCapacity, sessions |-> c.sessionList,
                        clusters |-> FinalSpace(c), normalizer |-> held]
  BY DEF Abstraction
<1>3. FinalSpace(c) = space => FinalIdLimit(c) = limit
  BY SpaceLimits
<1> DEFINE a == [sessionId |-> c.localSessionId, generatedIdCount |-> c.generatedIdCount,
                 nextRangeBase |-> c.nextRangeBase, finalIdLimit |-> FinalIdLimit(c),
                 clusterCapacity |-> c.clusterCapacity, sessions |-> c.sessionList,
                 clusters |-> FinalSpace(c), normalizer |-> held]
<1> HIDE DEF held
<1>4. Abstraction(d) = Placed(a, list, space, limit)
  <2> DEFINE x == [a EXCEPT !.sessions = list]
             y == [x EXCEPT !.clusters = space]
             z == [y EXCEPT !.finalIdLimit = limit]
  <2>1. x = [sessionId |-> c.localSessionId, generatedIdCount |-> c.generatedIdCount,
             nextRangeBase |-> c.nextRangeBase, finalIdLimit |-> FinalIdLimit(c),
             clusterCapacity |-> c.clusterCapacity, sessions |-> list,
             clusters |-> FinalSpace(c), normalizer |-> held]
    OBVIOUS
  <2> HIDE DEF x
  <2>2. y = [sessionId |-> c.localSessionId, generatedIdCount |-> c.generatedIdCount,
             nextRangeBase |-> c.nextRangeBase, finalIdLimit |-> FinalIdLimit(c),
             clusterCapacity |-> c.clusterCapacity, sessions |-> list,
             clusters |-> space, normalizer |-> held]
    BY ONLY <2>1
  <2> HIDE DEF y
  <2>3. z = Abstraction(d)
    BY ONLY <1>1, <2>2
  <2> QED BY <2>3 DEF Placed, x, y
<1>5. FinalSpace(c) = space => Abstraction(d) = Listed(a, list)
  BY <1>1, <1>3 DEF Listed
<1>6. Abstraction(c) = a
  BY <1>2
<1> HIDE DEF a
<1> QED BY <1>4, <1>5, <1>6

(* Finalizing a range: both refuse or place it in the same way. *)
LEMMA FinalizeAgrees ==
    ASSUME SessionsFarApart, NEW c, Bounded(c), NEW r \in Core!Ranges,
           r.len # 0 => r.base + r.len <= 2 * MaxGenerated,
           NEW d, d = FinalizeCreationRange(c, r)
    PROVE  /\ Linking(d)
           /\ Abstraction(d) = Core!FinalizeRange(Abstraction(c), r)
           /\ d.clusterCapacity = c.clusterCapacity
           /\ d.normalizer = c.normalizer
           /\ Core!FinalizeResult(Abstraction(c), r) = "Ok" =>
                 FinalSpace(d) = Core!Claim(FinalSpace(c), r, c.clusterCapacity)
           /\ Core!FinalizeResult(Abstraction(c), r) # "Ok" => FinalSpace(d) = FinalSpace(c)
<1> DEFINE s == r.session
           space == FinalSpace(c)
           created == GetOrCreate(c, s)
           a == Abstraction(c)
<1>1. /\ s \in Sessions /\ r.len \in Nat /\ r.base \in Nat \ {0}
  BY DEF Core!Ranges, Core!Positive
<1>2. /\ Bounded(created)
      /\ FinalSpace(created) = FinalSpace(c)
      /\ created.sessionList = Core!GetOrCreate(c.sessionList, s)
      /\ created.localSessionId = c.localSessionId
      /\ created.generatedIdCount = c.generatedIdCount
      /\ created.nextRangeBase = c.nextRangeBase
      /\ created.clusterCapacity = c.clusterCapacity
      /\ created.normalizer = c.normalizer
      /\ created.chains = c.chains /\ created.clusterList = c.clusterList
  BY <1>1, GetOrCreateAgrees
<1>3. Linking(c) /\ c \in Compressor
  BY DEF Bounded, Linking
<1>4. r.len # 0 => ~Core!Collides(a, r)
  <2> SUFFICES ASSUME r.len # 0 PROVE ~Core!Collides(a, r)
    OBVIOUS
  <2> DEFINE base == r.base
             len == r.len
             known == Core!Known(a)
             rangeBase == s + base - 1
  <2>1. base + len <= 2 * MaxGenerated
    OBVIOUS
  <2>2. known \subseteq Sessions
    BY <1>3, KnownTypes, AbstractionFields DEF Core!Known, Core!Elements, Known
  <2>3. Core!StableOf(s, -r.base) = rangeBase
    <3>1. s \in Int /\ base \in Int
      BY <1>1, SessionTypes
    <3>2. -(-r.base) = base
      BY <3>1
    <3> QED BY <3>1, <3>2 DEF Core!StableOf, Core!GenCount
  <2>4. ~Core!RangeCollides(known, FinalSpace(c), s, rangeBase, rangeBase + len + c.clusterCapacity)
    <3>1. base \in Nat \ {0} /\ len \in Nat
      BY <1>1
    <3> HIDE DEF base, len, known, s
    <3> QED BY <1>1, <2>1, <2>2, <3>1, NoRangeCollision
  <2> QED BY <2>3, <2>4, AbstractionFields DEF Core!Collides
<1>5. IsInOrder(created, r) <=> Core!IsInOrder(space, r)
  BY <1>2, IsInOrderAgrees DEF Bounded
<1>6. CASE r.len = 0
  <2>1. d = c
    BY <1>6 DEF FinalizeCreationRange
  <2>2. Core!FinalizeResult(a, r) = "MalformedIdRange"
    BY <1>6 DEF Core!FinalizeResult
  <2>3. Core!FinalizeRange(a, r) = a
    BY <2>2 DEF Core!FinalizeRange
  <2> QED BY <1>3, <2>1, <2>2, <2>3
<1>7. CASE r.len # 0 /\ ~Core!IsInOrder(space, r)
  <2>1. d = created
    BY <1>5, <1>7 DEF FinalizeCreationRange
  <2>2. Core!FinalizeResult(a, r) = "RangeFinalizedOutOfOrder"
    BY <1>4, <1>7, AbstractionFields DEF Core!FinalizeResult
  <2>3. Core!FinalizeRange(a, r) = Listed(a, Core!GetOrCreate(c.sessionList, s))
    <3>1. Core!FinalizeRange(a, r) = [a EXCEPT !.sessions = Core!GetOrCreate(a.sessions, s)]
      BY <2>2 DEF Core!FinalizeRange
    <3> QED BY <3>1, AbstractionFields DEF Listed
  <2>4. Abstraction(d) = Listed(a, Core!GetOrCreate(c.sessionList, s))
    <3>1. FinalIdLimit(d) = FinalIdLimit(c)
      BY <1>2, <2>1, SpaceLimits
    <3> QED BY <1>2, <2>1, <3>1, AbstractionChanges
  <2> QED BY <1>2, <2>1, <2>2, <2>3, <2>4, AbstractionFields DEF Bounded
<1>8. CASE r.len # 0 /\ Core!IsInOrder(space, r)
  <2> DEFINE claimed == Core!Claim(space, r, c.clusterCapacity)
  <2>1. d = Claim(created, r)
    BY <1>5, <1>8 DEF FinalizeCreationRange
  <2>2. Core!FinalizeResult(a, r) = "Ok"
    BY <1>4, <1>8, AbstractionFields DEF Core!FinalizeResult
  <2>3. /\ Linking(d) /\ SameShell(created, d)
        /\ FinalSpace(d) = Core!Claim(FinalSpace(created), r, created.clusterCapacity)
    <3>1. r.base + r.len <= 2 * MaxGenerated
      BY <1>8
    <3> HIDE DEF created
    <3> QED BY <1>2, <1>8, <2>1, <3>1, ClaimAgrees
  <2>4. FinalSpace(d) = claimed
    BY <1>2, <2>3
  <2>5. Core!FinalizeRange(a, r)
          = Placed(a, Core!GetOrCreate(c.sessionList, s), claimed, Core!FinalLimit(claimed))
    <3>1. Core!FinalizeRange(a, r)
            = [a EXCEPT !.sessions = Core!GetOrCreate(a.sessions, s),
                        !.clusters = Core!Claim(a.clusters, r, a.clusterCapacity),
                        !.finalIdLimit = Core!FinalLimit(Core!Claim(a.clusters, r, a.clusterCapacity))]
      BY <2>2 DEF Core!FinalizeRange
    <3> QED BY <3>1, AbstractionFields DEF Placed
  <2>6. Abstraction(d) = Placed(a, Core!GetOrCreate(c.sessionList, s), claimed, Core!FinalLimit(claimed))
    <3>1. FinalIdLimit(d) = Core!FinalLimit(claimed)
      BY <2>4, SpaceLimits
    <3>2. d.sessionList = Core!GetOrCreate(c.sessionList, s)
      BY <1>2, <2>3 DEF SameShell
    <3>3. /\ d.localSessionId = c.localSessionId /\ d.generatedIdCount = c.generatedIdCount
          /\ d.nextRangeBase = c.nextRangeBase /\ d.clusterCapacity = c.clusterCapacity
          /\ d.normalizer = c.normalizer
      BY <1>2, <2>3 DEF SameShell
    <3> HIDE DEF claimed
    <3> QED BY <2>4, <3>1, <3>2, <3>3, AbstractionChanges
  <2>7. d.clusterCapacity = c.clusterCapacity /\ d.normalizer = c.normalizer
    BY <1>2, <2>3 DEF SameShell
  <2> QED BY <2>2, <2>3, <2>4, <2>5, <2>6, <2>7, AbstractionFields
<1> QED BY <1>6, <1>7, <1>8

-----------------------------------------------------------------------------
(* The map of local IDs and the set they form. *)
Map == INSTANCE NormalizerProofs
           WITH leadingLocals <- <<>>, generated <- 0, given <- {}, sortedMap <- <<>>

(* What is known of the search is known of the map of NormalizerProofs, which
   is the same.                                                            *)
LEMMA SearchIsMapSearch ==
    ASSUME NEW m, NEW q
    PROVE  KeyIndexOf(m, q) = Map!KeyIndexOf(m, q)
BY DEF KeyIndexOf, Map!KeyIndexOf, Order, Map!Order

LEMMA LowerIsMapLower ==
    ASSUME NEW m, NEW q
    PROVE  KeyIndexOfOrNextLower(m, q) = Map!KeyIndexOfOrNextLower(m, q)
BY SearchIsMapSearch DEF KeyIndexOfOrNextLower, Map!KeyIndexOfOrNextLower

(* A run holds the local IDs from its key down to its last one. *)
Run == [key : {i \in Int : i < 0}, value : Nat \ {0}]

RunLast(run) == run.key - (run.value - 1)

InRun(m, q) == \E i \in DOMAIN m : RunLast(m[i]) <= q /\ q <= m[i].key

Gapped(m) == \A i, j \in DOMAIN m : i < j => m[j].key < m[i].key - m[i].value

LEMMA RunTypes ==
    ASSUME NEW run \in Run
    PROVE  /\ run.key \in Int /\ run.key < 0
           /\ run.value \in Nat /\ run.value > 0
           /\ RunLast(run) \in Int /\ RunLast(run) <= run.key
           /\ RunLast(run) = (run.key - run.value) + 1
<1>1. run.key \in Int /\ run.key < 0 /\ run.value \in Nat /\ run.value > 0
  BY DEF Run
<1>2. \A a, b \in Int : b > 0 => /\ a - (b - 1) \in Int /\ a - (b - 1) <= a
                                 /\ a - (b - 1) = (a - b) + 1
  OBVIOUS
<1> QED BY <1>1, <1>2 DEF RunLast

LEMMA RunsTypes ==
    ASSUME NEW m \in Seq(Run)
    PROVE  /\ Len(m) \in Nat /\ DOMAIN m = 1..Len(m)
           /\ (m = <<>> <=> Len(m) = 0)
           /\ \A i \in DOMAIN m : m[i] \in Run
           /\ m \in Seq(Map!MapPair)
<1> DEFINE R == Run
           length == Len(m)
<1>1. /\ length \in Nat /\ DOMAIN m = 1..length /\ (m = <<>> <=> length = 0)
      /\ \A i \in DOMAIN m : m[i] \in R
  <2>1. m \in Seq(R)
    OBVIOUS
  <2> HIDE DEF R
  <2> QED BY <2>1, EmptySeq
<1>2. Run \subseteq Map!MapPair
  BY DEF Run, Map!MapPair
<1>3. m \in Seq(Map!MapPair)
  <2> DEFINE P == Map!MapPair
  <2> HIDE DEF P, R
  <2>1. R \subseteq P /\ m \in Seq(R)
    BY <1>2 DEF P, R
  <2> QED BY <2>1 DEF P
<1> QED BY <1>1, <1>3

(* The search finds the only run that can hold a local ID. *)
LEMMA ContainsIsInRun ==
    ASSUME NEW m \in Seq(Run), Gapped(m), NEW q \in Int
    PROVE  ContainsLocal(m, q) <=> InRun(m, q)
<1> DEFINE length == Len(m)
<1>1. /\ length \in Nat /\ DOMAIN m = 1..length /\ m \in Seq(Map!MapPair)
      /\ \A i \in 1..length : m[i] \in Run
  BY RunsTypes
<1>2. \A i \in 1..length : /\ m[i].key \in Int /\ m[i].value \in Nat /\ m[i].value > 0
                           /\ RunLast(m[i]) \in Int /\ RunLast(m[i]) <= m[i].key
                           /\ RunLast(m[i]) = (m[i].key - m[i].value) + 1
  BY <1>1, RunTypes
<1>3. \A i, j \in 1..length : i < j => m[j].key < m[i].key - m[i].value
  BY <1>1 DEF Gapped
<1>4. ASSUME NEW i \in 1..length, NEW j \in 1..length, i < j
      PROVE  m[j].key < RunLast(m[i])
  <2>1. /\ m[j].key < m[i].key - m[i].value /\ m[j].key \in Int
        /\ m[i].key \in Int /\ m[i].value \in Int /\ RunLast(m[i]) = (m[i].key - m[i].value) + 1
    <3> HIDE DEF length
    <3> QED BY <1>2, <1>3, <1>4
  <2>2. \A a, b, e \in Int : a < b - e => a < (b - e) + 1
    OBVIOUS
  <2> QED BY <2>1, <2>2
<1>5. Map!Descending(m)
  <2>1. \A i, j \in 1..length : i < j => m[i].key > m[j].key
    BY <1>2, <1>4
  <2> QED BY <1>1, <2>1 DEF Map!Descending
<1>6. \/ /\ KeyIndexOfOrNextLower(m, q) = {}
         /\ \A i \in 1..length : m[i].key < q
      \/ \E x \in Nat :
           /\ KeyIndexOfOrNextLower(m, q) = {x} /\ x + 1 \in 1..length
           /\ \A i \in 1..length : m[i].key >= q <=> i <= x + 1
  BY <1>1, <1>5, LowerIsMapLower, SystemAssumption, Map!LowerNeighbour
<1> HIDE DEF length
<1>7. CASE KeyIndexOfOrNextLower(m, q) = {} /\ \A i \in 1..length : m[i].key < q
  <2>1. ~ContainsLocal(m, q)
    BY <1>7 DEF ContainsLocal, PairOrNextLower
  <2>2. ~InRun(m, q)
    BY <1>1, <1>2, <1>7 DEF InRun
  <2> QED BY <2>1, <2>2
<1>8. ASSUME NEW x \in Nat, KeyIndexOfOrNextLower(m, q) = {x}, x + 1 \in 1..length,
             \A i \in 1..length : m[i].key >= q <=> i <= x + 1
      PROVE  ContainsLocal(m, q) <=> InRun(m, q)
  <2>1. ContainsLocal(m, q) <=> q >= RunLast(m[x + 1])
    <3>1. PairOrNextLower(m, q) = {m[x + 1]}
      BY <1>8 DEF PairOrNextLower
    <3> QED BY <3>1 DEF ContainsLocal, RunLast
  <2>2. m[x + 1].key >= q
    BY <1>8
  <2>3. ASSUME NEW i \in 1..length, RunLast(m[i]) <= q, q <= m[i].key
        PROVE  i = x + 1
    <3>1. i <= x + 1
      BY <1>2, <1>8, <2>3
    <3>2. CASE i < x + 1
      BY <1>2, <1>4, <1>8, <2>2, <2>3, <3>2
    <3> QED BY <1>1, <3>1, <3>2
  <2>4. InRun(m, q) <=> RunLast(m[x + 1]) <= q
    BY <1>1, <1>2, <1>8, <2>2, <2>3 DEF InRun
  <2> QED BY <1>2, <1>8, <2>1, <2>4
<1> QED BY <1>6, <1>7, <1>8

(* A local ID below all others goes to the end of the last run if it is the
   next one, and begins a run if not.                                      *)
LEMMA AddedRuns ==
    ASSUME NEW m \in Seq(Run), Gapped(m), NEW base \in Int, base < 0,
           \A i \in DOMAIN m : RunLast(m[i]) > base,
           NEW d, d = AddLocals(m, base, 1)
    PROVE  /\ d \in Seq(Run)
           /\ Gapped(d)
           /\ \A q \in Int : InRun(d, q) <=> InRun(m, q) \/ q = base
           /\ \A i \in DOMAIN d : \/ RunLast(d[i]) = base
                                  \/ \E j \in DOMAIN m : RunLast(d[i]) = RunLast(m[j])
<1> DEFINE R == Run
           length == Len(m)
<1>1. /\ length \in Nat /\ DOMAIN m = 1..length /\ (m = <<>> <=> length = 0)
      /\ \A i \in 1..length : m[i] \in R
  BY RunsTypes
<1>2. \A i \in 1..length : /\ m[i].key \in Int /\ m[i].key < 0
                           /\ m[i].value \in Nat /\ m[i].value > 0
                           /\ RunLast(m[i]) \in Int /\ RunLast(m[i]) <= m[i].key
                           /\ RunLast(m[i]) = (m[i].key - m[i].value) + 1
                           /\ RunLast(m[i]) > base
  BY <1>1, RunTypes
<1>3. \A i, j \in 1..length : i < j => m[j].key < m[i].key - m[i].value
  BY <1>1 DEF Gapped
<1>4. \A k, v \in Int : k < 0 /\ v > 0 => Pair(k, v) \in R /\ Pair(k, v).key = k /\ Pair(k, v).value = v
  BY DEF Pair, Run
<1>5. CASE m # <<>> /\ m[length].key - m[length].value = base
  <2> DEFINE last == m[length]
             longer == Pair(last.key, last.value + 1)
             front == SubSeq(m, 1, length - 1)
  <2>1. length > 0 /\ length \in 1..length
    BY <1>1, <1>5
  <2>2. d = Append(front, longer)
    BY <1>5 DEF AddLocals, ReplaceLast, Seqs!Front
  <2>3. /\ longer \in R /\ longer.key = last.key /\ longer.value = last.value + 1
        /\ RunLast(longer) = base
    <3>1. last.key \in Int /\ last.key < 0 /\ last.value \in Int /\ last.value > 0
      BY <1>2, <2>1
    <3> HIDE DEF last
    <3>2. last.value + 1 \in Int /\ last.value + 1 > 0
      BY <3>1
    <3>3. longer \in R /\ longer.key = last.key /\ longer.value = last.value + 1
      BY <1>4, <3>1, <3>2
    <3> HIDE DEF longer
    <3>4. last.key - last.value = base
      BY <1>5 DEF last
    <3>5. last.key - ((last.value + 1) - 1) = base
      BY <3>1, <3>4
    <3> QED BY <3>3, <3>5 DEF RunLast
  <2> HIDE DEF longer
  <2>4. /\ front \in Seq(R) /\ Len(front) = length - 1
        /\ \A i \in 1..(length - 1) : front[i] = m[i]
    <3> HIDE DEF R, length
    <3>1. \A i \in 1..(length - 1) : m[i] \in R
      BY <1>1
    <3>2. 1 \in Int /\ length - 1 \in Int /\ length >= 1
      BY <1>1, <2>1
    <3>3. /\ front \in Seq(R)
          /\ Len(front) = IF 1 <= length - 1 THEN (length - 1) - 1 + 1 ELSE 0
          /\ \A i \in 1..((length - 1) - 1 + 1) : front[i] = m[1 + i - 1]
      BY <3>1, <3>2, SubSeqProperties
    <3> HIDE DEF front
    <3> QED BY <1>1, <3>2, <3>3
  <2> HIDE DEF front
  <2>5. /\ d \in Seq(R) /\ DOMAIN d = 1..length /\ d[length] = longer
        /\ \A i \in 1..length : i # length => d[i] = m[i]
    <3> HIDE DEF R, length
    <3> QED BY <1>1, <2>1, <2>2, <2>3, <2>4
  <2> HIDE DEF length
  <2>6. Gapped(d)
    <3>1. ASSUME NEW i \in 1..length, NEW j \in 1..length, i < j
          PROVE  d[j].key < d[i].key - d[i].value
      <4>1. d[i] = m[i] /\ d[j].key = m[j].key
        BY <1>1, <2>3, <2>5, <3>1
      <4> QED BY <1>3, <3>1, <4>1
    <3> QED BY <2>5, <3>1 DEF Gapped
  <2>7. ASSUME NEW q \in Int
        PROVE  InRun(d, q) <=> InRun(m, q) \/ q = base
    <3>1. ASSUME InRun(d, q) PROVE InRun(m, q) \/ q = base
      <4>1. PICK i \in 1..length : RunLast(d[i]) <= q /\ q <= d[i].key
        BY <2>5, <3>1 DEF InRun
      <4>2. CASE i # length
        BY <1>1, <2>5, <4>1, <4>2 DEF InRun
      <4>3. CASE i = length
        <5>1. base <= q /\ q <= m[length].key
          BY <2>3, <2>5, <4>1, <4>3
        <5>2. q = base \/ RunLast(m[length]) <= q
          BY <1>2, <1>5, <2>1, <5>1
        <5> QED BY <1>1, <2>1, <5>1, <5>2 DEF InRun
      <4> QED BY <4>2, <4>3
    <3>2. ASSUME InRun(m, q) PROVE InRun(d, q)
      <4>1. PICK i \in 1..length : RunLast(m[i]) <= q /\ q <= m[i].key
        BY <1>1, <3>2 DEF InRun
      <4>2. RunLast(d[i]) <= q /\ q <= d[i].key
        BY <1>2, <2>3, <2>5, <4>1
      <4> QED BY <2>5, <4>2 DEF InRun
    <3>3. ASSUME q = base PROVE InRun(d, q)
      <4>1. RunLast(d[length]) = base /\ base <= d[length].key
        BY <1>2, <2>1, <2>3, <2>5
      <4> QED BY <2>1, <2>5, <3>3, <4>1 DEF InRun
    <3> QED BY <3>1, <3>2, <3>3
  <2> QED BY <1>1, <2>3, <2>5, <2>6, <2>7
<1>6. CASE ~(m # <<>> /\ m[length].key - m[length].value = base)
  <2> DEFINE fresh == Pair(base, 1)
             more == length + 1
  <2>1. d = Append(m, fresh)
    BY <1>6 DEF AddLocals, AppendPair
  <2>2. fresh \in R /\ fresh.key = base /\ fresh.value = 1 /\ RunLast(fresh) = base
    <3>1. fresh \in R /\ fresh.key = base /\ fresh.value = 1
      BY <1>4
    <3> HIDE DEF fresh
    <3> QED BY <3>1 DEF RunLast
  <2> HIDE DEF fresh
  <2>3. /\ d \in Seq(R) /\ DOMAIN d = 1..more /\ d[more] = fresh
        /\ \A i \in 1..length : d[i] = m[i]
    <3>1. m \in Seq(R)
      OBVIOUS
    <3> HIDE DEF R
    <3> QED BY <1>1, <2>1, <2>2, <3>1
  <2>4. length \in Nat /\ \A i \in 1..more : i = more \/ i \in 1..length
    BY <1>1
  <2>5. \A i \in 1..length : base < m[i].key - m[i].value
    <3> SUFFICES ASSUME NEW i \in 1..length PROVE base < m[i].key - m[i].value
      OBVIOUS
    <3>1. CASE i = length
      <4>1. m # <<>> /\ m[length].key - m[length].value # base
        BY <1>1, <1>6, <3>1
      <4>2. /\ m[i].key \in Int /\ m[i].value \in Int /\ RunLast(m[i]) > base
            /\ RunLast(m[i]) = (m[i].key - m[i].value) + 1
        <5> HIDE DEF length
        <5> QED BY <1>2
      <4>3. \A a, b, e \in Int : (b - e) + 1 > a /\ b - e # a => a < b - e
        OBVIOUS
      <4> QED BY <3>1, <4>1, <4>2, <4>3
    <3>2. CASE i # length
      <4>1. length \in 1..length /\ i < length
        <5>1. length \in Nat
          BY <1>1
        <5> HIDE DEF length
        <5> QED BY <3>2, <5>1
      <4>2. m[length].key < m[i].key - m[i].value
        BY <1>3, <4>1
      <4> QED BY <1>2, <4>1, <4>2
    <3> QED BY <3>1, <3>2
  <2> HIDE DEF length, more
  <2>6. Gapped(d)
    <3>1. ASSUME NEW i \in 1..more, NEW j \in 1..more, i < j
          PROVE  d[j].key < d[i].key - d[i].value
      <4>1. i \in 1..length /\ d[i] = m[i]
        BY <2>3, <2>4, <3>1 DEF more
      <4>2. CASE j = more
        BY <2>2, <2>3, <2>5, <4>1, <4>2
      <4>3. CASE j \in 1..length
        BY <1>3, <2>3, <3>1, <4>1, <4>3
      <4> QED BY <2>4, <4>2, <4>3
    <3> QED BY <2>3, <3>1 DEF Gapped
  <2>7. ASSUME NEW q \in Int
        PROVE  InRun(d, q) <=> InRun(m, q) \/ q = base
    <3>1. InRun(d, q) <=> \E i \in 1..more : RunLast(d[i]) <= q /\ q <= d[i].key
      BY <2>3 DEF InRun
    <3>2. InRun(m, q) <=> \E i \in 1..length : RunLast(m[i]) <= q /\ q <= m[i].key
      BY <1>1 DEF InRun
    <3>3. q = base <=> RunLast(d[more]) <= q /\ q <= d[more].key
      BY <2>2, <2>3
    <3>4. more \in 1..more /\ \A i \in 1..length : i \in 1..more
      BY <2>4 DEF more
    <3> QED BY <2>3, <2>4, <3>1, <3>2, <3>3, <3>4
  <2> QED BY <1>1, <2>2, <2>3, <2>4, <2>6, <2>7
<1> QED BY <1>5, <1>6

-----------------------------------------------------------------------------
(* The definitions of the two instances of the Rust compressor are the same. *)
LEMMA SameClusters ==
    /\ Rust!LocalIds = Core!LocalIds /\ Rust!Positive = Core!Positive
    /\ Rust!Cluster = Core!Cluster /\ Rust!Ranges = Core!Ranges
    /\ Rust!Compressors = Core!Compressors
    /\ \A s : Rust!MostIds(s) = Core!MostIds(s)
BY DEF Rust!LocalIds, Core!LocalIds, Rust!Positive, Core!Positive, Rust!Cluster, Core!Cluster,
       Rust!Ranges, Core!Ranges, Rust!Compressors, Core!Compressors, Rust!MostIds, Core!MostIds

LEMMA SameTails ==
    ASSUME NEW t, NEW s
    PROVE  /\ Rust!Chain(t, s) = Core!Chain(t, s)
           /\ Rust!TailIndex(t, s) = Core!TailIndex(t, s)
           /\ Rust!TailCluster(t, s) = Core!TailCluster(t, s)
           /\ Rust!NextBase(t, s) = Core!NextBase(t, s)
BY DEF Rust!Chain, Core!Chain, Rust!IsTail, Core!IsTail, Rust!TailIndex, Core!TailIndex,
       Rust!TailCluster, Core!TailCluster, Rust!NextBase, Core!NextBase

LEMMA SameTables ==
    ASSUME NEW t
    PROVE  /\ Rust!FinalsTile(t) <=> Core!FinalsTile(t)
           /\ Rust!LocalsTile(t) <=> Core!LocalsTile(t)
           /\ Rust!FinalsOrdered(t) <=> Core!FinalsOrdered(t)
           /\ Rust!ChainsOrdered(t) <=> Core!ChainsOrdered(t)
           /\ Rust!ChainsHaveTails(t) <=> Core!ChainsHaveTails(t)
           /\ Rust!TableInv(t) <=> Core!TableInv(t)
           /\ Rust!FinalLimit(t) = Core!FinalLimit(t)
           /\ Rust!NextBaseFinal(t) = Core!NextBaseFinal(t)
<1>1. /\ Rust!FinalsTile(t) <=> Core!FinalsTile(t)
      /\ Rust!FinalsOrdered(t) <=> Core!FinalsOrdered(t)
      /\ Rust!ChainsOrdered(t) <=> Core!ChainsOrdered(t)
      /\ Rust!FinalLimit(t) = Core!FinalLimit(t)
      /\ Rust!NextBaseFinal(t) = Core!NextBaseFinal(t)
  BY DEF Rust!FinalsTile, Core!FinalsTile, Rust!FinalsOrdered, Core!FinalsOrdered,
         Rust!ChainsOrdered, Core!ChainsOrdered, Rust!FinalLimit, Core!FinalLimit,
         Rust!NextBaseFinal, Core!NextBaseFinal
<1>2. Rust!LocalsTile(t) <=> Core!LocalsTile(t)
  BY DEF Rust!LocalsTile, Core!LocalsTile, Rust!Chain, Core!Chain
<1>3. Rust!ChainsHaveTails(t) <=> Core!ChainsHaveTails(t)
  BY DEF Rust!ChainsHaveTails, Core!ChainsHaveTails, Rust!Chain, Core!Chain, Rust!IsTail, Core!IsTail
<1> QED BY <1>1, <1>2, <1>3, SameClusters DEF Rust!TableInv, Core!TableInv

LEMMA SameIssued ==
    ASSUME NEW c, NEW g, NEW id
    PROVE  /\ Rust!Held(c, g) <=> Core!Held(c, g)
           /\ Rust!Issued(c, g, id) <=> Core!Issued(c, g, id)
BY DEF Rust!Held, Core!Held, Rust!Issued, Core!Issued, Rust!Chain, Core!Chain,
       Rust!HoldsLocal, Core!HoldsLocal, Rust!MaxAllocatedLocal, Core!MaxAllocatedLocal,
       Rust!AllocatedFinal, Core!AllocatedFinal, Rust!GenCount, Core!GenCount

LEMMA SameCompressorInv ==
    ASSUME NEW c
    PROVE  Rust!CompressorInv(c) <=> Core!CompressorInv(c)
<1>1. /\ Rust!Known(c) = Core!Known(c)
      /\ Rust!Distinct(c.sessions) <=> Core!Distinct(c.sessions)
  BY DEF Rust!Known, Core!Known, Rust!Elements, Core!Elements, Rust!Distinct, Core!Distinct
<1> QED BY <1>1, SameClusters, SameTails, SameTables, SameIssued DEF Rust!CompressorInv, Core!CompressorInv

LEMMA SameIndInv == Rust!IndInv <=> Core!IndInv
<1>1. Rust!TypeOK <=> Core!TypeOK
  BY SameClusters DEF Rust!TypeOK, Core!TypeOK
<1>2. Rust!IssuedInv <=> Core!IssuedInv
  BY SameIssued DEF Rust!IssuedInv, Core!IssuedInv
<1>3. Rust!TakenInv <=> Core!TakenInv
  BY DEF Rust!TakenInv, Core!TakenInv
<1>4. Rust!Clusters = Core!Clusters
  BY DEF Rust!Clusters, Core!Clusters
<1> QED BY <1>1, <1>2, <1>3, <1>4, SameClusters, SameTails, SameCompressorInv DEF Rust!IndInv, Core!IndInv

-----------------------------------------------------------------------------
(* The map holds a set of local IDs of this session, and no other. *)
LEMMA MapHolds ==
    ASSUME NEW m \in Seq(Run), NEW locals, locals \subseteq -MaxGenerated..-1, RunsHold(m, locals)
    PROVE  /\ Gapped(m)
           /\ \A i \in DOMAIN m : RunLast(m[i]) \in locals
           /\ \A q \in Int : ContainsLocal(m, q) <=> q \in locals
<1>1. /\ Gapped(m)
      /\ \A i \in DOMAIN m : RunLast(m[i]) \in locals
      /\ \A local \in -MaxGenerated..-1 : ContainsLocal(m, local) <=> local \in locals
  BY DEF RunsHold, Gapped, RunLast
<1>2. ASSUME NEW q \in Int, ContainsLocal(m, q)
      PROVE  q \in -MaxGenerated..-1
  <2>1. PICK i \in DOMAIN m : RunLast(m[i]) <= q /\ q <= m[i].key
    BY <1>1, <1>2, ContainsIsInRun DEF InRun
  <2>2. RunLast(m[i]) \in -MaxGenerated..-1 /\ m[i].key \in Int /\ m[i].key < 0
    BY <1>1, RunsTypes, RunTypes
  <2>3. MaxGenerated \in Int
    BY Constants
  <2> HIDE DEF Run
  <2> QED BY <1>2, <2>1, <2>2, <2>3
<1> QED BY <1>1, <1>2

LEMMA MapStillHolds ==
    ASSUME NEW m \in Seq(Run), NEW locals, RunsHold(m, locals),
           NEW top \in Nat, top < MaxGenerated, locals \subseteq -top..-1,
           NEW base, base = -(top + 1),
           NEW d, d = AddLocals(m, base, 1)
    PROVE  /\ d \in Seq(Run)
           /\ RunsHold(d, locals \cup {base})
<1>1. /\ base \in Int /\ base < 0 /\ base \in -MaxGenerated..-1
      /\ locals \subseteq -MaxGenerated..-1
      /\ \A q \in -top..-1 : q > base
  BY Constants
<1>2. /\ Gapped(m)
      /\ \A i \in DOMAIN m : RunLast(m[i]) \in locals
      /\ \A q \in Int : ContainsLocal(m, q) <=> q \in locals
  BY <1>1, MapHolds
<1>3. \A i \in DOMAIN m : RunLast(m[i]) > base
  BY <1>1, <1>2
<1>4. /\ d \in Seq(Run)
      /\ Gapped(d)
      /\ \A q \in Int : InRun(d, q) <=> InRun(m, q) \/ q = base
      /\ \A i \in DOMAIN d : \/ RunLast(d[i]) = base
                             \/ \E j \in DOMAIN m : RunLast(d[i]) = RunLast(m[j])
  BY <1>1, <1>2, <1>3, AddedRuns
<1>5. \A i \in DOMAIN d : RunLast(d[i]) \in locals \cup {base}
  BY <1>2, <1>4
<1>6. ASSUME NEW q \in -MaxGenerated..-1
      PROVE  ContainsLocal(d, q) <=> q \in locals \cup {base}
  <2>1. q \in Int
    BY Constants
  <2>2. ContainsLocal(d, q) <=> InRun(d, q)
    BY <1>4, <2>1, ContainsIsInRun
  <2>3. ContainsLocal(m, q) <=> InRun(m, q)
    BY <1>2, <2>1, ContainsIsInRun
  <2> QED BY <1>2, <1>4, <2>1, <2>2, <2>3
<1> QED BY <1>4, <1>5, <1>6 DEF RunsHold, Gapped, RunLast

LEMMA AbstractNormalizer ==
    ASSUME NEW c, NEW locals, locals \subseteq -MaxGenerated..-1, RunsHold(c.normalizer, locals)
    PROVE  Abstraction(c).normalizer = locals
BY AbstractionFields DEF RunsHold

-----------------------------------------------------------------------------
(* The facts of RewriteInv, in the form the steps use them. *)
LEMMA InvFacts ==
    ASSUME RewriteInv
    PROVE  /\ rewrite \in Compressor /\ Linked(rewrite) /\ Linking(rewrite) /\ Bounded(rewrite)
           /\ Core!IndInv
           /\ Core!CompressorInv(Abstraction(rewrite))
           /\ rewrite.localSessionId = LocalSession
           /\ rewrite.generatedIdCount \in Nat /\ rewrite.generatedIdCount <= MaxGenerated
           /\ rewrite.normalizer \in Seq(Run)
           /\ RunsHold(rewrite.normalizer, IssuedLocals)
           /\ IssuedLocals \subseteq -MaxGenerated..-1
           /\ IssuedLocals \subseteq -rewrite.generatedIdCount..-1
           /\ Abstraction(rewrite).normalizer = IssuedLocals
<1> DEFINE a == Abstraction(rewrite)
           n == rewrite.generatedIdCount
<1>1. /\ rewrite \in Compressor /\ Linked(rewrite) /\ Linking(rewrite)
      /\ Core!IndInv /\ Reserved(rewrite) /\ RunsHold(rewrite.normalizer, IssuedLocals)
  BY SameIndInv DEF RewriteInv, TypeOK, Linking
<1>2. /\ Core!CompressorInv(a) /\ a.sessionId = LocalSession
      /\ a.generatedIdCount <= MaxGenerated
      /\ \A o \in Sessions : Core!NextBase(a.clusters, o) <= Core!MostIds(o) + 1
  BY <1>1 DEF Core!IndInv, Core!Clusters
<1>3. n \in Nat /\ n <= MaxGenerated /\ rewrite.localSessionId = LocalSession
      /\ rewrite.normalizer \in Seq(Run)
  BY <1>1, <1>2, AbstractionFields, CompressorFields DEF Run
<1>4. Core!TableInv(FinalSpace(rewrite))
  BY <1>2, AbstractionFields DEF Core!CompressorInv
<1>5. ASSUME NEW o \in Sessions
      PROVE  Core!NextBase(FinalSpace(rewrite), o) <= 2 * MaxGenerated + 1
  <2> DEFINE next == Core!NextBase(FinalSpace(rewrite), o)
  <2>1. next <= Core!MostIds(o) + 1
    BY <1>2, AbstractionFields
  <2>2. next \in Nat
    BY <1>4, Constants, Core!NextBaseType
  <2>3. MaxGenerated \in Nat /\ Core!MostIds(o) \in Int /\ Core!MostIds(o) <= 2 * MaxGenerated
    BY Constants DEF Core!MostIds
  <2>4. \A x, y, z \in Int : x <= y + 1 /\ y <= z => x <= z + 1
    OBVIOUS
  <2>5. next \in Int /\ 2 * MaxGenerated \in Int
    BY <2>2, <2>3
  <2> HIDE DEF next
  <2>6. next <= 2 * MaxGenerated + 1
    BY <2>1, <2>3, <2>4, <2>5
  <2> QED BY <2>6 DEF next
<1>6. IssuedLocals \subseteq -MaxGenerated..-1
  BY DEF IssuedLocals
<1>7. a.normalizer = IssuedLocals
  BY <1>1, <1>6, AbstractNormalizer
<1>8. IssuedLocals \subseteq -n..-1
  <2>1. a.normalizer \subseteq {-g : g \in 1..n}
    BY <1>2, AbstractionFields DEF Core!CompressorInv
  <2>2. \A g \in 1..n : -g \in -n..-1
    BY <1>3
  <2> HIDE DEF a, n
  <2> QED BY <1>7, <2>1, <2>2
<1> QED BY <1>1, <1>2, <1>3, <1>4, <1>5, <1>6, <1>7, <1>8 DEF Bounded

(* What is left to show of a step. *)
LEMMA InvAgain ==
    ASSUME Core!IndInv', Linking(rewrite'), Reserved(rewrite'),
           RunsHold(rewrite'.normalizer, IssuedLocals')
    PROVE  RewriteInv'
<1>1. Rust!IndInv' <=> Core!IndInv'
  BY SameIndInv, PTL
<1>2. taken' \subseteq Core!Ranges /\ issued' \in Seq(Int)
  BY DEF Core!IndInv, Core!TypeOK
<1>3. TypeOK'
  BY <1>2 DEF TypeOK, Linking, Core!Ranges, Core!Positive
<1> QED BY <1>1, <1>3 DEF RewriteInv, Linking

(* The local IDs among the IDs issued. *)
LEMMA IssuedLocalsGrow ==
    ASSUME issued \in Seq(Int), NEW id \in Int, issued' = Append(issued, id)
    PROVE  /\ id \in -MaxGenerated..-1 => IssuedLocals' = IssuedLocals \cup {id}
           /\ id \notin -MaxGenerated..-1 => IssuedLocals' = IssuedLocals
<1>1. {issued'[g] : g \in DOMAIN issued'} = {issued[g] : g \in DOMAIN issued} \cup {id}
  <2> DEFINE length == Len(issued)
             more == length + 1
  <2>1. length \in Nat /\ DOMAIN issued = 1..length
    OBVIOUS
  <2>2. /\ DOMAIN issued' = 1..more /\ issued'[more] = id
        /\ \A g \in 1..length : issued'[g] = issued[g]
    OBVIOUS
  <2>3. more \in 1..more /\ \A g \in 1..more : g = more \/ g \in 1..length
    BY <2>1
  <2>4. \A g \in 1..length : g \in 1..more
    BY <2>1
  <2> HIDE DEF length, more
  <2> QED BY <2>1, <2>2, <2>3, <2>4
<1> QED BY <1>1 DEF IssuedLocals

-----------------------------------------------------------------------------
(* Generation: both issue the same ID, as eager final or as local one. *)
LEMMA NextIdAgrees ==
    ASSUME NEW c, Linking(c), NEW a, a = Abstraction(c)
    PROVE  /\ HasEager(c) <=> Core!IsNextEager(a)
           /\ NextId(c) = Core!NextId(a)
<1> DEFINE own == c.localSessionId
           space == FinalSpace(c)
           tail == TailOf(c, own)
<1>1. own \in Sessions /\ c.generatedIdCount \in Int
  <2>1. c \in Compressor
    BY DEF Linking
  <2>2. own \in Sessions /\ c.generatedIdCount \in Nat
    BY <2>1, CompressorFields
  <2> QED BY <2>2
<1>2. a.sessionId = own /\ a.clusters = space /\ a.generatedIdCount = c.generatedIdCount
  BY AbstractionFields
<1>3. IsEmpty(c, own) <=> Core!Chain(space, own) = {}
  BY <1>1, ChainClusters
<1>4. ~IsEmpty(c, own) => /\ Core!TailCluster(space, own) = tail
                          /\ Core!ClusterOffset(a) = ClusterOffset(c)
  <2> SUFFICES ASSUME ~IsEmpty(c, own)
               PROVE  /\ Core!TailCluster(space, own) = tail
                      /\ Core!ClusterOffset(a) = ClusterOffset(c)
    OBVIOUS
  <2>1. Core!TailCluster(space, own) = tail
    BY <1>1, TailReference
  <2>2. tail.baseLocal \in Int
    BY <1>1, TailType
  <2>3. Core!ClusterOffset(a) = (c.generatedIdCount + 1) - (-tail.baseLocal)
    BY <1>2, <2>1 DEF Core!ClusterOffset, Core!NextGenCount, Core!GenCount
  <2>4. ClusterOffset(c) = (c.generatedIdCount + 1) + tail.baseLocal
    BY DEF ClusterOffset
  <2>5. \A x, y \in Int : (x + 1) - (-y) = (x + 1) + y
    OBVIOUS
  <2> HIDE DEF tail
  <2> QED BY <1>1, <2>1, <2>2, <2>3, <2>4, <2>5
<1>5. HasEager(c) <=> Core!IsNextEager(a)
  BY <1>2, <1>3, <1>4 DEF HasEager, Core!IsNextEager
<1>6. Core!IsNextEager(a) => ~IsEmpty(c, own)
  BY <1>5 DEF HasEager
<1> QED BY <1>2, <1>4, <1>5, <1>6 DEF NextId, Core!NextId, Core!NextGenCount

(* An eager ID is a final one, since what its session has finalized it has
   generated before.                                                       *)
LEMMA EagerIsFinal ==
    ASSUME NEW c, Linking(c), Core!CompressorInv(Abstraction(c)), HasEager(c)
    PROVE  NextId(c) \in Nat
<1> DEFINE own == c.localSessionId
           space == FinalSpace(c)
           tail == TailOf(c, own)
<1>1. own \in Sessions /\ c.generatedIdCount \in Int /\ ~IsEmpty(c, own)
  <2>1. c \in Compressor /\ ~IsEmpty(c, own)
    BY DEF Linking, HasEager
  <2>2. own \in Sessions /\ c.generatedIdCount \in Nat
    BY <2>1, CompressorFields
  <2> QED BY <2>1, <2>2
<1>2. /\ tail.baseFinal \in Int /\ tail.baseFinal >= 0
      /\ tail.count \in Int /\ tail.count >= 0 /\ tail.baseLocal \in Int
  BY <1>1, TailType
<1>3. Core!TailCluster(space, own) = tail /\ Core!Chain(space, own) # {}
  BY <1>1, TailReference, ChainClusters
<1>4. Core!NextBase(space, own) <= c.generatedIdCount + 1
  BY AbstractionFields DEF Core!CompressorInv
<1>5. tail.count - tail.baseLocal <= c.generatedIdCount + 1
  BY <1>3, <1>4 DEF Core!NextBase
<1>6. NextId(c) = tail.baseFinal + ((c.generatedIdCount + 1) + tail.baseLocal)
  BY DEF NextId, ClusterOffset
<1>7. \A x, y, z, b \in Int : y >= 0 /\ b >= 0 /\ y - z <= x + 1 => b + ((x + 1) + z) \in Nat
  OBVIOUS
<1> HIDE DEF tail
<1> QED BY <1>1, <1>2, <1>5, <1>6, <1>7

(* The fields a generated ID changes. *)
Generated(c, count, m) == [c EXCEPT !.generatedIdCount = count, !.normalizer = m]

LEMMA GeneratedFields ==
    ASSUME NEW c, Linking(c), NEW count \in Nat, NEW m \in Seq(Run),
           NEW d, d = Generated(c, count, m)
    PROVE  /\ Linking(d)
           /\ d.localSessionId = c.localSessionId
           /\ d.generatedIdCount = count
           /\ d.nextRangeBase = c.nextRangeBase
           /\ d.clusterCapacity = c.clusterCapacity
           /\ d.sessionList = c.sessionList
           /\ d.chains = c.chains /\ d.clusterList = c.clusterList
           /\ d.normalizer = m
           /\ FinalSpace(d) = FinalSpace(c)
           /\ Reserved(c) => Reserved(d)
<1>1. c \in Compressor /\ Linked(c)
  BY DEF Linking
<1>2. /\ d \in Compressor
      /\ d.localSessionId = c.localSessionId
      /\ d.generatedIdCount = count
      /\ d.nextRangeBase = c.nextRangeBase
      /\ d.clusterCapacity = c.clusterCapacity
      /\ d.sessionList = c.sessionList
      /\ d.chains = c.chains /\ d.clusterList = c.clusterList
      /\ d.normalizer = m
  <2>1. m \in Seq([key : {i \in Int : i < 0}, value : Nat \ {0}])
    BY DEF Run
  <2> QED BY <1>1, <2>1 DEF Generated, Compressor
<1>3. FinalSpace(d) = FinalSpace(c)
  BY <1>2 DEF FinalSpace
<1>4. Linked(d) /\ (Reserved(c) => Reserved(d))
  BY <1>1, <1>2, <1>3 DEF Linked, Reserved
<1> QED BY <1>2, <1>3, <1>4 DEF Linking

(* A generated ID is entered into the map if it is local. *)
LEMMA GenerateAgrees ==
    ASSUME NEW c, Linking(c), Core!CompressorInv(Abstraction(c)),
           c.generatedIdCount < MaxGenerated, c.normalizer \in Seq(Run),
           NEW locals, RunsHold(c.normalizer, locals),
           locals \subseteq -c.generatedIdCount..-1,
           NEW d, d = GenerateCompressedId(c)
    PROVE  /\ Linking(d)
           /\ Abstraction(d) = Core!GenerateNextId(Abstraction(c))
           /\ Reserved(c) => Reserved(d)
           /\ \/ /\ NextId(c) \in Nat
                 /\ RunsHold(d.normalizer, locals)
              \/ /\ NextId(c) \in -MaxGenerated..-1
                 /\ RunsHold(d.normalizer, locals \cup {NextId(c)})
<1> DEFINE a == Abstraction(c)
           n == c.generatedIdCount
           m == IF HasEager(c) THEN c.normalizer ELSE AddLocals(c.normalizer, NextId(c), 1)
           held == IF HasEager(c) THEN locals ELSE locals \cup {NextId(c)}
<1>1. /\ n \in Nat /\ n + 1 \in Nat /\ MaxGenerated \in Nat
      /\ locals \subseteq -MaxGenerated..-1
  <2>1. c \in Compressor
    BY DEF Linking
  <2>2. n \in Nat /\ MaxGenerated \in Nat
    BY <2>1, CompressorFields, Constants
  <2>3. \A q \in -n..-1 : q \in -MaxGenerated..-1
    BY <2>2
  <2> HIDE DEF n
  <2> QED BY <2>2, <2>3 DEF n
<1>2. /\ HasEager(c) <=> Core!IsNextEager(a)
      /\ NextId(c) = Core!NextId(a)
      /\ HasEager(c) => NextId(c) \in Nat
      /\ ~HasEager(c) => NextId(c) = -(n + 1)
  BY NextIdAgrees, EagerIsFinal DEF NextId
<1>3. m \in Seq(Run) /\ RunsHold(m, held)
  <2>1. CASE HasEager(c)
    BY <2>1
  <2>2. CASE ~HasEager(c)
    <3> DEFINE base == NextId(c)
    <3>1. base = -(n + 1)
      BY <1>2, <2>2
    <3>2. /\ AddLocals(c.normalizer, base, 1) \in Seq(Run)
          /\ RunsHold(AddLocals(c.normalizer, base, 1), locals \cup {base})
      <4> HIDE DEF base
      <4> QED BY <1>1, <3>1, MapStillHolds
    <3> QED BY <2>2, <3>2
  <2> QED BY <2>1, <2>2
<1>4. \/ NextId(c) \in Nat /\ HasEager(c)
      \/ NextId(c) \in -MaxGenerated..-1 /\ ~HasEager(c)
  BY <1>1, <1>2
<1>5. held \subseteq -MaxGenerated..-1
  BY <1>1, <1>4
<1> DEFINE more == n + 1
<1>6. d = Generated(c, more, m) /\ more \in Nat
  BY <1>1 DEF GenerateCompressedId, Generated
<1> HIDE DEF m, held, n, more
<1>7. /\ Linking(d)
      /\ d.localSessionId = c.localSessionId
      /\ d.generatedIdCount = more
      /\ d.nextRangeBase = c.nextRangeBase
      /\ d.clusterCapacity = c.clusterCapacity
      /\ d.sessionList = c.sessionList
      /\ d.normalizer = m
      /\ FinalSpace(d) = FinalSpace(c)
      /\ Reserved(c) => Reserved(d)
  <2>1. Linking(c) /\ m \in Seq(Run)
    BY <1>3
  <2> QED BY ONLY <1>6, <2>1, GeneratedFields
<1>8. Abstraction(d).normalizer = held /\ a.normalizer = locals
  BY <1>1, <1>3, <1>5, <1>7, AbstractNormalizer
<1>9. Abstraction(d) = Core!GenerateNextId(a)
  <2>1. FinalIdLimit(d) = FinalIdLimit(c)
    BY <1>7, SpaceLimits
  <2> DEFINE Record(count, set) ==
                [sessionId |-> c.localSessionId, generatedIdCount |-> count,
                 nextRangeBase |-> c.nextRangeBase, finalIdLimit |-> FinalIdLimit(c),
                 clusterCapacity |-> c.clusterCapacity, sessions |-> c.sessionList,
                 clusters |-> FinalSpace(c), normalizer |-> set]
  <2>2. Abstraction(d) = Record(more, held)
    <3>1. Abstraction(d) = Record(more, Abstraction(d).normalizer)
      BY <1>7, <2>1 DEF Abstraction
    <3> QED BY <1>8, <3>1
  <2>3. a = Record(n, locals)
    <3>1. a = Record(n, a.normalizer)
      BY DEF Abstraction, n
    <3> QED BY <1>8, <3>1
  <2>4. Core!GenerateNextId(a) = Generated(a, more, held)
    <3>1. (IF Core!IsNextEager(a) THEN a.normalizer ELSE a.normalizer \cup {Core!NextId(a)}) = held
      BY <1>2, <1>8 DEF held
    <3>2. Core!NextGenCount(a) = more
      BY AbstractionFields DEF Core!NextGenCount, n, more
    <3>3. Core!GenerateNextId(a)
            = Generated(a, Core!NextGenCount(a), IF Core!IsNextEager(a) THEN a.normalizer
                                                 ELSE a.normalizer \cup {Core!NextId(a)})
      BY DEF Core!GenerateNextId, Generated
    <3> QED BY <3>1, <3>2, <3>3
  <2>5. Generated(Record(n, locals), more, held) = Record(more, held)
    <3> DEFINE x == [Record(n, locals) EXCEPT !.generatedIdCount = more]
    <3>1. x = Record(more, locals)
      OBVIOUS
    <3> HIDE DEF x
    <3>2. [x EXCEPT !.normalizer = held] = Record(more, held)
      BY ONLY <3>1
    <3> QED BY <3>2 DEF Generated, x
  <2> HIDE DEF Record, a
  <2> QED BY <2>2, <2>3, <2>4, <2>5
<1> QED BY <1>3, <1>4, <1>7, <1>9 DEF held

(* Taking a range and setting the capacity. *)
LEMMA TakeAgrees ==
    ASSUME NEW c, Linking(c), NEW d, d = TakeNextCreationRange(c)
    PROVE  /\ Linking(d)
           /\ Abstraction(d) = Core!TakeNextRange(Abstraction(c))
           /\ Reserved(c) => Reserved(d)
           /\ d.normalizer = c.normalizer
           /\ NextCreationRange(c) = Core!NextRange(Abstraction(c))
           /\ NextCreationRange(c).len = Core!UntakenCount(Abstraction(c))
<1> DEFINE next == c.generatedIdCount + 1
<1>1. c \in Compressor /\ Linked(c)
  BY DEF Linking
<1>2. next \in Nat \ {0}
  <2>1. c.generatedIdCount \in Nat
    BY <1>1, CompressorFields
  <2> QED BY <2>1
<1>3. d = [c EXCEPT !.nextRangeBase = next]
  BY DEF TakeNextCreationRange
<1>4. Abstraction(c).generatedIdCount + 1 = next
  BY AbstractionFields
<1> HIDE DEF next
<1>5. /\ d \in Compressor
      /\ d.localSessionId = c.localSessionId
      /\ d.generatedIdCount = c.generatedIdCount
      /\ d.nextRangeBase = next
      /\ d.clusterCapacity = c.clusterCapacity
      /\ d.sessionList = c.sessionList
      /\ d.chains = c.chains /\ d.clusterList = c.clusterList
      /\ d.normalizer = c.normalizer
  BY <1>1, <1>2, <1>3 DEF Compressor
<1>6. FinalSpace(d) = FinalSpace(c)
  BY <1>5 DEF FinalSpace
<1>7. Linked(d) /\ (Reserved(c) => Reserved(d))
  BY <1>1, <1>5, <1>6 DEF Linked, Reserved
<1>8. Abstraction(d) = [Abstraction(c) EXCEPT !.nextRangeBase = next]
  <2>1. FinalIdLimit(d) = FinalIdLimit(c)
    BY <1>6, SpaceLimits
  <2> DEFINE held == {local \in -MaxGenerated..-1 : ContainsLocal(c.normalizer, local)}
             Record(base) ==
                [sessionId |-> c.localSessionId, generatedIdCount |-> c.generatedIdCount,
                 nextRangeBase |-> base, finalIdLimit |-> FinalIdLimit(c),
                 clusterCapacity |-> c.clusterCapacity, sessions |-> c.sessionList,
                 clusters |-> FinalSpace(c), normalizer |-> held]
  <2>2. Abstraction(d) = Record(next) /\ Abstraction(c) = Record(c.nextRangeBase)
    BY <1>5, <1>6, <2>1 DEF Abstraction
  <2> HIDE DEF held
  <2>3. [Record(c.nextRangeBase) EXCEPT !.nextRangeBase = next] = Record(next)
    OBVIOUS
  <2> HIDE DEF Record
  <2> QED BY <2>2, <2>3
<1>9. /\ NextCreationRange(c) = Core!NextRange(Abstraction(c))
      /\ NextCreationRange(c).len = Core!UntakenCount(Abstraction(c))
  BY AbstractionFields DEF NextCreationRange, Core!NextRange, Core!UntakenCount
<1> QED BY <1>4, <1>5, <1>7, <1>8, <1>9 DEF Linking, Core!TakeNextRange

LEMMA SetCapacityAgrees ==
    ASSUME NEW c, Linking(c), NEW capacity \in Capacities,
           NEW d, d = SetClusterCapacity(c, capacity)
    PROVE  /\ Linking(d)
           /\ Abstraction(d) = Core!SetClusterCapacity(Abstraction(c), capacity)
           /\ Reserved(c) => Reserved(d)
           /\ d.normalizer = c.normalizer
<1>1. c \in Compressor /\ Linked(c)
  BY DEF Linking
<1>2. capacity \in Nat \ {0} /\ capacity \in AllCapacities
  BY Constants DEF AllCapacities, Core!Positive
<1>3. d = [c EXCEPT !.clusterCapacity = capacity]
  BY DEF SetClusterCapacity
<1>4. /\ d \in Compressor
      /\ d.localSessionId = c.localSessionId
      /\ d.generatedIdCount = c.generatedIdCount
      /\ d.nextRangeBase = c.nextRangeBase
      /\ d.clusterCapacity = capacity
      /\ d.sessionList = c.sessionList
      /\ d.chains = c.chains /\ d.clusterList = c.clusterList
      /\ d.normalizer = c.normalizer
  BY <1>1, <1>2, <1>3 DEF Compressor
<1>5. FinalSpace(d) = FinalSpace(c)
  BY <1>4 DEF FinalSpace
<1>6. Linked(d) /\ (Reserved(c) => Reserved(d))
  BY <1>1, <1>2, <1>4, <1>5 DEF Linked, Reserved
<1>7. Abstraction(d) = [Abstraction(c) EXCEPT !.clusterCapacity = capacity]
  <2>1. FinalIdLimit(d) = FinalIdLimit(c)
    BY <1>5, SpaceLimits
  <2> DEFINE held == {local \in -MaxGenerated..-1 : ContainsLocal(c.normalizer, local)}
             Record(most) ==
                [sessionId |-> c.localSessionId, generatedIdCount |-> c.generatedIdCount,
                 nextRangeBase |-> c.nextRangeBase, finalIdLimit |-> FinalIdLimit(c),
                 clusterCapacity |-> most, sessions |-> c.sessionList,
                 clusters |-> FinalSpace(c), normalizer |-> held]
  <2>2. Abstraction(d) = Record(capacity) /\ Abstraction(c) = Record(c.clusterCapacity)
    BY <1>4, <1>5, <2>1 DEF Abstraction
  <2> HIDE DEF held
  <2>3. [Record(c.clusterCapacity) EXCEPT !.clusterCapacity = capacity] = Record(capacity)
    OBVIOUS
  <2> HIDE DEF Record
  <2> QED BY <2>2, <2>3
<1> QED BY <1>4, <1>6, <1>7 DEF Linking, Core!SetClusterCapacity

(* A claim leaves no more spare than the capacity, or than there was. *)
LEMMA FinalizeKeepsReserved ==
    ASSUME SessionsFarApart, NEW c, Bounded(c), Core!CompressorInv(Abstraction(c)),
           NEW r \in Core!Ranges, r.len # 0 => r.base + r.len <= 2 * MaxGenerated,
           NEW d, d = FinalizeCreationRange(c, r)
    PROVE  Reserved(d)
<1> DEFINE space == FinalSpace(c)
           grown == FinalSpace(d)
           spare == c.clusterCapacity
           result == Core!FinalizeResult(Abstraction(c), r)
<1>1. /\ Linking(d) /\ d.clusterCapacity = c.clusterCapacity
      /\ result = "Ok" => grown = Core!Claim(space, r, spare)
      /\ result # "Ok" => grown = space
  BY FinalizeAgrees
<1>2. Linking(c) /\ Reserved(c) /\ Core!TableInv(space) /\ spare \in AllCapacities
  BY DEF Bounded, Reserved
<1>3. DOMAIN c.clusterList = DOMAIN space /\ DOMAIN d.clusterList = DOMAIN grown
  BY DEF FinalSpace
<1>4. \A i \in DOMAIN space : \E capacity \in AllCapacities : Remaining(space[i]) <= capacity
  BY <1>2, <1>3 DEF Reserved
<1>5. \A i \in DOMAIN grown : \E capacity \in AllCapacities : Remaining(grown[i]) <= capacity
  <2>1. CASE result # "Ok"
    BY <1>1, <1>4, <2>1
  <2>2. CASE result = "Ok"
    <3>1. spare \in Core!Positive
      BY <1>2, CapacityTypes DEF Core!Positive
    <3>2. Core!Acceptable(space, r, spare)
      BY <1>2, <2>2, <3>1, AbstractionFields DEF Core!Acceptable, Core!FinalizeResult
    <3>3. Core!ClaimEffect(space, grown, r, spare)
      BY <1>1, <2>2, <3>2, Constants, Core!ClaimIsCorrect
    <3> SUFFICES ASSUME NEW i \in DOMAIN grown
                 PROVE  \E capacity \in AllCapacities : Remaining(grown[i]) <= capacity
      OBVIOUS
    <3>4. \/ Remaining(grown[i]) <= spare
          \/ i \in DOMAIN space /\ Remaining(grown[i]) <= Remaining(space[i])
      BY <3>3 DEF Core!ClaimEffect, Core!Slack, Remaining
    <3>5. CASE Remaining(grown[i]) <= spare
      BY <1>2, <3>5
    <3>6. CASE i \in DOMAIN space /\ Remaining(grown[i]) <= Remaining(space[i])
      <4>1. PICK capacity \in AllCapacities : Remaining(space[i]) <= capacity
        BY <1>4, <3>6
      <4>2. Remaining(grown[i]) \in Int /\ Remaining(space[i]) \in Int /\ capacity \in Int
        <5>1. Core!TableInv(grown) /\ i \in DOMAIN grown /\ i \in DOMAIN space
          BY <3>3, <3>6 DEF Core!ClaimEffect
        <5>2. /\ grown[i].capacity \in Int /\ grown[i].count \in Int
              /\ space[i].capacity \in Int /\ space[i].count \in Int
          <6>1. space \in Seq(Core!Cluster) /\ grown \in Seq(Core!Cluster)
            BY <1>2, <5>1 DEF Core!TableInv
          <6> HIDE DEF space, grown
          <6>2. grown[i].capacity \in Nat /\ grown[i].count \in Nat
            BY <5>1, <6>1, Constants, Core!TableTypes
          <6>3. space[i].capacity \in Nat /\ space[i].count \in Nat
            BY <5>1, <6>1, Constants, Core!TableTypes
          <6> QED BY <6>2, <6>3
        <5> QED BY <5>2, CapacityTypes DEF Remaining
      <4> QED BY <3>6, <4>1, <4>2
    <3> QED BY <3>4, <3>5, <3>6
  <2> QED BY <2>1, <2>2
<1> QED BY <1>1, <1>2, <1>3, <1>5 DEF Reserved

-----------------------------------------------------------------------------
(* The operations of the two instances of the Rust compressor are the same. *)
LEMMA SameGeneration ==
    ASSUME NEW c
    PROVE  /\ Rust!NextId(c) = Core!NextId(c)
           /\ Rust!GenerateNextId(c) = Core!GenerateNextId(c)
           /\ Rust!TakeNextRange(c) = Core!TakeNextRange(c)
           /\ Rust!NextRange(c) = Core!NextRange(c)
           /\ Rust!UntakenCount(c) = Core!UntakenCount(c)
           /\ \A capacity : Rust!SetClusterCapacity(c, capacity) = Core!SetClusterCapacity(c, capacity)
<1>1. /\ Rust!NextGenCount(c) = Core!NextGenCount(c)
      /\ Rust!ClusterOffset(c) = Core!ClusterOffset(c)
  BY SameTails DEF Rust!NextGenCount, Core!NextGenCount, Rust!ClusterOffset, Core!ClusterOffset,
                   Rust!GenCount, Core!GenCount
<1>2. Rust!IsNextEager(c) <=> Core!IsNextEager(c)
  BY <1>1, SameTails DEF Rust!IsNextEager, Core!IsNextEager
<1>3. Rust!NextId(c) = Core!NextId(c)
  BY <1>1, <1>2, SameTails DEF Rust!NextId, Core!NextId
<1>4. Rust!GenerateNextId(c) = Core!GenerateNextId(c)
  BY <1>1, <1>2, <1>3 DEF Rust!GenerateNextId, Core!GenerateNextId
<1>5. /\ Rust!TakeNextRange(c) = Core!TakeNextRange(c)
      /\ Rust!NextRange(c) = Core!NextRange(c)
      /\ Rust!UntakenCount(c) = Core!UntakenCount(c)
      /\ \A capacity : Rust!SetClusterCapacity(c, capacity) = Core!SetClusterCapacity(c, capacity)
  BY DEF Rust!TakeNextRange, Core!TakeNextRange, Rust!NextRange, Core!NextRange,
         Rust!UntakenCount, Core!UntakenCount, Rust!SetClusterCapacity, Core!SetClusterCapacity
<1> QED BY <1>3, <1>4, <1>5

LEMMA SameClaim ==
    ASSUME NEW t, NEW r, NEW capacity
    PROVE  /\ Rust!IsInOrder(t, r) <=> Core!IsInOrder(t, r)
           /\ Rust!Claim(t, r, capacity) = Core!Claim(t, r, capacity)
<1>1. /\ Rust!Remaining(t, r.session) = Core!Remaining(t, r.session)
      /\ Rust!TailIsLast(t, r.session) <=> Core!TailIsLast(t, r.session)
      /\ Rust!IsInOrder(t, r) <=> Core!IsInOrder(t, r)
  BY SameTails DEF Rust!Remaining, Core!Remaining, Rust!TailIsLast, Core!TailIsLast,
                   Rust!IsInOrder, Core!IsInOrder
<1>2. ASSUME NEW u, NEW base, NEW most, NEW count, NEW i
      PROVE  /\ Rust!NewCluster(u, r.session, base, most, count)
                  = Core!NewCluster(u, r.session, base, most, count)
             /\ Rust!Resize(u, i, most, count) = Core!Resize(u, i, most, count)
  BY SameTables DEF Rust!NewCluster, Core!NewCluster, Rust!Resize, Core!Resize
<1>3. Rust!ClaimFirstCluster(t, r, capacity) = Core!ClaimFirstCluster(t, r, capacity)
  BY <1>2 DEF Rust!ClaimFirstCluster, Core!ClaimFirstCluster
<1>4. Rust!FillTail(t, r) = Core!FillTail(t, r)
  BY <1>2, SameTails DEF Rust!FillTail, Core!FillTail
<1>5. Rust!ExpandTail(t, r, capacity) = Core!ExpandTail(t, r, capacity)
  BY <1>1, <1>2, SameTails DEF Rust!ExpandTail, Core!ExpandTail
<1>6. Rust!OverflowToNew(t, r, capacity) = Core!OverflowToNew(t, r, capacity)
  BY <1>1, <1>2, SameTails DEF Rust!OverflowToNew, Core!OverflowToNew
<1> QED BY <1>1, <1>3, <1>4, <1>5, <1>6, SameTails DEF Rust!Claim, Core!Claim

LEMMA SameFinalization ==
    ASSUME NEW c, NEW r
    PROVE  Rust!FinalizeRange(c, r) = Core!FinalizeRange(c, r)
<1>1. Rust!Collides(c, r) <=> Core!Collides(c, r)
  BY DEF Rust!Collides, Core!Collides, Rust!RangeCollides, Core!RangeCollides,
         Rust!StableOf, Core!StableOf, Rust!GenCount, Core!GenCount,
         Rust!Known, Core!Known, Rust!Elements, Core!Elements, Rust!Nearest, Core!Nearest,
         Rust!MaxAllocatedStable, Core!MaxAllocatedStable, Rust!MaxAllocatedLocal, Core!MaxAllocatedLocal,
         Rust!TailCluster, Core!TailCluster, Rust!TailIndex, Core!TailIndex,
         Rust!IsTail, Core!IsTail, Rust!Chain, Core!Chain
<1>2. Rust!FinalizeResult(c, r) = Core!FinalizeResult(c, r)
  BY <1>1, SameClaim DEF Rust!FinalizeResult, Core!FinalizeResult
<1>3. ASSUME NEW list, NEW s
      PROVE  Rust!GetOrCreate(list, s) = Core!GetOrCreate(list, s)
  BY DEF Rust!GetOrCreate, Core!GetOrCreate, Rust!Elements, Core!Elements
<1> QED BY <1>2, <1>3, SameClaim, SameTables DEF Rust!FinalizeRange, Core!FinalizeRange

LEMMA SameInitial == Rust!NewCompressor(LocalSession) = Core!NewCompressor(LocalSession)
BY DEF Rust!NewCompressor, Core!NewCompressor

LEMMA SameRemoteRanges == Rust!RemoteRanges = Core!RemoteRanges /\ RemoteRanges = Core!RemoteRanges
BY DEF Rust!RemoteRanges, Core!RemoteRanges, RemoteRanges

-----------------------------------------------------------------------------
(* Each step keeps RewriteInv and is the step of the Rust compressor. *)
LEMMA GenerateKeeps ==
    ASSUME RewriteInv, Generate
    PROVE  RewriteInv' /\ Rust!Generate
<1> DEFINE a == Abstraction(rewrite)
<1>1. /\ Core!IndInv /\ Core!CompressorInv(a) /\ Linking(rewrite) /\ Bounded(rewrite)
      /\ rewrite.normalizer \in Seq(Run)
      /\ RunsHold(rewrite.normalizer, IssuedLocals)
      /\ IssuedLocals \subseteq -rewrite.generatedIdCount..-1
  BY InvFacts
<1>2. /\ rewrite.generatedIdCount < MaxGenerated
      /\ rewrite' = GenerateCompressedId(rewrite)
      /\ issued' = Append(issued, NextId(rewrite)) /\ taken' = taken
  BY DEF Generate
<1>3. /\ Linking(rewrite')
      /\ Abstraction(rewrite') = Core!GenerateNextId(a)
      /\ Reserved(rewrite) => Reserved(rewrite')
      /\ \/ /\ NextId(rewrite) \in Nat
            /\ RunsHold(rewrite'.normalizer, IssuedLocals)
         \/ /\ NextId(rewrite) \in -MaxGenerated..-1
            /\ RunsHold(rewrite'.normalizer, IssuedLocals \cup {NextId(rewrite)})
  BY <1>1, <1>2, GenerateAgrees
<1>4. NextId(rewrite) = Core!NextId(a) /\ a.generatedIdCount = rewrite.generatedIdCount
  BY <1>1, NextIdAgrees, AbstractionFields
<1>5. Core!Generate
  BY <1>2, <1>3, <1>4 DEF Core!Generate
<1>6. Core!IndInv'
  BY <1>1, <1>5, Constants, Core!GenerateStep
<1>7. RunsHold(rewrite'.normalizer, IssuedLocals')
  <2> DEFINE id == NextId(rewrite)
  <2>1. issued \in Seq(Int)
    BY DEF RewriteInv, TypeOK
  <2>2. id \in Nat => id \in Int /\ id \notin -MaxGenerated..-1
    BY Constants
  <2>3. id \in -MaxGenerated..-1 => id \in Int
    BY Constants
  <2> HIDE DEF id
  <2>4. id \in Int
    BY <1>3, <2>2, <2>3 DEF id
  <2>5. /\ id \in -MaxGenerated..-1 => IssuedLocals' = IssuedLocals \cup {id}
        /\ id \notin -MaxGenerated..-1 => IssuedLocals' = IssuedLocals
    BY <1>2, <2>1, <2>4, IssuedLocalsGrow DEF id
  <2>6. CASE id \in Nat /\ RunsHold(rewrite'.normalizer, IssuedLocals)
    BY <2>2, <2>5, <2>6
  <2>7. CASE id \in -MaxGenerated..-1 /\ RunsHold(rewrite'.normalizer, IssuedLocals \cup {id})
    BY <2>5, <2>7
  <2> QED BY <1>3, <2>6, <2>7 DEF id
<1>8. Reserved(rewrite')
  BY <1>1, <1>3 DEF Bounded
<1>9. Rust!Generate
  BY <1>5, SameGeneration DEF Rust!Generate, Core!Generate
<1> QED BY <1>3, <1>6, <1>7, <1>8, <1>9, InvAgain

(* A step that issues no ID and leaves the map alone. *)
LEMMA MapUnchanged ==
    ASSUME RewriteInv, issued' = issued, rewrite'.normalizer = rewrite.normalizer
    PROVE  RunsHold(rewrite'.normalizer, IssuedLocals')
<1>1. IssuedLocals' = IssuedLocals
  BY DEF IssuedLocals
<1> QED BY <1>1, InvFacts

LEMMA TakeKeeps ==
    ASSUME RewriteInv, Take
    PROVE  RewriteInv' /\ Rust!Take
<1> DEFINE a == Abstraction(rewrite)
<1>1. Core!IndInv /\ Linking(rewrite) /\ Bounded(rewrite)
  BY InvFacts
<1>2. /\ NextCreationRange(rewrite).len # 0
      /\ rewrite' = TakeNextCreationRange(rewrite)
      /\ taken' = taken \cup {NextCreationRange(rewrite)} /\ issued' = issued
  BY DEF Take
<1>3. /\ Linking(rewrite')
      /\ Abstraction(rewrite') = Core!TakeNextRange(a)
      /\ Reserved(rewrite) => Reserved(rewrite')
      /\ rewrite'.normalizer = rewrite.normalizer
      /\ NextCreationRange(rewrite) = Core!NextRange(a)
      /\ NextCreationRange(rewrite).len = Core!UntakenCount(a)
  BY <1>1, <1>2, TakeAgrees
<1>4. Core!Take
  BY <1>2, <1>3 DEF Core!Take
<1>5. Core!IndInv'
  BY <1>1, <1>4, Constants, Core!TakeStep
<1>6. Reserved(rewrite')
  BY <1>1, <1>3 DEF Bounded
<1>7. Rust!Take
  BY <1>4, SameGeneration DEF Rust!Take, Core!Take
<1> QED BY <1>2, <1>3, <1>5, <1>6, <1>7, MapUnchanged, InvAgain

LEMMA SetCapacityKeeps ==
    ASSUME RewriteInv, SetCapacity
    PROVE  RewriteInv' /\ Rust!SetCapacity
<1> DEFINE a == Abstraction(rewrite)
<1>1. Core!IndInv /\ Linking(rewrite) /\ Bounded(rewrite)
  BY InvFacts
<1>2. PICK capacity \in Capacities :
         /\ rewrite' = SetClusterCapacity(rewrite, capacity)
         /\ taken' = taken /\ issued' = issued
  BY DEF SetCapacity
<1>3. /\ Linking(rewrite')
      /\ Abstraction(rewrite') = Core!SetClusterCapacity(a, capacity)
      /\ Reserved(rewrite) => Reserved(rewrite')
      /\ rewrite'.normalizer = rewrite.normalizer
  BY <1>1, <1>2, SetCapacityAgrees
<1>4. Core!SetCapacity
  BY <1>2, <1>3 DEF Core!SetCapacity
<1>5. Core!IndInv'
  BY <1>1, <1>4, Constants, Core!SetCapacityStep
<1>6. Reserved(rewrite')
  BY <1>1, <1>3 DEF Bounded
<1>7. Rust!SetCapacity
  BY <1>4, SameGeneration DEF Rust!SetCapacity, Core!SetCapacity
<1> QED BY <1>2, <1>3, <1>5, <1>6, <1>7, MapUnchanged, InvAgain

(* No range that is finalized goes beyond what a session can have. *)
LEMMA FinalizedRanges ==
    ASSUME RewriteInv
    PROVE  \A r \in taken \cup RemoteRanges :
              /\ Core!Finalizable(r)
              /\ r \in Core!Ranges
              /\ r.len # 0 => r.base + r.len <= 2 * MaxGenerated
<1>1. \A r \in taken \cup RemoteRanges : Core!Finalizable(r)
  BY InvFacts, Constants, SameRemoteRanges, Core!FinalizedAreFinalizable
<1>2. MaxGenerated \in Nat
  BY Constants
<1> SUFFICES ASSUME NEW r \in taken \cup RemoteRanges
             PROVE  r \in Core!Ranges /\ (r.len # 0 => r.base + r.len <= 2 * MaxGenerated)
  BY <1>1
<1>3. /\ r \in Core!Ranges
      /\ r.base + r.len <= Core!MostIds(r.session) + 1
  BY <1>1 DEF Core!Finalizable
<1>4. r.base \in Nat /\ r.base > 0 /\ r.len \in Nat
  BY <1>3 DEF Core!Ranges, Core!Positive
<1>5. CASE r \in RemoteRanges
  <2>1. r.base \in 1..MaxGenerated /\ r.len \in 0..MaxGenerated
    BY <1>5 DEF RemoteRanges
  <2> QED BY <1>2, <1>3, <2>1
<1>6. CASE r \in taken
  <2>1. r.session = LocalSession
    BY <1>6, InvFacts DEF Core!IndInv, Core!TakenInv
  <2>2. r.base + r.len <= MaxGenerated + 1
    BY <1>3, <2>1 DEF Core!MostIds
  <2> QED BY <1>2, <1>3, <1>4, <2>2
<1> QED BY <1>5, <1>6

LEMMA FinalizeKeeps ==
    ASSUME SessionsFarApart, RewriteInv, NEW r \in taken \cup RemoteRanges, Finalize(r)
    PROVE  RewriteInv' /\ Rust!Finalize(r)
<1> DEFINE a == Abstraction(rewrite)
<1>1. Core!IndInv /\ Core!CompressorInv(a) /\ Linking(rewrite) /\ Bounded(rewrite)
  BY InvFacts
<1>2. rewrite' = FinalizeCreationRange(rewrite, r) /\ taken' = taken /\ issued' = issued
  BY DEF Finalize
<1>3. /\ Core!Finalizable(r) /\ r \in Core!Ranges
      /\ r.len # 0 => r.base + r.len <= 2 * MaxGenerated
  BY FinalizedRanges
<1>4. /\ Linking(rewrite')
      /\ Abstraction(rewrite') = Core!FinalizeRange(a, r)
      /\ rewrite'.normalizer = rewrite.normalizer
  BY <1>1, <1>2, <1>3, FinalizeAgrees
<1>5. Reserved(rewrite')
  BY <1>1, <1>2, <1>3, FinalizeKeepsReserved
<1>6. Core!Finalize(r)
  BY <1>2, <1>4 DEF Core!Finalize
<1>7. Core!IndInv'
  BY <1>1, <1>3, <1>6, Constants, Core!FinalizeStep
<1>8. Rust!Finalize(r)
  BY <1>6, SameFinalization DEF Rust!Finalize, Core!Finalize
<1> QED BY <1>2, <1>4, <1>5, <1>7, <1>8, MapUnchanged, InvAgain

(* A step implements one of Rust, or leaves everything alone. *)
LEMMA RewriteInvStep ==
    ASSUME SessionsFarApart, RewriteInv, [Next]_vars
    PROVE  RewriteInv' /\ [Rust!Next]_Rust!vars
<1>1. CASE Generate
  BY <1>1, GenerateKeeps DEF Rust!Next
<1>2. CASE Take
  BY <1>2, TakeKeeps DEF Rust!Next
<1>3. CASE FinalizeOwn
  <2>1. PICK r \in taken : Finalize(r)
    BY <1>3 DEF FinalizeOwn
  <2>2. RewriteInv' /\ Rust!Finalize(r)
    BY <2>1, FinalizeKeeps
  <2> QED BY <2>1, <2>2 DEF Rust!Next, Rust!FinalizeOwn
<1>4. CASE FinalizeRemote
  <2>1. PICK r \in RemoteRanges : Finalize(r)
    BY <1>4 DEF FinalizeRemote
  <2>2. RewriteInv' /\ Rust!Finalize(r)
    BY <2>1, FinalizeKeeps
  <2>3. r \in Rust!RemoteRanges
    BY SameRemoteRanges
  <2> QED BY <2>1, <2>2, <2>3 DEF Rust!Next, Rust!FinalizeRemote
<1>5. CASE SetCapacity
  BY <1>5, SetCapacityKeeps DEF Rust!Next
<1>6. CASE UNCHANGED vars
  <2>1. rewrite' = rewrite /\ taken' = taken /\ issued' = issued
    BY <1>6 DEF vars
  <2>2. UNCHANGED Rust!vars
    BY <2>1 DEF Rust!vars
  <2>3. RewriteInv'
    <3>1. Core!IndInv'
      <4>1. Core!IndInv /\ UNCHANGED Core!vars
        BY <2>1, InvFacts DEF Core!vars
      <4> QED BY <4>1, Constants, Core!IndInvStep
    <3>2. Linking(rewrite') /\ Reserved(rewrite') /\ rewrite'.normalizer = rewrite.normalizer
      BY <2>1, InvFacts DEF Bounded
    <3> QED BY <2>1, <3>1, <3>2, MapUnchanged, InvAgain
  <2> QED BY <2>2, <2>3
<1> QED BY <1>1, <1>2, <1>3, <1>4, <1>5, <1>6 DEF Next

LEMMA CreatedIsNew ==
    ASSUME NEW c, c = Create(LocalSession)
    PROVE  /\ Linking(c) /\ Reserved(c)
           /\ c.normalizer = <<>> /\ c.normalizer \in Seq(Run)
           /\ RunsHold(c.normalizer, {})
           /\ Abstraction(c) = Core!NewCompressor(LocalSession)
<1>1. /\ LocalSession \in Sessions /\ DefaultClusterCapacity \in Nat \ {0}
      /\ DefaultClusterCapacity \in AllCapacities
  BY Constants DEF AllCapacities, Core!Positive
<1>2. /\ c.localSessionId = LocalSession /\ c.generatedIdCount = 0 /\ c.nextRangeBase = 1
      /\ c.clusterCapacity = DefaultClusterCapacity /\ c.sessionList = <<LocalSession>>
      /\ c.chains = [o \in Sessions |-> <<>>] /\ c.clusterList = <<>> /\ c.normalizer = <<>>
  BY DEF Create
<1>3. c \in Compressor
  <2>1. <<LocalSession>> \in Seq(Sessions)
    BY <1>1
  <2>2. [o \in Sessions |-> <<>>] \in [Sessions -> Seq(IdCluster)]
    OBVIOUS
  <2> QED BY <1>1, <2>1, <2>2 DEF Create, Compressor
<1>4. Linked(c)
  BY <1>2 DEF Linked
<1>5. Reserved(c)
  BY <1>1, <1>2 DEF Reserved
<1>6. <<>> \in Seq(Run) /\ Gapped(<<>>) /\ \A q \in Int : ~InRun(<<>>, q)
  BY DEF Gapped, InRun
<1>7. RunsHold(<<>>, {})
  <2>1. \A q \in -MaxGenerated..-1 : ~ContainsLocal(<<>>, q)
    <3>1. ASSUME NEW q \in -MaxGenerated..-1 PROVE q \in Int
      BY Constants
    <3> QED BY <1>6, <3>1, ContainsIsInRun
  <2> QED BY <2>1 DEF RunsHold
<1>8. FinalSpace(c) = <<>>
  BY <1>2 DEF FinalSpace
<1>9. Abstraction(c).normalizer = {}
  BY <1>2, <1>7, AbstractNormalizer
<1>10. Abstraction(c) = Core!NewCompressor(LocalSession)
  <2>1. FinalIdLimit(c) = 0
    BY <1>8 DEF FinalIdLimit
  <2>2. {local \in -MaxGenerated..-1 : ContainsLocal(c.normalizer, local)} = {}
    BY <1>9, AbstractionFields
  <2> QED BY <1>2, <1>8, <2>1, <2>2 DEF Abstraction, Core!NewCompressor
<1> QED BY <1>2, <1>3, <1>4, <1>5, <1>6, <1>7, <1>10 DEF Linking

LEMMA InitRewriteInv == Init => RewriteInv /\ Rust!Init
<1> SUFFICES ASSUME Init PROVE RewriteInv /\ Rust!Init
  OBVIOUS
<1>1. rewrite = Create(LocalSession) /\ taken = {} /\ issued = <<>>
  BY DEF Init
<1>2. /\ Linking(rewrite) /\ Reserved(rewrite)
      /\ RunsHold(rewrite.normalizer, {})
      /\ Abstraction(rewrite) = Core!NewCompressor(LocalSession)
  BY <1>1, CreatedIsNew
<1>3. Core!Init
  BY <1>1, <1>2 DEF Core!Init
<1>4. Core!IndInv
  BY <1>3, Constants, Core!InitIndInv
<1>5. TypeOK
  BY <1>1, <1>2 DEF TypeOK, Linking
<1>6. IssuedLocals = {}
  BY <1>1 DEF IssuedLocals
<1>7. Rust!Init
  BY <1>3, SameInitial DEF Rust!Init, Core!Init
<1> QED BY <1>2, <1>4, <1>5, <1>6, <1>7, SameIndInv DEF RewriteInv, Linking

(* In every reachable state chains, references and map are what the tables and
   the set of the Rust compressor are, and these are correct
   (IdCompressor.ts:96-340, sessions.ts, finalSpace.ts).                   *)
THEOREM RewriteInvHolds == SessionsFarApart => (Spec => []RewriteInv)
<1> SUFFICES ASSUME SessionsFarApart PROVE Spec => []RewriteInv
  OBVIOUS
<1>1. RewriteInv /\ [Next]_vars => RewriteInv'
  BY RewriteInvStep
<1> QED BY <1>1, InitRewriteInv, PTL DEF Spec

(* The chains hold the clusters of the final space, and no other: no cluster
   is left in a chain by a collision (sessions.ts:75-110).                 *)
THEOREM SpacesAgreeHolds == SessionsFarApart => (Spec => []SpacesAgree)
<1>1. RewriteInv => SpacesAgree
  BY DEF RewriteInv, SpacesAgree
<1> QED BY <1>1, RewriteInvHolds, PTL

(* Every behaviour of the rewrite is one of the Rust compressor for the same
   calls: the same IDs, the same clusters, the same ranges refused.        *)
THEOREM ImplementsRustHolds == SessionsFarApart => (Spec => ImplementsRust)
<1> SUFFICES ASSUME SessionsFarApart PROVE Spec => ImplementsRust
  OBVIOUS
<1>1. RewriteInv /\ [Next]_vars => RewriteInv' /\ [Rust!Next]_Rust!vars
  BY RewriteInvStep
<1>2. Init => Rust!Init
  BY InitRewriteInv
<1> QED BY <1>1, <1>2, InitRewriteInv, RewriteInvHolds, PTL DEF Spec, ImplementsRust, Rust!Spec

-----------------------------------------------------------------------------
(* Translations: searches in a chain or in the final space find the clusters
   that a search in the table finds.                                       *)
LEMMA SameTranslations ==
    ASSUME NEW c, NEW id
    PROVE  /\ Rust!NormalizeToOpSpace(c, id) = Core!NormalizeToOpSpace(c, id)
           /\ Rust!Decompress(c, id) = Core!Decompress(c, id)
           /\ \A s : Rust!NormalizeToSessionSpace(c, id, s) = Core!NormalizeToSessionSpace(c, id, s)
<1>1. ASSUME NEW k, NEW q
      PROVE  /\ Rust!GenCount(q) = Core!GenCount(q)
             /\ Rust!AllocatedFinal(k, q) = Core!AllocatedFinal(k, q)
             /\ Rust!AlignedLocal(k, q) = Core!AlignedLocal(k, q)
             /\ Rust!StableOf(k, q) = Core!StableOf(k, q)
             /\ Rust!MaxLocal(k) = Core!MaxLocal(k)
             /\ Rust!HoldsLocal(k, q) <=> Core!HoldsLocal(k, q)
             /\ Rust!HoldsFinalizedLocal(k, q) <=> Core!HoldsFinalizedLocal(k, q)
             /\ Rust!HoldsFinal(k, q) <=> Core!HoldsFinal(k, q)
             /\ Rust!MayDecompress(c, k, q) <=> Core!MayDecompress(c, k, q)
  BY DEF Rust!GenCount, Core!GenCount, Rust!AllocatedFinal, Core!AllocatedFinal,
         Rust!AlignedLocal, Core!AlignedLocal, Rust!StableOf, Core!StableOf,
         Rust!MaxLocal, Core!MaxLocal, Rust!HoldsLocal, Core!HoldsLocal,
         Rust!MaxAllocatedLocal, Core!MaxAllocatedLocal,
         Rust!HoldsFinalizedLocal, Core!HoldsFinalizedLocal,
         Rust!HoldsFinal, Core!HoldsFinal, Rust!MaxAllocatedFinal, Core!MaxAllocatedFinal,
         Rust!MayDecompress, Core!MayDecompress
<1>2. ASSUME NEW t, NEW s, NEW q
      PROVE  /\ Rust!TryConvertToAllocated(t, s, q) = Core!TryConvertToAllocated(t, s, q)
             /\ Rust!TryConvertToFinal(t, s, q) = Core!TryConvertToFinal(t, s, q)
  BY <1>1, SameTails DEF Rust!TryConvertToAllocated, Core!TryConvertToAllocated,
                         Rust!TryConvertToFinal, Core!TryConvertToFinal
<1>3. ASSUME NEW t
      PROVE  Rust!Search(t, id) = Core!Search(t, id)
  BY <1>1 DEF Rust!Search, Core!Search
<1>4. Rust!NormalizeToOpSpace(c, id) = Core!NormalizeToOpSpace(c, id)
  BY <1>2 DEF Rust!NormalizeToOpSpace, Core!NormalizeToOpSpace
<1>5. Rust!Decompress(c, id) = Core!Decompress(c, id)
  BY DEF Rust!Decompress, Core!Decompress, Rust!MayDecompress, Core!MayDecompress,
         Rust!Search, Core!Search, Rust!HoldsFinal, Core!HoldsFinal,
         Rust!MaxAllocatedFinal, Core!MaxAllocatedFinal, Rust!AlignedLocal, Core!AlignedLocal,
         Rust!StableOf, Core!StableOf, Rust!GenCount, Core!GenCount, Rust!MaxLocal, Core!MaxLocal
<1>6. Rust!NormalizeOwnLocal(c, id) = Core!NormalizeOwnLocal(c, id)
  BY <1>1, <1>2 DEF Rust!NormalizeOwnLocal, Core!NormalizeOwnLocal
<1>7. Rust!NormalizeFinal(c, id) = Core!NormalizeFinal(c, id)
  BY DEF Rust!NormalizeFinal, Core!NormalizeFinal, Rust!Chain, Core!Chain,
         Rust!Search, Core!Search, Rust!HoldsFinal, Core!HoldsFinal,
         Rust!MaxAllocatedFinal, Core!MaxAllocatedFinal, Rust!AlignedLocal, Core!AlignedLocal,
         Rust!GenCount, Core!GenCount
<1>8. Rust!Known(c) = Core!Known(c)
  BY DEF Rust!Known, Core!Known, Rust!Elements, Core!Elements
<1> QED BY <1>2, <1>4, <1>5, <1>6, <1>7, <1>8 DEF Rust!NormalizeToSessionSpace, Core!NormalizeToSessionSpace

(* The numbers of a cluster of the final space. *)
LEMMA SpaceTypesOf ==
    ASSUME NEW c, Linking(c), Core!TableInv(FinalSpace(c)), NEW i \in DOMAIN FinalSpace(c)
    PROVE  /\ FinalSpace(c)[i].session \in Int
           /\ FinalSpace(c)[i].baseFinal \in Int
           /\ FinalSpace(c)[i].baseLocal \in Int
           /\ FinalSpace(c)[i].capacity \in Int
           /\ FinalSpace(c)[i].count \in Int
           /\ FinalSpace(c)[i].count <= FinalSpace(c)[i].capacity
<1> DEFINE t == FinalSpace(c)
<1>1. t \in Seq(Core!Cluster) /\ Core!LocalsTile(t)
  BY DEF Core!TableInv
<1>2. t[i].count <= t[i].capacity
  BY <1>1 DEF Core!LocalsTile
<1>3. /\ t[i].session \in Sessions /\ t[i].baseFinal \in Nat /\ t[i].baseLocal \in Int
      /\ t[i].capacity \in Nat /\ t[i].count \in Nat
  <2> HIDE DEF t
  <2>1. i \in DOMAIN t
    BY DEF t
  <2> QED BY <1>1, <2>1, Constants, Core!TableTypes
<1> QED BY <1>2, <1>3, SessionTypes

Holders(t, s, q) == {j \in Core!Chain(t, s) : Core!HoldsLocal(t[j], q)}
FinalizedHolders(t, s, q) == {j \in Core!Chain(t, s) : Core!HoldsFinalizedLocal(t[j], q)}

Rows(t, places) == {t[i] : i \in places}

FinalAsInTable(k, q) == GetAllocatedFinal(k, q) = {Core!AllocatedFinal(k, q)}

LEMMA ByLocalAgrees ==
    ASSUME NEW c, Linking(c), Core!TableInv(FinalSpace(c)), NEW s \in Sessions, NEW q \in Int,
           NEW space, space = FinalSpace(c)
    PROVE  /\ ByLocal(c, s, q, TRUE) = Rows(space, Holders(space, s, q))
           /\ ByLocal(c, s, q, FALSE) = Rows(space, FinalizedHolders(space, s, q))
           /\ \A i \in Holders(space, s, q) : FinalAsInTable(space[i], q)
           /\ \A i \in FinalizedHolders(space, s, q) : FinalAsInTable(space[i], q)
<1> DEFINE t == FinalSpace(c)
           chain == Core!Chain(t, s)
<1>1. {c.chains[s][p] : p \in DOMAIN c.chains[s]} = {t[i] : i \in chain}
  BY ChainClusters
<1>2. ASSUME NEW i \in chain
      PROVE  /\ t[i].baseFinal \in Int /\ t[i].baseLocal \in Int
             /\ t[i].capacity \in Int /\ t[i].count \in Int /\ t[i].count <= t[i].capacity
  BY SpaceTypesOf DEF Core!Chain
<1> HIDE DEF t, chain
<1>3. ASSUME NEW i \in chain
      PROVE  /\ (q <= t[i].baseLocal /\ q >= LastAllocatedLocal(t[i])) <=> Core!HoldsLocal(t[i], q)
             /\ (q <= t[i].baseLocal /\ q >= LastFinalizedLocal(t[i])) <=> Core!HoldsFinalizedLocal(t[i], q)
             /\ Core!HoldsFinalizedLocal(t[i], q) => Core!HoldsLocal(t[i], q)
             /\ Core!HoldsLocal(t[i], q) => GetAllocatedFinal(t[i], q) = {Core!AllocatedFinal(t[i], q)}
  <2> DEFINE final == t[i].baseFinal
             base == t[i].baseLocal
             most == t[i].capacity
             count == t[i].count
  <2>1. final \in Int /\ base \in Int /\ most \in Int /\ count \in Int /\ count <= most
    BY <1>2
  <2>2. /\ LastAllocatedLocal(t[i]) = base - (most - 1)
        /\ LastFinalizedLocal(t[i]) = base - (count - 1)
        /\ Core!HoldsLocal(t[i], q) <=> base - (most - 1) <= q /\ q <= base
        /\ Core!HoldsFinalizedLocal(t[i], q) <=> base - (count - 1) <= q /\ q <= base
        /\ GetAllocatedFinal(t[i], q) = {final + offset : offset \in {o \in {base - q} : o < most}}
        /\ Core!AllocatedFinal(t[i], q) = final + ((-q) - (-base))
    BY DEF LastAllocatedLocal, LastFinalizedLocal, Core!HoldsLocal, Core!HoldsFinalizedLocal,
           Core!MaxAllocatedLocal, Core!MaxLocal, GetAllocatedFinal, Core!AllocatedFinal, Core!GenCount
  <2> HIDE DEF final, base, most, count
  <2>3. base - (count - 1) <= q => base - (most - 1) <= q
    BY <2>1
  <2>4. base - (most - 1) <= q => base - q < most
    BY <2>1
  <2>5. final + ((-q) - (-base)) = final + (base - q)
    BY <2>1
  <2>6. base - q < most => {final + offset : offset \in {o \in {base - q} : o < most}} = {final + (base - q)}
    OBVIOUS
  <2>7. q <= t[i].baseLocal <=> q <= base
    BY DEF base
  <2> QED BY <2>1, <2>2, <2>3, <2>4, <2>5, <2>6, <2>7
<1>4. ByLocal(c, s, q, TRUE) = {t[i] : i \in {j \in chain : Core!HoldsLocal(t[j], q)}}
  <2>1. ByLocal(c, s, q, TRUE) = {k \in {t[i] : i \in chain} : q <= k.baseLocal /\ q >= LastAllocatedLocal(k)}
    BY <1>1 DEF ByLocal
  <2> QED BY <1>3, <2>1
<1>5. ByLocal(c, s, q, FALSE) = {t[i] : i \in {j \in chain : Core!HoldsFinalizedLocal(t[j], q)}}
  <2>1. ByLocal(c, s, q, FALSE) = {k \in {t[i] : i \in chain} : q <= k.baseLocal /\ q >= LastFinalizedLocal(k)}
    BY <1>1 DEF ByLocal
  <2> QED BY <1>3, <2>1
<1>6. space = t /\ Holders(space, s, q) = {j \in chain : Core!HoldsLocal(t[j], q)}
                /\ FinalizedHolders(space, s, q) = {j \in chain : Core!HoldsFinalizedLocal(t[j], q)}
  BY DEF t, chain, Holders, FinalizedHolders
<1> QED BY <1>3, <1>4, <1>5, <1>6 DEF Rows, FinalAsInTable

LEMMA ConvertAgrees ==
    ASSUME NEW c, Linking(c), Core!TableInv(FinalSpace(c)), NEW s \in Sessions, NEW q \in Int
    PROVE  /\ TryConvertToAllocated(c, s, q) = Core!TryConvertToAllocated(FinalSpace(c), s, q)
           /\ TryConvertToFinal(c, s, q) = Core!TryConvertToFinal(FinalSpace(c), s, q)
<1> DEFINE t == FinalSpace(c)
           allocated == Holders(t, s, q)
           finalized == FinalizedHolders(t, s, q)
<1>1. /\ ByLocal(c, s, q, TRUE) = {t[i] : i \in allocated}
      /\ ByLocal(c, s, q, FALSE) = {t[i] : i \in finalized}
      /\ \A i \in allocated \cup finalized :
            GetAllocatedFinal(t[i], q) = {Core!AllocatedFinal(t[i], q)}
  <2>1. /\ ByLocal(c, s, q, TRUE) = Rows(t, Holders(t, s, q))
        /\ ByLocal(c, s, q, FALSE) = Rows(t, FinalizedHolders(t, s, q))
        /\ \A i \in Holders(t, s, q) : FinalAsInTable(t[i], q)
        /\ \A i \in FinalizedHolders(t, s, q) : FinalAsInTable(t[i], q)
    BY ONLY Linking(c), Core!TableInv(FinalSpace(c)), s \in Sessions, q \in Int,
            t = FinalSpace(c), ByLocalAgrees
  <2> QED BY <2>1 DEF Rows, FinalAsInTable
<1> HIDE DEF t, allocated, finalized
<1>2. TryConvertToAllocated(c, s, q) = {Core!AllocatedFinal(t[i], q) : i \in allocated}
  <2>1. TryConvertToAllocated(c, s, q) = UNION {GetAllocatedFinal(k, q) : k \in {t[i] : i \in allocated}}
    BY <1>1 DEF TryConvertToAllocated
  <2> QED BY <1>1, <2>1
<1>3. TryConvertToFinal(c, s, q) = {Core!AllocatedFinal(t[i], q) : i \in finalized}
  <2>1. TryConvertToFinal(c, s, q) = UNION {GetAllocatedFinal(k, q) : k \in {t[i] : i \in finalized}}
    BY <1>1 DEF TryConvertToFinal
  <2> QED BY <1>1, <2>1
<1> QED BY <1>2, <1>3 DEF t, allocated, finalized, Holders, FinalizedHolders,
                         Core!TryConvertToAllocated, Core!TryConvertToFinal

(* The clusters that hold a final ID, in the final space and in a chain. *)
LEMMA HoldersAgree ==
    ASSUME NEW c, Linking(c), Core!TableInv(FinalSpace(c)), NEW s \in Sessions, NEW q \in Int,
           NEW t, t = FinalSpace(c), NEW found, found = Core!Search(t, q)
    PROVE  /\ ByAllocatedFinal(t, q) = {t[i] : i \in found}
           /\ ByAllocatedFinal(c.chains[s], q) = {t[i] : i \in found \cap Core!Chain(t, s)}
           /\ \A i \in found : /\ GetAlignedLocal(t[i], q) = Core!AlignedLocal(t[i], q)
                               /\ Core!AlignedLocal(t[i], q) \in Int
                               /\ t[i].session \in Int
                               /\ LastFinalizedLocal(t[i]) = Core!MaxLocal(t[i])
<1>1. \A k : (k.baseFinal <= q /\ q <= LastAllocatedFinal(k)) <=> Core!HoldsFinal(k, q)
  BY DEF LastAllocatedFinal, Core!HoldsFinal, Core!MaxAllocatedFinal
<1>2. ByAllocatedFinal(t, q) = {t[i] : i \in found}
  BY <1>1 DEF ByAllocatedFinal, Core!Search
<1>3. ByAllocatedFinal(c.chains[s], q) = {t[i] : i \in found \cap Core!Chain(t, s)}
  <2> DEFINE held == {c.chains[s][p] : p \in DOMAIN c.chains[s]}
             chain == Core!Chain(t, s)
  <2>1. held = {t[i] : i \in chain}
    <3>1. {c.chains[s][p] : p \in DOMAIN c.chains[s]}
            = {FinalSpace(c)[i] : i \in Core!Chain(FinalSpace(c), s)}
      BY ONLY Linking(c), s \in Sessions, ChainClusters
    <3> QED BY <3>1
  <2>2. ByAllocatedFinal(c.chains[s], q) = {k \in held : Core!HoldsFinal(k, q)}
    BY <1>1 DEF ByAllocatedFinal
  <2>3. chain \subseteq DOMAIN t
    BY DEF Core!Chain
  <2>4. found \cap chain = {i \in chain : Core!HoldsFinal(t[i], q)}
    BY <2>3 DEF Core!Search
  <2> HIDE DEF held, chain
  <2>5. ByAllocatedFinal(c.chains[s], q) = {t[i] : i \in {j \in chain : Core!HoldsFinal(t[j], q)}}
    BY <2>1, <2>2
  <2> QED BY <2>4, <2>5 DEF chain
<1>4. ASSUME NEW i \in found
      PROVE  /\ GetAlignedLocal(t[i], q) = Core!AlignedLocal(t[i], q)
             /\ Core!AlignedLocal(t[i], q) \in Int
             /\ t[i].session \in Int
             /\ LastFinalizedLocal(t[i]) = Core!MaxLocal(t[i])
  <2>1. /\ t[i].session \in Int /\ t[i].baseFinal \in Int /\ t[i].baseLocal \in Int
    BY SpaceTypesOf DEF Core!Search
  <2>2. GetAlignedLocal(t[i], q) = Core!AlignedLocal(t[i], q)
    BY DEF GetAlignedLocal, Core!AlignedLocal
  <2>3. LastFinalizedLocal(t[i]) = Core!MaxLocal(t[i])
    BY DEF LastFinalizedLocal, Core!MaxLocal
  <2>4. Core!AlignedLocal(t[i], q) \in Int
    BY <2>1 DEF Core!AlignedLocal
  <2> QED BY <2>1, <2>2, <2>3, <2>4
<1> QED BY <1>2, <1>3, <1>4

(* A compressor whose tables are correct and whose map holds the local IDs of
   its abstraction.                                                        *)
Exact(c) ==
    /\ Linking(c)
    /\ Core!CompressorInv(Abstraction(c))
    /\ \A q \in Int : ContainsLocal(c.normalizer, q) <=> q \in Abstraction(c).normalizer

LEMMA ExactFacts ==
    ASSUME NEW c, Exact(c), NEW a, a = Abstraction(c)
    PROVE  /\ Linking(c) /\ c \in Compressor
           /\ Core!TableInv(FinalSpace(c))
           /\ a.clusters = FinalSpace(c)
           /\ a.sessionId = c.localSessionId /\ c.localSessionId \in Sessions
           /\ c.localSessionId \in Int
           /\ a.generatedIdCount = c.generatedIdCount /\ c.generatedIdCount \in Int
           /\ a.finalIdLimit = FinalIdLimit(c)
           /\ Known(c) = Core!Known(a) /\ Known(c) \subseteq Sessions
           /\ c.localSessionId \in Known(c)
           /\ \A q \in Int : ContainsLocal(c.normalizer, q) <=> q \in a.normalizer
<1>1. /\ Linking(c) /\ Core!CompressorInv(a)
      /\ \A q \in Int : ContainsLocal(c.normalizer, q) <=> q \in a.normalizer
  BY DEF Exact
<1>2. c \in Compressor
  BY <1>1 DEF Linking
<1>3. /\ a.sessionId = c.localSessionId /\ a.clusters = FinalSpace(c)
      /\ a.generatedIdCount = c.generatedIdCount /\ a.sessions = c.sessionList
      /\ a.finalIdLimit = FinalIdLimit(c)
  BY AbstractionFields, SpaceLimits
<1>4. Core!TableInv(a.clusters) /\ a.sessionId \in Core!Known(a)
  BY <1>1, Constants, Core!CompressorFacts
<1>5. c.localSessionId \in Sessions /\ c.generatedIdCount \in Int
  <2>1. c.localSessionId \in Sessions /\ c.generatedIdCount \in Nat
    BY <1>2, CompressorFields
  <2> QED BY <2>1
<1>6. Known(c) = Core!Known(a)
  BY <1>3 DEF Known, Core!Known, Core!Elements
<1>7. Known(c) \subseteq Sessions
  BY <1>2, KnownTypes
<1> QED BY <1>1, <1>2, <1>3, <1>4, <1>5, <1>6, <1>7, SessionTypes

LEMMA OpSpaceAgrees ==
    ASSUME NEW c, Exact(c), NEW q \in Int
    PROVE  NormalizeToOpSpace(c, q) = Core!NormalizeToOpSpace(Abstraction(c), q)
<1> DEFINE a == Abstraction(c)
           own == c.localSessionId
<1>1. /\ Linking(c) /\ Core!TableInv(FinalSpace(c)) /\ own \in Sessions
      /\ a.clusters = FinalSpace(c) /\ a.sessionId = own
      /\ ContainsLocal(c.normalizer, q) <=> q \in a.normalizer
  BY ExactFacts
<1>2. TryConvertToAllocated(c, own, q) = Core!TryConvertToAllocated(FinalSpace(c), own, q)
  BY <1>1, ConvertAgrees
<1> QED BY <1>1, <1>2 DEF NormalizeToOpSpace, Core!NormalizeToOpSpace

LEMMA DecompressionAgrees ==
    ASSUME NEW c, Exact(c), NEW q \in Int
    PROVE  TryDecompress(c, q) = Core!Decompress(Abstraction(c), q)
<1> DEFINE a == Abstraction(c)
           own == c.localSessionId
           t == FinalSpace(c)
           found == Core!Search(t, q)
<1>1. /\ Linking(c) /\ Core!TableInv(t) /\ own \in Sessions /\ own \in Int
      /\ a.clusters = t /\ a.sessionId = own
      /\ a.generatedIdCount = c.generatedIdCount
      /\ \A x \in Int : ContainsLocal(c.normalizer, x) <=> x \in a.normalizer
  BY ExactFacts
<1>2. ASSUME NEW x \in Int, NEW y \in Int
      PROVE  StableOf(x, y) = Core!StableOf(x, y)
  BY DEF StableOf, Core!StableOf, Core!GenCount
<1>3. /\ ByAllocatedFinal(t, q) = {t[i] : i \in found}
      /\ \A i \in found : /\ GetAlignedLocal(t[i], q) = Core!AlignedLocal(t[i], q)
                          /\ Core!AlignedLocal(t[i], q) \in Int
                          /\ t[i].session \in Int
                          /\ LastFinalizedLocal(t[i]) = Core!MaxLocal(t[i])
  BY <1>1, HoldersAgree
<1> HIDE DEF t, found, own, a
<1>4. ASSUME NEW i \in found
      PROVE  /\ MayDecompress(c, t[i], GetAlignedLocal(t[i], q))
                  <=> Core!MayDecompress(a, t[i], Core!AlignedLocal(t[i], q))
             /\ StableOf(t[i].session, GetAlignedLocal(t[i], q))
                  = Core!StableOf(t[i].session, Core!AlignedLocal(t[i], q))
  <2> DEFINE local == Core!AlignedLocal(t[i], q)
  <2>1. /\ GetAlignedLocal(t[i], q) = local /\ local \in Int /\ t[i].session \in Int
        /\ LastFinalizedLocal(t[i]) = Core!MaxLocal(t[i])
    BY <1>3
  <2> HIDE DEF local
  <2>2. ContainsLocal(c.normalizer, local) <=> local \in a.normalizer
    BY <1>1, <2>1
  <2>3. MayDecompress(c, t[i], local) <=> Core!MayDecompress(a, t[i], local)
    BY <1>1, <2>1, <2>2 DEF MayDecompress, Core!MayDecompress, Core!GenCount, own
  <2>4. StableOf(t[i].session, local) = Core!StableOf(t[i].session, local)
    BY <1>2, <2>1
  <2> QED BY <2>1, <2>3, <2>4 DEF local
<1>5. CASE q < 0
  <2>1. StableOf(own, q) = Core!StableOf(own, q)
    BY <1>1, <1>2
  <2> QED BY <1>1, <1>5, <2>1 DEF TryDecompress, Core!Decompress, own, a
<1>6. CASE q >= 0
  <2> DEFINE Of(k) == StableOf(k.session, GetAlignedLocal(k, q))
             May(k) == MayDecompress(c, k, GetAlignedLocal(k, q))
             CoreOf(k) == Core!StableOf(k.session, Core!AlignedLocal(k, q))
             CoreMay(k) == Core!MayDecompress(a, k, Core!AlignedLocal(k, q))
  <2>1. TryDecompress(c, q) = {Of(k) : k \in {k \in ByAllocatedFinal(t, q) : May(k)}}
    BY <1>6 DEF TryDecompress, t
  <2>2. Core!Decompress(a, q) = {CoreOf(t[i]) : i \in {j \in found : CoreMay(t[j])}}
    BY <1>1, <1>6 DEF Core!Decompress, found
  <2>3. \A i \in found : (May(t[i]) <=> CoreMay(t[i])) /\ Of(t[i]) = CoreOf(t[i])
    BY <1>4
  <2> HIDE DEF Of, May, CoreOf, CoreMay
  <2>4. {Of(k) : k \in {k \in {t[i] : i \in found} : May(k)}} = {CoreOf(t[i]) : i \in {j \in found : CoreMay(t[j])}}
    BY <2>3
  <2> QED BY <1>3, <2>1, <2>2, <2>4 DEF a
<1> QED BY <1>5, <1>6

LEMMA FinalAgrees ==
    ASSUME NEW c, Exact(c), NEW q \in Int,
           q # FinalIdLimit(c) \/ ByAllocatedFinal(c.chains[c.localSessionId], q) # {}
    PROVE  NormalizeFinal(c, q) = Core!NormalizeFinal(Abstraction(c), q)
<1> DEFINE a == Abstraction(c)
           own == c.localSessionId
           t == FinalSpace(c)
           found == Core!Search(t, q) \cap Core!Chain(t, own)
           Own(local) == IF local \in a.normalizer THEN {local}
                         ELSE IF Core!GenCount(local) <= a.generatedIdCount THEN {q}
                         ELSE {}
<1>1. /\ Linking(c) /\ Core!TableInv(t) /\ own \in Sessions
      /\ a.clusters = t /\ a.sessionId = own
      /\ a.generatedIdCount = c.generatedIdCount
      /\ a.finalIdLimit = FinalIdLimit(c)
      /\ \A x \in Int : ContainsLocal(c.normalizer, x) <=> x \in a.normalizer
  BY ExactFacts
<1>2. /\ ByAllocatedFinal(c.chains[own], q) = {t[i] : i \in found}
      /\ \A i \in found : /\ GetAlignedLocal(t[i], q) = Core!AlignedLocal(t[i], q)
                          /\ Core!AlignedLocal(t[i], q) \in Int
  <2>1. /\ ByAllocatedFinal(c.chains[own], q) = {t[i] : i \in Core!Search(t, q) \cap Core!Chain(t, own)}
        /\ \A i \in Core!Search(t, q) : /\ GetAlignedLocal(t[i], q) = Core!AlignedLocal(t[i], q)
                                        /\ Core!AlignedLocal(t[i], q) \in Int
    <3> HIDE DEF found, a, own, Own
    <3> QED BY <1>1, HoldersAgree
  <2> QED BY <2>1
<1>3. \A x \in Int : NormalizeOwnFinal(c, q, x) = Own(x)
  BY <1>1 DEF NormalizeOwnFinal, Core!GenCount
<1>4. Core!NormalizeFinal(a, q) = IF found # {} THEN UNION {Own(Core!AlignedLocal(t[i], q)) : i \in found}
                                  ELSE IF q >= a.finalIdLimit THEN {} ELSE {q}
  BY <1>1 DEF Core!NormalizeFinal
<1>5. NormalizeFinal(c, q) =
         IF {t[i] : i \in found} # {}
         THEN UNION {NormalizeOwnFinal(c, q, GetAlignedLocal(k, q)) : k \in {t[i] : i \in found}}
         ELSE IF q > FinalIdLimit(c) THEN {} ELSE {q}
  BY <1>2 DEF NormalizeFinal
<1>6. found = {} => (q > FinalIdLimit(c) <=> q >= a.finalIdLimit)
  <2>1. FinalIdLimit(c) \in Int
    <3>1. a \in Core!Compressors
      BY Constants, Core!CompressorFacts DEF Exact
    <3> QED BY <1>1, <3>1, Constants, Core!CompressorTypes
  <2>2. found = {} => q # FinalIdLimit(c)
    BY <1>2
  <2> QED BY <1>1, <2>1, <2>2
<1> HIDE DEF found, t, own, a, Own
<1>7. \A i \in found : NormalizeOwnFinal(c, q, GetAlignedLocal(t[i], q)) = Own(Core!AlignedLocal(t[i], q))
  BY <1>2, <1>3
<1> DEFINE A(k) == NormalizeOwnFinal(c, q, GetAlignedLocal(k, q))
           B(k) == Own(Core!AlignedLocal(k, q))
<1>8. \A i \in found : A(t[i]) = B(t[i])
  BY <1>7
<1>9. /\ Core!NormalizeFinal(a, q) = IF found # {} THEN UNION {B(t[i]) : i \in found}
                                     ELSE IF q >= a.finalIdLimit THEN {} ELSE {q}
      /\ NormalizeFinal(c, q) = IF {t[i] : i \in found} # {} THEN UNION {A(k) : k \in {t[i] : i \in found}}
                                ELSE IF q > FinalIdLimit(c) THEN {} ELSE {q}
  BY <1>4, <1>5
<1> HIDE DEF A, B
<1>10. UNION {A(k) : k \in {t[i] : i \in found}} = UNION {B(t[i]) : i \in found}
  <2>1. {A(k) : k \in {t[i] : i \in found}} = {A(t[i]) : i \in found}
    BY ONLY TRUE
  <2>2. {A(t[i]) : i \in found} = {B(t[i]) : i \in found}
    BY ONLY <1>8
  <2> QED BY ONLY <2>1, <2>2
<1>11. {t[i] : i \in found} # {} <=> found # {}
  OBVIOUS
<1>12. NormalizeFinal(c, q) = Core!NormalizeFinal(a, q)
  <2>1. CASE found = {}
    BY ONLY <1>6, <1>9, <1>11, <2>1
  <2>2. CASE found # {}
    BY ONLY <1>9, <1>10, <1>11, <2>2
  <2> QED BY ONLY <2>1, <2>2
<1> QED BY <1>12 DEF a

LEMMA SessionSpaceAgrees ==
    ASSUME NEW c, Exact(c), NEW q \in Int, NEW s \in Sessions,
           q # FinalIdLimit(c) \/ ByAllocatedFinal(c.chains[c.localSessionId], q) # {}
    PROVE  NormalizeToSessionSpace(c, q, s) = Core!NormalizeToSessionSpace(Abstraction(c), q, s)
<1> DEFINE a == Abstraction(c)
           own == c.localSessionId
           t == FinalSpace(c)
<1>1. /\ Linking(c) /\ Core!TableInv(t) /\ own \in Sessions
      /\ a.clusters = t /\ a.sessionId = own
      /\ a.generatedIdCount = c.generatedIdCount
      /\ Known(c) = Core!Known(a) /\ own \in Known(c)
      /\ ContainsLocal(c.normalizer, q) <=> q \in a.normalizer
  BY ExactFacts
<1>2. /\ TryConvertToAllocated(c, own, q) = Core!TryConvertToAllocated(t, own, q)
      /\ TryConvertToFinal(c, s, q) = Core!TryConvertToFinal(t, s, q)
  BY <1>1, ConvertAgrees
<1>3. NormalizeFinal(c, q) = Core!NormalizeFinal(a, q)
  BY FinalAgrees
<1>4. NormalizeOwnLocal(c, q) = Core!NormalizeOwnLocal(a, q)
  BY <1>1, <1>2 DEF NormalizeOwnLocal, Core!NormalizeOwnLocal, Core!GenCount
<1> QED BY <1>1, <1>2, <1>3, <1>4 DEF NormalizeToSessionSpace, Core!NormalizeToSessionSpace

LEMMA InvExact ==
    ASSUME RewriteInv
    PROVE  Exact(rewrite)
<1>1. /\ Linking(rewrite) /\ Core!CompressorInv(Abstraction(rewrite))
      /\ rewrite.normalizer \in Seq(Run)
      /\ RunsHold(rewrite.normalizer, IssuedLocals)
      /\ IssuedLocals \subseteq -MaxGenerated..-1
      /\ Abstraction(rewrite).normalizer = IssuedLocals
  BY InvFacts
<1>2. \A q \in Int : ContainsLocal(rewrite.normalizer, q) <=> q \in IssuedLocals
  BY <1>1, MapHolds
<1> QED BY <1>1, <1>2 DEF Exact

(* The searches of the rewrite give the answers of the Rust compressor's
   (IdCompressor.ts:285-397, against compressor.rs:324-438).               *)
THEOREM TranslationsAgreeHolds == SessionsFarApart => (Spec => []TranslationsAgree)
<1>1. RewriteInv => TranslationsAgree
  <2> SUFFICES ASSUME RewriteInv, NEW id \in Ids
               PROVE  /\ NormalizeToOpSpace(rewrite, id) = Rust!NormalizeToOpSpace(Abstraction(rewrite), id)
                      /\ TryDecompress(rewrite, id) = Rust!Decompress(Abstraction(rewrite), id)
                      /\ id # FinalIdLimit(rewrite) \/ HeldByOwn(id) =>
                            \A s \in Sessions :
                               NormalizeToSessionSpace(rewrite, id, s) =
                                   Rust!NormalizeToSessionSpace(Abstraction(rewrite), id, s)
    BY DEF TranslationsAgree
  <2>1. Exact(rewrite) /\ rewrite.localSessionId = LocalSession
    BY InvExact, InvFacts
  <2>2. id \in Int
    <3>1. NextBaseFinal(rewrite) \in Nat /\ MaxGenerated \in Nat
      BY <2>1, NextBaseFinalType, Constants DEF Exact
    <3> QED BY <3>1 DEF Ids
  <2>3. NormalizeToOpSpace(rewrite, id) = Rust!NormalizeToOpSpace(Abstraction(rewrite), id)
    BY <2>1, <2>2, OpSpaceAgrees, SameTranslations
  <2>4. TryDecompress(rewrite, id) = Rust!Decompress(Abstraction(rewrite), id)
    BY <2>1, <2>2, DecompressionAgrees, SameTranslations
  <2>5. ASSUME id # FinalIdLimit(rewrite) \/ HeldByOwn(id), NEW s \in Sessions
        PROVE  NormalizeToSessionSpace(rewrite, id, s) =
                   Rust!NormalizeToSessionSpace(Abstraction(rewrite), id, s)
    <3>1. id # FinalIdLimit(rewrite) \/ ByAllocatedFinal(rewrite.chains[rewrite.localSessionId], id) # {}
      BY <2>1, <2>5 DEF HeldByOwn
    <3>2. NormalizeToSessionSpace(rewrite, id, s) = Core!NormalizeToSessionSpace(Abstraction(rewrite), id, s)
      BY <2>1, <2>2, <3>1, SessionSpaceAgrees
    <3> QED BY <3>2, SameTranslations
  <2> QED BY <2>3, <2>4, <2>5
<1> QED BY <1>1, RewriteInvHolds, PTL

(* Recompression: the cluster found in the chain of the nearest session is the
   one found in the table.                                                 *)
LEMMA SameRecompression ==
    ASSUME NEW c, NEW stable
    PROVE  Rust!Recompress(c, stable) = Core!Recompress(c, stable)
BY DEF Rust!Recompress, Core!Recompress, Rust!ContainingClusters, Core!ContainingClusters,
       Rust!Nearest, Core!Nearest, Rust!Known, Core!Known, Rust!Elements, Core!Elements,
       Rust!MaxAllocatedStable, Core!MaxAllocatedStable, Rust!TailCluster, Core!TailCluster,
       Rust!TailIndex, Core!TailIndex, Rust!IsTail, Core!IsTail, Rust!Chain, Core!Chain,
       Rust!StableOf, Core!StableOf, Rust!MaxAllocatedLocal, Core!MaxAllocatedLocal,
       Rust!HoldsLocal, Core!HoldsLocal, Rust!OriginatorLocal, Core!OriginatorLocal,
       Rust!RecompressUnclustered, Core!RecompressUnclustered, Rust!RecompressIn, Core!RecompressIn,
       Rust!GenCount, Core!GenCount, Rust!AllocatedFinal, Core!AllocatedFinal

(* A cluster that holds the local ID of a UUID is below the end of its chain. *)
LEMMA HeldIsBelowTail ==
    ASSUME NEW t, Core!TableInv(t), NEW s \in Sessions, NEW i \in Core!Chain(t, s),
           NEW stable \in Int, Core!HoldsLocal(t[i], Core!OriginatorLocal(s, stable))
    PROVE  stable <= Core!MaxAllocatedStable(t, s)
<1> DEFINE last == Core!MaxAllocatedLocal(Core!TailCluster(t, s))
           reached == Core!MaxAllocatedLocal(t[i])
<1>1. last \in Int /\ reached \in Int /\ last <= reached
  BY Constants, Core!TailReachesFarthest
<1>2. Core!MaxAllocatedStable(t, s) = s + (-last) - 1
  BY DEF Core!MaxAllocatedStable, Core!StableOf, Core!GenCount
<1>3. reached <= -(stable - s) - 1
  BY DEF Core!HoldsLocal, Core!OriginatorLocal
<1> HIDE DEF last, reached
<1>4. s \in Int
  BY SessionTypes
<1> QED BY <1>1, <1>2, <1>3, <1>4

LEMMA ContainingAgrees ==
    ASSUME NEW c, Exact(c), NEW stable \in Int,
           NEW t, t = FinalSpace(c),
           NEW found, found = Core!ContainingClusters(Known(c), t, stable)
    PROVE  /\ GetContainingCluster(c, stable) = {t[i] : i \in found}
           /\ \A i \in found :
                LET local == -(stable - t[i].session) - 1
                IN  /\ local = Core!OriginatorLocal(t[i].session, stable)
                    /\ local \in Int
                    /\ GetAllocatedFinal(t[i], local) = {Core!AllocatedFinal(t[i], local)}
                    /\ i \in DOMAIN t
<1> DEFINE near == Core!Nearest(Known(c), stable)
           Local(s) == -(stable - s) - 1
           holders(s) == Holders(t, s, Local(s))
<1>1. Linking(c) /\ Core!TableInv(t) /\ Known(c) \subseteq Sessions
  BY ExactFacts
<1>2. Closest(Known(c), stable) = near /\ near \subseteq Sessions
  BY <1>1 DEF Closest, Core!Nearest
<1>3. ASSUME NEW s \in Sessions
      PROVE  /\ Local(s) \in Int /\ Local(s) = Core!OriginatorLocal(s, stable)
             /\ ByLocal(c, s, Local(s), TRUE) = {t[i] : i \in holders(s)}
             /\ \A i \in holders(s) : GetAllocatedFinal(t[i], Local(s)) = {Core!AllocatedFinal(t[i], Local(s))}
             /\ \A i \in holders(s) : stable <= Core!MaxAllocatedStable(t, s)
  <2>1. Local(s) \in Int /\ Local(s) = Core!OriginatorLocal(s, stable)
    BY SessionTypes DEF Core!OriginatorLocal
  <2>2. \A i \in holders(s) : stable <= Core!MaxAllocatedStable(t, s)
    BY <1>1, <2>1, HeldIsBelowTail DEF Holders
  <2> HIDE DEF Local
  <2>3. /\ ByLocal(c, s, Local(s), TRUE) = {t[i] : i \in holders(s)}
        /\ \A i \in holders(s) : GetAllocatedFinal(t[i], Local(s)) = {Core!AllocatedFinal(t[i], Local(s))}
    <3>1. \A q \in Int :
             /\ ByLocal(c, s, q, TRUE) = Rows(t, Holders(t, s, q))
             /\ \A i \in Holders(t, s, q) : FinalAsInTable(t[i], q)
      <4> TAKE q \in Int
      <4>1. Linking(c) /\ Core!TableInv(FinalSpace(c))
        BY <1>1
      <4> QED BY ONLY <4>1, s \in Sessions, q \in Int, t = FinalSpace(c), ByLocalAgrees
    <3> QED BY <2>1, <3>1 DEF Rows, FinalAsInTable
  <2> QED BY <2>1, <2>2, <2>3
<1>4. found = UNION {holders(s) : s \in near}
  <2>1. ASSUME NEW i \in found
        PROVE  i \in UNION {holders(s) : s \in near}
    <3> DEFINE s == t[i].session
    <3>1. i \in DOMAIN t /\ s \in near /\ Core!HoldsLocal(t[i], Core!OriginatorLocal(s, stable))
      BY <2>1 DEF Core!ContainingClusters
    <3>2. s \in Sessions
      BY <1>2, <3>1
    <3>3. i \in holders(s)
      BY <1>3, <3>1, <3>2 DEF Core!Chain, Holders
    <3> QED BY <3>1, <3>3
  <2>2. ASSUME NEW s \in near, NEW i \in holders(s)
        PROVE  i \in found
    <3>1. i \in DOMAIN t /\ t[i].session = s /\ Core!HoldsLocal(t[i], Local(s))
      BY DEF Core!Chain, Holders
    <3>2. Local(s) = Core!OriginatorLocal(s, stable) /\ stable <= Core!MaxAllocatedStable(t, s)
      BY <1>2, <1>3
    <3> QED BY <3>1, <3>2 DEF Core!ContainingClusters
  <2> HIDE DEF near, holders
  <2> QED BY <2>1, <2>2
<1>5. GetContainingCluster(c, stable) = UNION {ByLocal(c, s, Local(s), TRUE) : s \in near}
  BY <1>2 DEF GetContainingCluster
<1>6. \A s \in near : \A i \in holders(s) : t[i].session = s /\ i \in DOMAIN t
  BY DEF Core!Chain, Holders
<1> HIDE DEF near, holders, Local
<1>7. GetContainingCluster(c, stable) = {t[i] : i \in found}
  <2> DEFINE held(s) == ByLocal(c, s, Local(s), TRUE)
  <2>1. \A s \in near : held(s) = {t[i] : i \in holders(s)}
    BY <1>2, <1>3
  <2>2. GetContainingCluster(c, stable) = UNION {held(s) : s \in near}
    BY <1>5
  <2> HIDE DEF held
  <2>3. ASSUME NEW k
        PROVE  (\E s \in near : k \in held(s)) <=> k \in {t[i] : i \in found}
    BY <1>4, <2>1
  <2> QED BY <2>2, <2>3
<1>8. ASSUME NEW i \in found
      PROVE  /\ Local(t[i].session) = Core!OriginatorLocal(t[i].session, stable)
             /\ Local(t[i].session) \in Int
             /\ GetAllocatedFinal(t[i], Local(t[i].session)) = {Core!AllocatedFinal(t[i], Local(t[i].session))}
             /\ i \in DOMAIN t
  <2>1. PICK s \in near : i \in holders(s)
    BY <1>4
  <2>2. s \in Sessions /\ t[i].session = s /\ i \in DOMAIN t
    BY <1>2, <1>6, <2>1
  <2> QED BY <1>3, <2>1, <2>2
<1> QED BY <1>7, <1>8 DEF Local

LEMMA UnclusteredAgrees ==
    ASSUME NEW c, Exact(c), NEW stable \in Int
    PROVE  RecompressUnclustered(c, stable) = Core!RecompressUnclustered(Abstraction(c), stable)
<1> DEFINE a == Abstraction(c)
           own == c.localSessionId
           n == c.generatedIdCount
           local == -(stable - own + 1)
<1>1. /\ own \in Int /\ n \in Int /\ a.sessionId = own /\ a.generatedIdCount = n
      /\ \A q \in Int : ContainsLocal(c.normalizer, q) <=> q \in a.normalizer
  BY ExactFacts
<1>2. a.normalizer \subseteq {-g : g \in 1..n}
  BY <1>1 DEF Exact, Core!CompressorInv
<1>3. local \in Int
  BY <1>1
<1>4. local \in a.normalizer => stable >= own /\ Core!GenCount(local) <= n
  <2> SUFFICES ASSUME local \in a.normalizer
               PROVE  stable >= own /\ Core!GenCount(local) <= n
    OBVIOUS
  <2> HIDE DEF own, n, local
  <2>1. PICK g \in 1..n : local = -g
    BY <1>2
  <2>2. g \in Int /\ g >= 1 /\ g <= n
    BY <1>1, <2>1
  <2> HIDE DEF a
  <2>3. stable - own + 1 = g
    BY <1>1, <2>1, <2>2 DEF local
  <2> QED BY <1>1, <1>3, <2>1, <2>2, <2>3 DEF Core!GenCount
<1>5. ContainsLocal(c.normalizer, local) <=> local \in a.normalizer
  BY <1>1, <1>3
<1> QED BY <1>1, <1>4, <1>5 DEF RecompressUnclustered, Core!RecompressUnclustered

(* Beyond its own session's clusters, the rewrite takes every ID reserved for
   one that is finalized.                                                  *)
LEMMA InClusterAgrees ==
    ASSUME NEW c, Exact(c), NEW i \in DOMAIN FinalSpace(c), NEW local \in Int,
           NEW k, k = FinalSpace(c)[i],
           GetAllocatedFinal(k, local) = {Core!AllocatedFinal(k, local)},
           k.session = c.localSessionId \/ local >= LastFinalizedLocal(k), local < 0
    PROVE  RecompressIn(c, k, local) = Core!RecompressIn(Abstraction(c), k, local)
<1> DEFINE a == Abstraction(c)
           base == k.baseLocal
           count == k.count
<1>1. /\ a.sessionId = c.localSessionId /\ a.generatedIdCount = c.generatedIdCount
      /\ ContainsLocal(c.normalizer, local) <=> local \in a.normalizer
      /\ Linking(c) /\ Core!TableInv(FinalSpace(c))
  BY ExactFacts
<1>2. base \in Int /\ count \in Int /\ base < 0 /\ count > 0
  <2>1. FinalSpace(c) \in Seq(Core!Cluster)
    BY <1>1 DEF Core!TableInv
  <2>2. k.baseLocal \in Int /\ k.baseLocal < 0 /\ k.count \in Nat /\ k.count > 0
    BY <2>1, Constants, Core!TableTypes
  <2> QED BY <2>2
<1>3. CASE k.session = c.localSessionId
  BY <1>1, <1>3 DEF RecompressIn, Core!RecompressIn, Core!GenCount
<1>4. CASE k.session # c.localSessionId
  <2>1. local >= base - (count - 1)
    BY <1>4 DEF LastFinalizedLocal
  <2>2. LastFinalizedLocal(k) = base - (count - 1)
    BY DEF LastFinalizedLocal
  <2> HIDE DEF base, count, a
  <2>3. -local >= base - (count - 1)
    BY <1>2
  <2>4. -local < (-base) + count
    BY <1>2, <2>1
  <2>5. RecompressIn(c, k, local) = {Core!AllocatedFinal(k, local)}
    BY <1>4, <2>2, <2>3 DEF RecompressIn
  <2>6. Core!RecompressIn(a, k, local) = {Core!AllocatedFinal(k, local)}
    BY <1>1, <1>4, <2>4 DEF Core!RecompressIn, Core!GenCount, base, count
  <2> QED BY <2>5, <2>6 DEF a
<1> QED BY <1>3, <1>4

LEMMA RecompressionOf ==
    ASSUME NEW c, Exact(c), NEW stable \in Int,
           \A k \in GetContainingCluster(c, stable) :
              k.session = c.localSessionId \/ -(stable - k.session) - 1 >= LastFinalizedLocal(k)
    PROVE  TryRecompress(c, stable) = Core!Recompress(Abstraction(c), stable)
<1> DEFINE a == Abstraction(c)
           t == FinalSpace(c)
           found == Core!ContainingClusters(Known(c), t, stable)
           A(k) == RecompressIn(c, k, -(stable - k.session) - 1)
           B(k) == Core!RecompressIn(a, k, Core!OriginatorLocal(k.session, stable))
<1>1. /\ GetContainingCluster(c, stable) = {t[i] : i \in found}
      /\ \A i \in found :
            LET local == -(stable - t[i].session) - 1
            IN  /\ local = Core!OriginatorLocal(t[i].session, stable)
                /\ local \in Int
                /\ GetAllocatedFinal(t[i], local) = {Core!AllocatedFinal(t[i], local)}
                /\ i \in DOMAIN t
  BY ContainingAgrees
<1>2. a.clusters = t /\ Known(c) = Core!Known(a) /\ Core!TableInv(t) /\ Linking(c)
  BY ExactFacts
<1>3. ASSUME NEW i \in found
      PROVE  A(t[i]) = B(t[i])
  <2> DEFINE local == -(stable - t[i].session) - 1
  <2>1. /\ local = Core!OriginatorLocal(t[i].session, stable) /\ local \in Int
        /\ GetAllocatedFinal(t[i], local) = {Core!AllocatedFinal(t[i], local)}
        /\ i \in DOMAIN t
    BY <1>1
  <2>2. t[i].session = c.localSessionId \/ local >= LastFinalizedLocal(t[i])
    BY <1>1
  <2>3. local < 0
    <3>1. t[i].baseLocal < 0 /\ t[i].baseLocal \in Int
      <4>1. t \in Seq(Core!Cluster)
        BY <1>2 DEF Core!TableInv
      <4> HIDE DEF t
      <4> QED BY <2>1, <4>1, Constants, Core!TableTypes
    <3>2. local <= t[i].baseLocal
      BY <2>1 DEF Core!ContainingClusters, Core!HoldsLocal
    <3> HIDE DEF local, t
    <3> QED BY <2>1, <3>1, <3>2
  <2> HIDE DEF local, found
  <2>4. RecompressIn(c, t[i], local) = Core!RecompressIn(a, t[i], local)
    BY <2>1, <2>2, <2>3, InClusterAgrees
  <2> QED BY <2>1, <2>4 DEF local
<1>4. TryRecompress(c, stable) = IF {t[i] : i \in found} = {} THEN RecompressUnclustered(c, stable)
                                 ELSE UNION {A(k) : k \in {t[i] : i \in found}}
  BY <1>1 DEF TryRecompress
<1>5. Core!Recompress(a, stable) = IF found = {} THEN Core!RecompressUnclustered(a, stable)
                                   ELSE UNION {B(t[i]) : i \in found}
  BY <1>2 DEF Core!Recompress
<1>6. RecompressUnclustered(c, stable) = Core!RecompressUnclustered(a, stable)
  BY UnclusteredAgrees
<1> HIDE DEF a, t, found, A, B
<1>7. UNION {A(k) : k \in {t[i] : i \in found}} = UNION {B(t[i]) : i \in found}
  BY <1>3
<1>8. {t[i] : i \in found} = {} <=> found = {}
  OBVIOUS
<1> QED BY <1>4, <1>5, <1>6, <1>7, <1>8 DEF a

(* The rewrite recompresses every UUID as the Rust compressor does, but for
   those reserved by a remote session (IdCompressor.ts:404-443, against
   compressor.rs:443-489).                                                 *)
THEOREM RecompressionAgreesHolds == SessionsFarApart => (Spec => []RecompressionAgrees)
<1>1. RewriteInv => RecompressionAgrees
  <2> SUFFICES ASSUME RewriteInv, NEW stable \in Stables, ~ReservedByRemote(stable)
               PROVE  TryRecompress(rewrite, stable) = Rust!Recompress(Abstraction(rewrite), stable)
    BY DEF RecompressionAgrees
  <2>1. Exact(rewrite) /\ rewrite.localSessionId = LocalSession
    BY InvExact, InvFacts
  <2>2. stable \in Int
    <3>1. PICK s \in Sessions : stable \in (s - 2)..(s + MaxGenerated + 4)
      BY DEF Stables
    <3> QED BY <3>1
  <2>3. ASSUME NEW k \in GetContainingCluster(rewrite, stable)
        PROVE  k.session = rewrite.localSessionId \/ -(stable - k.session) - 1 >= LastFinalizedLocal(k)
    <3>1. k.session = LocalSession \/ ~(-(stable - k.session) - 1 < LastFinalizedLocal(k))
      BY DEF ReservedByRemote
    <3> DEFINE t == FinalSpace(rewrite)
               found == Core!ContainingClusters(Known(rewrite), t, stable)
    <3>2. /\ GetContainingCluster(rewrite, stable) = {t[i] : i \in found}
          /\ found \subseteq DOMAIN t
      <4>1. found \subseteq DOMAIN t
        BY DEF Core!ContainingClusters
      <4> QED BY <2>1, <2>2, <4>1, ContainingAgrees
    <3>3. PICK i \in DOMAIN t : k = t[i]
      BY <3>2
    <3>4. k.session \in Int /\ k.baseLocal \in Int /\ k.count \in Int
      BY <2>1, <3>3, SpaceTypesOf, ExactFacts
    <3>5. LastFinalizedLocal(k) \in Int /\ -(stable - k.session) - 1 \in Int
      BY <2>2, <3>4 DEF LastFinalizedLocal
    <3> HIDE DEF t, found
    <3>6. \A x, y \in Int : ~(x < y) => x >= y
      OBVIOUS
    <3> QED BY <2>1, <3>1, <3>5, <3>6
  <2>4. TryRecompress(rewrite, stable) = Core!Recompress(Abstraction(rewrite), stable)
    BY <2>1, <2>2, <2>3, RecompressionOf
  <2> QED BY <2>4, SameRecompression
<1> QED BY <1>1, RewriteInvHolds, PTL

(* types/idCompressor.ts:61, where sessions are far apart: an ID this session
   was given decompresses to the same UUID for the lifetime of the session.
   Where they are close, the run close_sessions refutes it.                *)
THEOREM IssuedIdsDecompressHolds == SessionsFarApart => (Spec => []IssuedIdsDecompress)
<1>1. RewriteInv => IssuedIdsDecompress
  <2> SUFFICES ASSUME RewriteInv, NEW g \in DOMAIN issued
               PROVE  TryDecompress(rewrite, issued[g]) = {LocalSession + g - 1}
    BY DEF IssuedIdsDecompress
  <2>1. Core!IndInv /\ Exact(rewrite)
    BY InvFacts, InvExact
  <2>2. issued[g] \in Int
    <3>1. issued \in Seq(Int)
      BY DEF RewriteInv, TypeOK
    <3> QED BY <3>1
  <2>3. TryDecompress(rewrite, issued[g]) = Core!Decompress(Abstraction(rewrite), issued[g])
    BY <2>1, <2>2, DecompressionAgrees
  <2>4. Core!Decompress(Abstraction(rewrite), issued[g]) = {LocalSession + g - 1}
    BY <2>1, Constants, Core!IndInvFacts, Core!IssuedDecompresses
  <2> QED BY <2>3, <2>4
<1> QED BY <1>1, RewriteInvHolds, PTL

(* sessions.ts:91-98, where sessions are far apart: no two chains overlap. *)
THEOREM ChainsDisjointHolds == SessionsFarApart => (Spec => []ChainsDisjoint)
<1> SUFFICES ASSUME SessionsFarApart PROVE Spec => []ChainsDisjoint
  OBVIOUS
<1>1. RewriteInv => ChainsDisjoint
  <2> DEFINE c == rewrite
             t == FinalSpace(c)
  <2> SUFFICES ASSUME RewriteInv,
                      NEW i \in DOMAIN c.clusterList, NEW j \in DOMAIN c.clusterList,
                      t[i].session < t[j].session
               PROVE  StableOf(t[i].session, LastAllocatedLocal(t[i]))
                         < StableOf(t[j].session, t[j].baseLocal)
    BY DEF ChainsDisjoint
  <2> DEFINE s == t[i].session
             u == t[j].session
  <2>1. Bounded(c) /\ Linking(c) /\ Core!TableInv(t)
    BY InvFacts DEF Bounded
  <2>2. DOMAIN t = DOMAIN c.clusterList
    BY <2>1, SpaceIsTable
  <2>3. /\ t[i].baseLocal \in Int /\ t[i].capacity \in Int
        /\ t[j].baseLocal \in Int /\ t[j].baseLocal < 0
        /\ s \in Sessions /\ u \in Sessions
    <3>1. t \in Seq(Core!Cluster) /\ i \in DOMAIN t /\ j \in DOMAIN t
      BY <2>1, <2>2 DEF Core!TableInv
    <3> HIDE DEF t
    <3> QED BY <3>1, Constants, Core!TableTypes
  <2>4. i \in Core!Chain(t, s)
    BY <2>2 DEF Core!Chain
  <2>5. ~IsEmpty(c, s)
    BY <2>1, <2>3, <2>4, ChainClusters
  <2>6. PICK capacity \in AllCapacities :
           /\ StableOf(s, LastAllocatedLocal(TailOf(c, s))) \in Int
           /\ StableOf(s, LastAllocatedLocal(TailOf(c, s))) < s + 2 * MaxGenerated + capacity
    BY <2>1, <2>3, <2>5, TailEnds
  <2>7. s + 2 * MaxGenerated + capacity <= u
    BY <2>3 DEF SessionsFarApart
  <2>8. /\ LastAllocatedLocal(TailOf(c, s)) \in Int
        /\ LastAllocatedLocal(t[i]) \in Int
        /\ LastAllocatedLocal(TailOf(c, s)) <= LastAllocatedLocal(t[i])
    <3>1. Core!TailCluster(t, s) = TailOf(c, s)
      BY <2>1, <2>3, <2>5, TailReference
    <3>2. /\ Core!MaxAllocatedLocal(Core!TailCluster(t, s)) \in Int
          /\ Core!MaxAllocatedLocal(t[i]) \in Int
          /\ Core!MaxAllocatedLocal(Core!TailCluster(t, s)) <= Core!MaxAllocatedLocal(t[i])
      BY <2>1, <2>3, <2>4, Constants, Core!TailReachesFarthest
    <3>3. \A k : LastAllocatedLocal(k) = Core!MaxAllocatedLocal(k)
      BY DEF LastAllocatedLocal, Core!MaxAllocatedLocal
    <3> QED BY <3>1, <3>2, <3>3
  <2> DEFINE far == LastAllocatedLocal(TailOf(c, s))
             last == LastAllocatedLocal(t[i])
             base == t[j].baseLocal
             reach == 2 * MaxGenerated + capacity
  <2>9. /\ s \in Int /\ u \in Int /\ far \in Int /\ last \in Int /\ base \in Int /\ base < 0
        /\ far <= last
    BY <2>3, <2>8, SessionTypes
  <2>10. reach \in Int
    BY CapacityTypes, Constants
  <2>11. s + (-far - 1) < s + reach /\ s + reach <= u
    <3>1. s + 2 * MaxGenerated + capacity = s + reach
      <4>1. 2 * MaxGenerated \in Int /\ capacity \in Int
        BY CapacityTypes, Constants
      <4>2. \A x, y, z \in Int : x + y + z = x + (y + z)
        OBVIOUS
      <4> QED BY <2>9, <4>1, <4>2
    <3> QED BY <2>6, <2>7, <3>1 DEF StableOf
  <2>12. StableOf(s, last) = s + (-last - 1) /\ StableOf(u, base) = u + (-base - 1)
    BY DEF StableOf
  <2> HIDE DEF s, u, far, last, base, reach
  <2>13. s + (-last - 1) < u + (-base - 1)
    BY <2>9, <2>10, <2>11
  <2> QED BY <2>12, <2>13 DEF s, u, last, base
<1>2. SessionsFarApart => (Spec => []RewriteInv)
  BY RewriteInvHolds
<1> QED BY <1>1, <1>2, PTL

-----------------------------------------------------------------------------
(* Loading the clusters. *)

(* Two compressors with the same final space have the same chains. *)
LEMMA PlacesAgree ==
    ASSUME NEW c, Linking(c), NEW d, Linking(d), FinalSpace(c) = FinalSpace(d),
           NEW i \in DOMAIN c.clusterList,
           \A j \in DOMAIN c.clusterList : j < i => c.clusterList[j].place = d.clusterList[j].place
    PROVE  ~(c.clusterList[i].place < d.clusterList[i].place)
<1> DEFINE s == c.clusterList[i].session
           p == c.clusterList[i].place
           q == d.clusterList[i].place
           n == Len(c.clusterList)
           m == Len(d.chains[s])
<1> SUFFICES ASSUME p < q PROVE FALSE
  OBVIOUS
<1>1. /\ n \in Nat /\ DOMAIN c.clusterList = 1..n /\ Len(FinalSpace(c)) = n
      /\ \A o : Core!Chain(FinalSpace(c), o) = References(c, o)
  BY SpaceIsTable
<1>2. /\ DOMAIN d.clusterList = 1..Len(d.clusterList) /\ Len(FinalSpace(d)) = Len(d.clusterList)
      /\ \A o : Core!Chain(FinalSpace(d), o) = References(d, o)
  BY SpaceIsTable
<1>3. DOMAIN d.clusterList = DOMAIN c.clusterList /\ \A o : References(c, o) = References(d, o)
  BY <1>1, <1>2
<1>4. i \in References(c, s) /\ i \in References(d, s) /\ d.clusterList[i].session = s
  <2>1. i \in References(c, s)
    BY DEF References
  <2> QED BY <1>3, <2>1 DEF References
<1>5. s \in Sessions /\ p \in Nat /\ p > 0
  BY ReferenceHolds
<1>6. q \in DOMAIN d.chains[s] /\ q \in Nat
  BY <1>3, <1>4, ReferenceHolds
<1>7. m \in Nat /\ DOMAIN d.chains[s] = 1..m
  BY <1>5, ChainClusters
<1> HIDE DEF s, p, q, n, m
<1>8. p \in DOMAIN d.chains[s]
  BY <1>5, <1>6, <1>7
<1>9. PICK j \in References(d, s) : d.clusterList[j].place = p
  BY <1>5, <1>8, PlaceIsReferred
<1>10. j \in References(c, s) /\ j \in DOMAIN c.clusterList
  BY <1>3, <1>9 DEF References
<1>11. j \in Int /\ i \in Int /\ j # i
  BY <1>1, <1>5, <1>6, <1>9, <1>10 DEF q
<1>12. ~(i < j)
  <2> SUFFICES ASSUME i < j PROVE FALSE
    OBVIOUS
  <2>1. d.clusterList[i].place < d.clusterList[j].place
    BY <1>4, <1>5, PlacesInOrder
  <2> QED BY <1>5, <1>6, <1>9, <2>1 DEF q
<1>13. j < i
  BY <1>11, <1>12
<1>14. c.clusterList[j].place = p
  BY <1>9, <1>10, <1>13
<1>15. i = j
  BY <1>4, <1>5, <1>10, <1>14, ReferenceIsUnique DEF p
<1> QED BY <1>11, <1>15

LEMMA LinkingUnique ==
    ASSUME NEW c, Linking(c), NEW d, Linking(d), FinalSpace(c) = FinalSpace(d)
    PROVE  c.clusterList = d.clusterList /\ c.chains = d.chains
<1> DEFINE t == FinalSpace(c)
           n == Len(c.clusterList)
<1>1. /\ n \in Nat /\ DOMAIN c.clusterList = 1..n /\ Len(t) = n
      /\ \A i \in 1..n : t[i].session = c.clusterList[i].session
      /\ \A o : Core!Chain(t, o) = References(c, o)
  BY SpaceIsTable
<1>2. /\ DOMAIN d.clusterList = 1..n /\ Len(d.clusterList) = n
      /\ \A i \in 1..n : t[i].session = d.clusterList[i].session
      /\ \A o : Core!Chain(t, o) = References(d, o)
  <2>1. /\ DOMAIN d.clusterList = 1..Len(d.clusterList) /\ Len(t) = Len(d.clusterList)
        /\ \A i \in 1..Len(d.clusterList) : t[i].session = d.clusterList[i].session
        /\ \A o : Core!Chain(t, o) = References(d, o)
    <3>1. t = FinalSpace(d) /\ Linking(d)
      OBVIOUS
    <3> HIDE DEF t
    <3> QED BY ONLY <3>1, SpaceIsTable
  <2> HIDE DEF t, n
  <2> QED BY <1>1, <2>1
<1> DEFINE Differ == {i \in 1..n : c.clusterList[i].place # d.clusterList[i].place}
<1>3. Differ = {}
  <2> SUFFICES ASSUME Differ # {} PROVE FALSE
    OBVIOUS
  <2>1. Differ \in SUBSET Nat
    <3> HIDE DEF n
    <3> QED BY <1>1
  <2>2. PICK i \in Differ : \A j \in Differ : i <= j
    <3> HIDE DEF Differ
    <3>1. \A S \in SUBSET Nat : S # {} => \E i \in S : \A j \in S : i <= j
      BY Constants, Core!Least
    <3> QED BY <2>1, <3>1
  <2>3. i \in 1..n /\ c.clusterList[i].place # d.clusterList[i].place
    BY <2>2
  <2>4. \A j \in 1..n : j < i => c.clusterList[j].place = d.clusterList[j].place
    <3> HIDE DEF n
    <3> QED BY <1>1, <2>2
  <2>5. ~(c.clusterList[i].place < d.clusterList[i].place)
    BY <1>1, <2>3, <2>4, PlacesAgree
  <2>6. ~(d.clusterList[i].place < c.clusterList[i].place)
    <3>1. \A j \in DOMAIN d.clusterList : j < i => d.clusterList[j].place = c.clusterList[j].place
      BY <1>2, <2>4
    <3> QED BY <1>2, <2>3, <3>1, PlacesAgree
  <2>7. c.clusterList[i].place \in Nat /\ d.clusterList[i].place \in Nat
    BY <1>1, <1>2, <2>3, ReferenceHolds
  <2> QED BY <2>3, <2>5, <2>6, <2>7
<1>4. ASSUME NEW i \in 1..n PROVE c.clusterList[i] = d.clusterList[i]
  <2>1. c.clusterList[i].place = d.clusterList[i].place /\ c.clusterList[i].session = d.clusterList[i].session
    BY <1>1, <1>2, <1>3
  <2> DEFINE S == [session : Sessions, place : Nat \ {0}]
             x == c.clusterList
             y == d.clusterList
  <2>2. x \in Seq(S) /\ y \in Seq(S) /\ i \in DOMAIN x /\ i \in DOMAIN y
    BY <1>1, <1>2, CompressorFields DEF Linking
  <2>3. x[i] \in S /\ y[i] \in S
    <3> HIDE DEF S, x, y
    <3> QED BY <2>2
  <2> QED BY <2>1, <2>3
<1>5. c.clusterList = d.clusterList
  <2> DEFINE S == [session : Sessions, place : Nat \ {0}]
             x == c.clusterList
             y == d.clusterList
  <2>1. x \in Seq(S) /\ y \in Seq(S) /\ DOMAIN x = 1..n /\ DOMAIN y = 1..n
        /\ \A i \in 1..n : x[i] = y[i]
    BY <1>1, <1>2, <1>4, CompressorFields DEF Linking
  <2> HIDE DEF S, x, y, n
  <2>2. x = [i \in 1..n |-> x[i]] /\ y = [i \in 1..n |-> y[i]]
    BY <2>1
  <2>3. x = y
    BY <2>1, <2>2
  <2> QED BY <2>3 DEF x, y
<1>6. ASSUME NEW s \in Sessions PROVE c.chains[s] = d.chains[s]
  <2>1. \A o : References(c, o) = References(d, o)
    BY <1>1, <1>2
  <2>2. /\ DOMAIN c.chains[s] = {c.clusterList[i].place : i \in References(c, s)}
        /\ DOMAIN d.chains[s] = {d.clusterList[i].place : i \in References(d, s)}
    BY DEF Linking, Linked, References
  <2>3. DOMAIN c.chains[s] = DOMAIN d.chains[s]
    BY <1>5, <2>1, <2>2
  <2>4. ASSUME NEW p \in DOMAIN c.chains[s]
        PROVE  c.chains[s][p] = d.chains[s][p]
    <3>1. PICK i \in References(c, s) : c.clusterList[i].place = p
      BY PlaceIsReferred
    <3>2. /\ i \in DOMAIN c.clusterList /\ c.clusterList[i].session = s
          /\ i \in DOMAIN d.clusterList /\ d.clusterList[i].session = s /\ d.clusterList[i].place = p
      BY <1>5, <3>1 DEF References
    <3>3. t[i] = c.chains[s][p]
      BY <3>1, <3>2, ReferenceHolds
    <3>4. FinalSpace(d)[i] = d.chains[s][p]
      BY <3>2, ReferenceHolds
    <3> QED BY <3>3, <3>4
  <2> DEFINE x == c.chains[s]
             y == d.chains[s]
             S == IdCluster
  <2>5. x \in Seq(S) /\ y \in Seq(S)
    BY ChainClusters
  <2>6. DOMAIN x = DOMAIN y /\ \A p \in DOMAIN x : x[p] = y[p]
    BY <2>3, <2>4
  <2> HIDE DEF x, y, S
  <2>7. x = y
    BY <2>5, <2>6
  <2> QED BY <2>7 DEF x, y
<1>7. c.chains \in [Sessions -> Seq(IdCluster)] /\ d.chains \in [Sessions -> Seq(IdCluster)]
  BY CompressorFields DEF Linking
<1> QED BY <1>5, <1>6, <1>7

(* A cluster that is loaded is appended as it was, with the bases that were
   not written.                                                            *)
LEMMA LoadClusterEffect ==
    ASSUME NEW t, Core!TableInv(t), NEW i \in 0..Len(t), i < Len(t),
           NEW c, Linking(c), FinalSpace(c) = Core!Prefix(t, i),
           NEW s, s = t[i + 1].session, NEW d, d = LoadCluster(c, s, t[i + 1].capacity, t[i + 1].count)
    PROVE  Linking(d) /\ SameShell(c, d) /\ FinalSpace(d) = Core!Prefix(t, i + 1)
<1> DEFINE k == t[i + 1]
           p == FinalSpace(c)
           base == IF IsEmpty(c, s) THEN -1 ELSE LastAllocatedLocal(TailOf(c, s)) - 1
<1>1. /\ t \in Seq(Core!Cluster)
      /\ k \in Core!Cluster
      /\ Core!NextBaseFinal(p) = k.baseFinal
      /\ Core!Chain(p, s) = {} => k.baseLocal = -1
      /\ Core!Chain(p, s) # {} =>
            Core!TailCluster(p, s).baseLocal - Core!TailCluster(p, s).capacity = k.baseLocal
  <2> DEFINE q == p
  <2>1. q = Core!Prefix(t, i) /\ t \in Seq(Core!Cluster)
    BY DEF Core!TableInv
  <2> HIDE DEF q
  <2>2. /\ t[i + 1] \in Core!Cluster
        /\ Core!NextBaseFinal(q) = t[i + 1].baseFinal
        /\ Core!Chain(q, s) = {} => t[i + 1].baseLocal = -1
        /\ Core!Chain(q, s) # {} =>
              Core!TailCluster(q, s).baseLocal - Core!TailCluster(q, s).capacity = t[i + 1].baseLocal
    BY ONLY <2>1, Constants, Core!TableInv(t), i \in 0..Len(t), i < Len(t), s = t[i + 1].session,
            Core!NextCluster
  <2> QED BY <2>1, <2>2 DEF q
<1>2. Append(p, k) = Core!Prefix(t, i + 1)
  <2>1. Append(Core!Prefix(t, i), t[i + 1]) = Core!Prefix(t, i + 1)
    BY ONLY <1>1, Constants, i \in 0..Len(t), i < Len(t), Core!PrefixTypes
  <2> QED BY <2>1
<1>3. k \in IdCluster /\ k.session = s /\ s \in Sessions
  BY <1>1 DEF IdCluster, Core!Cluster, Core!LocalIds, Core!Positive
<1>4. NextBaseFinal(c) = k.baseFinal
  BY <1>1 DEF NextBaseFinal, Core!NextBaseFinal
<1>5. base = k.baseLocal
  <2>1. CASE IsEmpty(c, s)
    BY <1>1, <1>3, <2>1, ChainClusters
  <2>2. CASE ~IsEmpty(c, s)
    <3> DEFINE last == TailOf(c, s)
    <3>1. Core!TailCluster(p, s) = last /\ Core!Chain(p, s) # {}
      BY <1>3, <2>2, TailReference, ChainClusters
    <3>2. last.baseLocal \in Int /\ last.capacity \in Int
      <4>1. last \in IdCluster
        BY <1>3, <2>2, TailType
      <4> QED BY <4>1 DEF IdCluster
    <3> HIDE DEF last
    <3>3. last.baseLocal - last.capacity = k.baseLocal
      BY <1>1, <3>1
    <3>4. \A a, b \in Int : (a - (b - 1)) - 1 = a - b
      OBVIOUS
    <3>5. LastAllocatedLocal(last) - 1 = last.baseLocal - last.capacity
      BY <3>2, <3>4 DEF LastAllocatedLocal
    <3> QED BY <2>2, <3>3, <3>5 DEF last
  <2> QED BY <2>1, <2>2
<1>6. k = [session |-> s, baseFinal |-> NextBaseFinal(c), baseLocal |-> base,
           capacity |-> k.capacity, count |-> k.count]
  BY <1>3, <1>4, <1>5 DEF IdCluster
<1>7. d = Push(c, s, k)
  <2>1. s \in DOMAIN c.chains
    BY <1>3, CompressorFields DEF Linking
  <2>2. d = [c EXCEPT !.chains[s] = Append(@, k),
                      !.clusterList = Append(@, [session |-> s, place |-> Len(c.chains[s]) + 1])]
    BY <1>6 DEF LoadCluster
  <2> HIDE DEF k
  <2> QED BY <2>1, <2>2 DEF Push, Reference
<1> HIDE DEF k, p, base
<1>8. SameShell(c, d)
  BY ONLY Linking(c), <1>3, <1>7, PushFields
<1>9. Linking(d) /\ FinalSpace(d) = Append(p, k)
  <2>1. p = FinalSpace(c)
    BY DEF p
  <2> QED BY ONLY Linking(c), <1>3, <1>7, <2>1, PushEffect
<1> QED BY <1>2, <1>8, <1>9

(* c is what base has become once i clusters of the table t are loaded. *)
LoadedTo(c, base, t, i) ==
    /\ Linking(c)
    /\ SameShell(base, c)
    /\ FinalSpace(c) = Core!Prefix(t, i)

LoadsNext(f, t, i) ==
    f[i] = LoadCluster(f[i - 1], t[i].session, t[i].capacity, t[i].count)

LEMMA LoadingStates ==
    ASSUME NEW t, Core!TableInv(t), NEW base, LoadedTo(base, base, t, 0),
           NEW f, f[0] = base,
           \A i \in 1..Len(t) : LoadedTo(f[i - 1], base, t, i - 1) => LoadsNext(f, t, i)
    PROVE  \A i \in 0..Len(t) : LoadedTo(f[i], base, t, i)
<1> DEFINE n == Len(t)
           S == {i \in Nat : i \in 0..n => LoadedTo(f[i], base, t, i)}
<1>1. n \in Nat
  BY DEF Core!TableInv
<1>2. 0 \in S
  OBVIOUS
<1>3. ASSUME NEW i \in S PROVE i + 1 \in S
  <2> SUFFICES ASSUME i + 1 \in 0..n PROVE LoadedTo(f[i + 1], base, t, i + 1)
    OBVIOUS
  <2>1. i \in Nat /\ i \in 0..n /\ i < n /\ i + 1 \in 1..n /\ (i + 1) - 1 = i
    BY <1>1
  <2> DEFINE c == f[i]
             d == f[i + 1]
  <2>2. LoadedTo(c, base, t, i)
    BY <2>1
  <2>3. LoadsNext(f, t, i + 1)
    BY <2>1, <2>2
  <2>4. d = LoadCluster(c, t[i + 1].session, t[i + 1].capacity, t[i + 1].count)
    BY <2>1, <2>3 DEF LoadsNext
  <2> HIDE DEF c, d
  <2>5. Linking(d) /\ SameShell(c, d) /\ FinalSpace(d) = Core!Prefix(t, i + 1)
    <3>1. Linking(c) /\ FinalSpace(c) = Core!Prefix(t, i)
      BY <2>2 DEF LoadedTo
    <3> QED BY <2>1, <2>4, <3>1, LoadClusterEffect
  <2>6. SameShell(base, d)
    BY <2>2, <2>5 DEF LoadedTo, SameShell
  <2>7. LoadedTo(d, base, t, i + 1)
    BY <2>5, <2>6 DEF LoadedTo
  <2> QED BY <2>7 DEF d
<1>4. S \in SUBSET Nat
  OBVIOUS
<1> HIDE DEF S
<1>5. \A i \in Nat : i \in S
  BY Constants, <1>2, <1>3, <1>4, Core!SetInduction
<1> QED BY <1>1, <1>5 DEF S

(* What the loader computes, cluster by cluster. *)
LoadsAll(f, base, t) ==
    f = [i \in 0..Len(t) |->
            IF i = 0 THEN base
            ELSE LoadCluster(f[i - 1], t[i].session, t[i].capacity, t[i].count)]

LEMMA LoadingExists ==
    ASSUME NEW t, Core!TableInv(t), NEW base, LoadedTo(base, base, t, 0)
    PROVE  \E f : LoadsAll(f, base, t)
<1> DEFINE n == Len(t)
           Loaded(i, c) == LoadCluster(c, t[i].session, t[i].capacity, t[i].count)
           step == [p \in Nat \X Compressor |->
                       IF Loaded(p[1], p[2]) \in Compressor THEN Loaded(p[1], p[2]) ELSE p[2]]
<1>1. n \in Nat /\ base \in Compressor
  BY DEF Core!TableInv, LoadedTo, Linking
<1>2. step \in [Nat \X Compressor -> Compressor]
  <2> DEFINE V == Compressor
  <2>1. \A p \in Nat \X V : p[2] \in V
    OBVIOUS
  <2>2. step = [p \in Nat \X V |-> IF Loaded(p[1], p[2]) \in V THEN Loaded(p[1], p[2]) ELSE p[2]]
    OBVIOUS
  <2> HIDE DEF V, Loaded
  <2> QED BY <2>1, <2>2 DEF V
<1>3. \A i \in Nat : \A c \in Compressor :
         step[<<i, c>>] = IF Loaded(i, c) \in Compressor THEN Loaded(i, c) ELSE c
  <2> HIDE DEF Loaded
  <2> QED OBVIOUS
<1>4. \E f \in [0..n -> Compressor] : Core!IsRecursive(f, n, base, step)
  <2> HIDE DEF step, n
  <2> QED BY <1>1, <1>2, Constants, Core!Recursion
<1>5. PICK f \in [0..n -> Compressor] : Core!IsRecursive(f, n, base, step)
  BY <1>4
<1>6. /\ f[0] = base
      /\ \A i \in 1..n : f[i] = IF Loaded(i, f[i - 1]) \in Compressor THEN Loaded(i, f[i - 1]) ELSE f[i - 1]
  <2>1. \A i \in 0..n : f[i] = IF i = 0 THEN base ELSE step[<<i, f[i - 1]>>]
    BY <1>5 DEF Core!IsRecursive
  <2> HIDE DEF step, Loaded, n
  <2>2. 0 \in 0..n /\ \A i \in 1..n : i \in 0..n /\ i # 0 /\ i \in Nat /\ i - 1 \in 0..n
    BY <1>1
  <2>3. \A i \in 1..n : f[i - 1] \in Compressor
    BY <1>5, <2>2
  <2> QED BY <1>3, <2>1, <2>2, <2>3
<1>7. ASSUME NEW i \in 1..n, LoadedTo(f[i - 1], base, t, i - 1)
      PROVE  LoadsNext(f, t, i)
  <2> DEFINE j == i - 1
             c == f[j]
             d == LoadCluster(c, t[j + 1].session, t[j + 1].capacity, t[j + 1].count)
  <2>1. j \in 0..n /\ j < n /\ j + 1 = i
    BY <1>1
  <2>2. Linking(c) /\ FinalSpace(c) = Core!Prefix(t, j)
    BY <1>7 DEF LoadedTo
  <2>3. d \in Compressor
    <3> HIDE DEF c, d, j
    <3>1. d = LoadCluster(c, t[j + 1].session, t[j + 1].capacity, t[j + 1].count)
      BY DEF d
    <3>2. Linking(d)
      BY <2>1, <2>2, <3>1, LoadClusterEffect
    <3> QED BY <3>2 DEF Linking
  <2>4. d = Loaded(i, f[i - 1])
    BY <2>1
  <2> QED BY <1>6, <2>3, <2>4 DEF LoadsNext
<1>8. \A i \in 0..n : LoadedTo(f[i], base, t, i)
  BY <1>6, <1>7, LoadingStates
<1>9. ASSUME NEW i \in 0..n
      PROVE  f[i] = IF i = 0 THEN base ELSE Loaded(i, f[i - 1])
  <2>1. CASE i = 0
    BY <1>6, <2>1
  <2>2. CASE i # 0
    <3>1. i \in 1..n /\ i - 1 \in 0..n
      BY <1>1, <2>2
    <3>2. LoadsNext(f, t, i)
      BY <1>7, <1>8, <3>1
    <3> QED BY <2>2, <3>2 DEF LoadsNext
  <2> QED BY <2>1, <2>2
<1>10. f = [i \in 0..n |-> IF i = 0 THEN base ELSE Loaded(i, f[i - 1])]
  <2> HIDE DEF Loaded, n
  <2>1. f = [i \in 0..n |-> f[i]]
    OBVIOUS
  <2> QED BY <1>9, <2>1
<1> QED BY <1>10 DEF LoadsAll

LEMMA AllLoaded ==
    ASSUME NEW t, Core!TableInv(t), NEW base, LoadedTo(base, base, t, 0),
           NEW f, LoadsAll(f, base, t)
    PROVE  LoadedTo(f[Len(t)], base, t, Len(t))
<1> DEFINE n == Len(t)
           Loaded(i, c) == LoadCluster(c, t[i].session, t[i].capacity, t[i].count)
<1>1. n \in Nat
  BY DEF Core!TableInv
<1>2. \A i \in 0..n : f[i] = IF i = 0 THEN base ELSE Loaded(i, f[i - 1])
  <2> HIDE DEF Loaded
  <2>1. f = [i \in 0..n |-> IF i = 0 THEN base ELSE Loaded(i, f[i - 1])]
    BY DEF LoadsAll, Loaded
  <2> DEFINE g == [i \in 0..n |-> IF i = 0 THEN base ELSE Loaded(i, f[i - 1])]
  <2>2. \A i \in 0..n : g[i] = IF i = 0 THEN base ELSE Loaded(i, f[i - 1])
    OBVIOUS
  <2>3. f = g
    BY <2>1
  <2> HIDE DEF g
  <2> QED BY <2>2, <2>3
<1>3. f[0] = base
  BY <1>1, <1>2
<1>4. \A i \in 1..n : LoadsNext(f, t, i)
  <2>1. \A i \in 1..n : i \in 0..n /\ i # 0
    BY <1>1
  <2> QED BY <1>2, <2>1 DEF LoadsNext
<1>5. \A i \in 0..n : LoadedTo(f[i], base, t, i)
  BY <1>3, <1>4, LoadingStates
<1> QED BY <1>1, <1>5

(* The words name the session, capacity and count of each cluster of t. *)
NamesClusters(words, sessions, at, offset, t) ==
    /\ words[at + 1] = Len(t)
    /\ \A i \in 1..Len(t) : /\ sessions[words[at + 3 * i - 1] + offset + 1] = t[i].session
                            /\ words[at + 3 * i] = t[i].capacity
                            /\ words[at + 3 * i + 1] = t[i].count

LoadedClusters(base, words, sessions, at, offset) ==
    LET loaded[i \in 0..words[at + 1]] ==
            IF i = 0 THEN base
            ELSE LoadCluster(loaded[i - 1], sessions[words[at + 3 * i - 1] + offset + 1],
                             words[at + 3 * i], words[at + 3 * i + 1])
    IN  loaded[words[at + 1]]

(* Where the words name the session, capacity and count of each cluster, these
   are loaded (IdCompressor.ts:587-601).                                   *)
LEMMA ClustersLoad ==
    ASSUME NEW t, Core!TableInv(t), NEW base, LoadedTo(base, base, t, 0),
           NEW words, NEW sessions, NEW at, NEW offset,
           NamesClusters(words, sessions, at, offset, t)
    PROVE  LoadedTo(LoadedClusters(base, words, sessions, at, offset), base, t, Len(t))
<1> DEFINE n == Len(t)
           Loads(f) == f = [i \in 0..words[at + 1] |->
               IF i = 0 THEN base
               ELSE LoadCluster(f[i - 1], sessions[words[at + 3 * i - 1] + offset + 1],
                                words[at + 3 * i], words[at + 3 * i + 1])]
           loaded == CHOOSE f : Loads(f)
<1>1. n \in Nat
  BY DEF Core!TableInv
<1> USE DEF NamesClusters
<1>2. ASSUME NEW f PROVE Loads(f) <=> LoadsAll(f, base, t)
  <2>1. ASSUME NEW i \in 0..n
        PROVE  (IF i = 0 THEN base
                ELSE LoadCluster(f[i - 1], sessions[words[at + 3 * i - 1] + offset + 1],
                                 words[at + 3 * i], words[at + 3 * i + 1]))
               = IF i = 0 THEN base
                 ELSE LoadCluster(f[i - 1], t[i].session, t[i].capacity, t[i].count)
    <3>1. i # 0 => i \in 1..n
      BY <1>1
    <3> QED BY <3>1
  <2> QED BY <2>1 DEF LoadsAll
<1>3. \E f : Loads(f)
  <2>1. \E f : LoadsAll(f, base, t)
    BY LoadingExists
  <2> HIDE DEF Loads
  <2> QED BY <1>2, <2>1
<1>4. Loads(loaded)
  <2> HIDE DEF Loads
  <2> QED BY <1>3
<1>5. LoadedTo(loaded[n], base, t, n)
  <2> HIDE DEF Loads, loaded
  <2>1. LoadsAll(loaded, base, t)
    BY <1>2, <1>4
  <2> QED BY <2>1, AllLoaded
<1>6. LoadedClusters(base, words, sessions, at, offset) = loaded[words[at + 1]]
  BY DEF LoadedClusters
<1> QED BY <1>5, <1>6

-----------------------------------------------------------------------------
(* Loading the normalizer. *)

(* The first k runs of a map. *)
Leading(m, k) == [i \in 1..k |-> m[i]]

LEMMA LeadingRuns ==
    ASSUME NEW m \in Seq(Run), NEW k \in Nat, k < Len(m)
    PROVE  /\ Leading(m, k) = <<>> <=> k = 0
           /\ Len(Leading(m, k)) = k
           /\ \A i \in 1..k : Leading(m, k)[i] = m[i]
           /\ Append(Leading(m, k), m[k + 1]) = Leading(m, k + 1)
<1> DEFINE R == Run
           n == Len(m)
           p == Leading(m, k)
           u == Append(p, m[k + 1])
<1>1. n \in Nat /\ \A i \in 1..n : m[i] \in R
  BY RunsTypes
<1>2. \A i \in 1..k : i \in 1..n
  BY <1>1
<1>3. m[k + 1] \in R
  BY <1>1
<1>4. p \in Seq(R) /\ Len(p) = k /\ \A i \in 1..k : p[i] = m[i]
  <2> HIDE DEF R, n
  <2>1. \A i \in 1..k : m[i] \in R
    BY <1>1, <1>2
  <2> QED BY <2>1 DEF Leading
<1>5. p = <<>> <=> k = 0
  <2> HIDE DEF R, n, p
  <2> QED BY <1>4, EmptySeq
<1>6. u = [i \in 1..(k + 1) |-> IF i = k + 1 THEN m[k + 1] ELSE p[i]]
  <2> HIDE DEF R, n, p
  <2>1. Append(p, m[k + 1]) = [i \in 1..(Len(p) + 1) |-> IF i = Len(p) + 1 THEN m[k + 1] ELSE p[i]]
    BY <1>3, <1>4, Appended
  <2> QED BY <1>4, <2>1
<1>7. \A i \in 1..(k + 1) : (IF i = k + 1 THEN m[k + 1] ELSE p[i]) = m[i]
  <2> HIDE DEF p
  <2>1. \A i \in 1..(k + 1) : i # k + 1 => i \in 1..k
    OBVIOUS
  <2> QED BY <1>4, <2>1
<1>8. u = Leading(m, k + 1)
  <2> HIDE DEF p
  <2> QED BY <1>6, <1>7 DEF Leading
<1> QED BY <1>4, <1>5, <1>8

(* Runs with a gap between them stay apart when they are added. *)
LEMMA RunLoads ==
    ASSUME NEW m \in Seq(Run), Gapped(m), NEW k \in Nat, k < Len(m)
    PROVE  AddLocals(Leading(m, k), m[k + 1].key, m[k + 1].value) = Leading(m, k + 1)
<1> DEFINE p == Leading(m, k)
           run == m[k + 1]
           n == Len(m)
<1>1. n \in Nat /\ DOMAIN m = 1..n /\ \A i \in 1..n : m[i] \in Run
  BY RunsTypes
<1>2. k + 1 \in 1..n /\ run \in Run
  BY <1>1
<1>3. /\ p = <<>> <=> k = 0
      /\ Len(p) = k
      /\ \A i \in 1..k : p[i] = m[i]
      /\ Append(p, run) = Leading(m, k + 1)
  BY LeadingRuns
<1> HIDE DEF p, n
<1>4. ~(p # <<>> /\ p[Len(p)].key - p[Len(p)].value = run.key)
  <2> SUFFICES ASSUME k # 0, m[k].key - m[k].value = run.key PROVE FALSE
    <3>1. k # 0 => k \in 1..k
      OBVIOUS
    <3> QED BY <1>3, <3>1
  <2>1. k \in DOMAIN m /\ k + 1 \in DOMAIN m /\ k < k + 1
    BY <1>1, <1>2
  <2>2. run.key < m[k].key - m[k].value
    BY <2>1 DEF Gapped
  <2>3. run.key \in Int
    BY <1>2, RunTypes
  <2> HIDE DEF run
  <2> QED BY <2>2, <2>3
<1>5. Pair(run.key, run.value) = run
  BY <1>2 DEF Run, Pair
<1> HIDE DEF run
<1> QED BY <1>3, <1>4, <1>5 DEF AddLocals, AppendPair, p, run

(* The map is read back run by run (IdCompressor.ts:571-577). *)
LEMMA NormalizerLoads ==
    ASSUME NEW m \in Seq(Run), Gapped(m), NEW words, NEW at, at = LocalAt(words) + 2,
           words[at] = Len(m),
           \A i \in 1..Len(m) : -words[at + 2 * i - 1] = m[i].key /\ words[at + 2 * i] = m[i].value
    PROVE  LoadedNormalizer(words) = m
<1> DEFINE n == Len(m)
           Loads(f) == f = [i \in 0..words[at] |->
               IF i = 0 THEN <<>>
               ELSE AddLocals(f[i - 1], -words[at + 2 * i - 1], words[at + 2 * i])]
           loaded == CHOOSE f : Loads(f)
<1>1. n \in Nat /\ DOMAIN m = 1..n
  BY RunsTypes
<1>2. LoadedNormalizer(words) = loaded[n]
  BY DEF LoadedNormalizer
<1>3. \A f : Loads(f) <=>
         f = [i \in 0..n |-> IF i = 0 THEN <<>> ELSE AddLocals(f[i - 1], m[i].key, m[i].value)]
  <2> SUFFICES ASSUME NEW f
               PROVE  Loads(f) <=> f = [i \in 0..n |-> IF i = 0 THEN <<>>
                                           ELSE AddLocals(f[i - 1], m[i].key, m[i].value)]
    OBVIOUS
  <2>1. ASSUME NEW i \in 0..n
        PROVE  (IF i = 0 THEN <<>>
                ELSE AddLocals(f[i - 1], -words[at + 2 * i - 1], words[at + 2 * i]))
               = IF i = 0 THEN <<>> ELSE AddLocals(f[i - 1], m[i].key, m[i].value)
    <3>1. i # 0 => i \in 1..n
      BY <1>1
    <3> QED BY <3>1
  <2> QED BY <2>1
<1>4. Leading(m, 0) = <<>>
  BY DEF Leading
<1>5. ASSUME NEW i \in 1..n
      PROVE  AddLocals(Leading(m, i - 1), m[i].key, m[i].value) = Leading(m, i)
  <2> DEFINE k == i - 1
  <2>1. k \in Nat /\ k < n /\ k + 1 = i
    BY <1>1
  <2> HIDE DEF k
  <2>2. AddLocals(Leading(m, k), m[k + 1].key, m[k + 1].value) = Leading(m, k + 1)
    BY <2>1, RunLoads
  <2> QED BY <2>1, <2>2 DEF k
<1>6. Loads(loaded)
  <2> DEFINE f == [i \in 0..n |-> Leading(m, i)]
  <2>1. ASSUME NEW i \in 0..n
        PROVE  f[i] = IF i = 0 THEN <<>> ELSE AddLocals(f[i - 1], m[i].key, m[i].value)
    <3>1. CASE i = 0
      BY <1>4, <3>1
    <3>2. CASE i # 0
      <4>1. i \in 1..n /\ i - 1 \in 0..n
        BY <1>1, <3>2
      <4> QED BY <1>5, <3>2, <4>1
    <3> QED BY <3>1, <3>2
  <2>2. f = [i \in 0..n |-> IF i = 0 THEN <<>> ELSE AddLocals(f[i - 1], m[i].key, m[i].value)]
    BY <2>1
  <2> HIDE DEF Loads, f
  <2>3. Loads(f)
    BY <1>3, <2>2
  <2> QED BY <2>3
<1> HIDE DEF Loads, loaded
<1>7. loaded = [i \in 0..n |-> IF i = 0 THEN <<>> ELSE AddLocals(loaded[i - 1], m[i].key, m[i].value)]
  BY <1>3, <1>6
<1> DEFINE S == {i \in Nat : i \in 0..n => loaded[i] = Leading(m, i)}
<1>8. 0 \in S
  <2>1. 0 \in 0..n
    BY <1>1
  <2> QED BY <1>4, <1>7, <2>1
<1>9. ASSUME NEW i \in S PROVE i + 1 \in S
  <2> SUFFICES ASSUME i + 1 \in 0..n PROVE loaded[i + 1] = Leading(m, i + 1)
    OBVIOUS
  <2>1. i \in Nat /\ i \in 0..n /\ i + 1 \in 1..n /\ i + 1 # 0 /\ (i + 1) - 1 = i
    BY <1>1
  <2>2. loaded[i + 1] = AddLocals(loaded[i], m[i + 1].key, m[i + 1].value)
    BY <1>7, <2>1
  <2>3. loaded[i] = Leading(m, i)
    BY <2>1
  <2>4. AddLocals(Leading(m, (i + 1) - 1), m[i + 1].key, m[i + 1].value) = Leading(m, i + 1)
    BY <1>5, <2>1
  <2> QED BY <2>1, <2>2, <2>3, <2>4
<1>10. n \in S
  <2>1. S \in SUBSET Nat
    OBVIOUS
  <2> HIDE DEF S
  <2> QED BY <1>1, <1>8, <1>9, <2>1, Constants, Core!SetInduction
<1>11. Leading(m, n) = m
  <2> DEFINE R == Run
  <2>1. m \in Seq(R)
    OBVIOUS
  <2> HIDE DEF R
  <2> QED BY <2>1 DEF Leading
<1> QED BY <1>1, <1>2, <1>10, <1>11

-----------------------------------------------------------------------------
(* What is written. *)

(* Fields of the same width stand at multiples of it. *)
LEMMA FieldsFlatten ==
    ASSUME NEW p \in {1, 2, 3, 4, 6}, NEW n \in Nat, NEW fields \in [1..n -> Seq(Int)],
           \A i \in 1..n : Len(fields[i]) = p,
           NEW flat, flat = Seqs!FlattenSeq(fields)
    PROVE  /\ flat \in Seq(Int)
           /\ Core!FieldsFollow(flat, fields, n, p)
<1>1. Len(fields) = n /\ DOMAIN fields = 1..n
  OBVIOUS
<1>2. CASE n = 0
  <2>1. Seqs!FlattenSeq(fields) = fields /\ fields = <<>>
    BY <1>1, <1>2 DEF Seqs!FlattenSeq
  <2>2. Len(<<>>) = 0 /\ <<>> \in Seq(Int) /\ n * p = 0
    BY <1>2, Constants, Core!Places
  <2> QED BY <1>2, <2>1, <2>2 DEF Core!FieldsFollow
<1>3. CASE n # 0
  <2>1. Seqs!FlattenSeq(fields) = Core!Flattened(fields)
    BY <1>1, <1>3 DEF Seqs!FlattenSeq, Core!Flattened
  <2> DEFINE flattened == Core!Flattened(fields)
  <2>2. flattened \in Seq(Int) /\ Core!FieldsFollow(flattened, fields, n, p)
    BY <1>3, Constants, Core!FlattenedFollow
  <2> HIDE DEF flattened
  <2>3. flat = flattened
    BY <2>1 DEF flattened
  <2> QED BY <2>2, <2>3
<1> QED BY <1>2, <1>3

LEMMA FieldStands ==
    ASSUME NEW p \in {1, 2, 3, 4, 6}, NEW n \in Nat, NEW fields \in [1..n -> Seq(Int)],
           \A i \in 1..n : Len(fields[i]) = p,
           NEW words, NEW at \in Nat, Core!StandsAt(words, at, Seqs!FlattenSeq(fields)),
           NEW k \in 1..n, NEW i, i = at + (k - 1) * p
    PROVE  i \in Nat /\ Core!StandsAt(words, i, fields[k])
<1> DEFINE flat == Seqs!FlattenSeq(fields)
<1>1. Core!FieldsFollow(flat, fields, n, p)
  BY FieldsFlatten
<1> HIDE DEF flat
<1>2. Core!StandsAt(words, at, flat)
  BY DEF flat
<1>3. \A m : m = at + (k - 1) * p => m \in Nat /\ Core!StandsAt(words, m, fields[k])
  BY <1>1, <1>2, Constants, Core!FieldIsAt
<1> QED BY <1>3

(* Each part begins where the one before it ends. *)
LEMMA LastPart ==
    ASSUME NEW x \in Seq(Int), NEW y \in Seq(Int), NEW words, Core!StandsAt(words, 0, x \o y),
           NEW n, n = Len(x)
    PROVE  Core!StandsAt(words, 0, x) /\ Core!StandsAt(words, n, y)
<1> DEFINE i == 0
<1>1. i \in Nat /\ n = i + Len(x) /\ Core!StandsAt(words, i, x \o y)
  OBVIOUS
<1> HIDE DEF i
<1>2. Core!StandsAt(words, i, x) /\ Core!StandsAt(words, n, y)
  BY ONLY <1>1, x \in Seq(Int), y \in Seq(Int), Constants, Core!PartsStand
<1> QED BY <1>2 DEF i

LEMMA JoinedLength ==
    ASSUME NEW x \in Seq(Int), NEW y \in Seq(Int), NEW n, n = Len(x)
    PROVE  x \o y \in Seq(Int) /\ Len(x \o y) = n + Len(y)
OBVIOUS

(* How long seven parts are together. *)
LEMMA SevenJoined ==
    ASSUME NEW a \in Seq(Int), NEW b \in Seq(Int), NEW c \in Seq(Int), NEW d \in Seq(Int),
           NEW e \in Seq(Int), NEW f \in Seq(Int), NEW g \in Seq(Int)
    PROVE  LET words == a \o b \o c \o d \o e \o f \o g
           IN  words \in Seq(Int) /\ Len(a) + Len(b) + Len(c) + Len(d) <= Len(words)
<1>1. PICK i \in Seq(Int) : i = a \o b /\ Len(i) = Len(a) + Len(b)
  BY JoinedLength
<1>2. PICK j \in Seq(Int) : j = i \o c /\ Len(j) = Len(i) + Len(c)
  BY JoinedLength
<1>3. PICK k \in Seq(Int) : k = j \o d /\ Len(k) = Len(j) + Len(d)
  BY JoinedLength
<1>4. PICK l \in Seq(Int) : l = k \o e /\ Len(l) = Len(k) + Len(e)
  BY JoinedLength
<1>5. PICK m \in Seq(Int) : m = l \o f /\ Len(m) = Len(l) + Len(f)
  BY JoinedLength
<1>6. PICK words \in Seq(Int) : words = m \o g /\ Len(words) = Len(m) + Len(g)
  BY JoinedLength
<1>7. words = a \o b \o c \o d \o e \o f \o g
  BY ONLY <1>1, <1>2, <1>3, <1>4, <1>5, <1>6
<1>8. /\ Len(a) \in Nat /\ Len(b) \in Nat /\ Len(c) \in Nat /\ Len(d) \in Nat
      /\ Len(e) \in Nat /\ Len(f) \in Nat /\ Len(g) \in Nat
  OBVIOUS
<1>9. Len(a) + Len(b) + Len(c) + Len(d) <= Len(words)
  BY ONLY <1>1, <1>2, <1>3, <1>4, <1>5, <1>6, <1>8
<1> QED BY <1>6, <1>7, <1>9

(* Where seven parts of a sequence stand. *)
SevenStand(words, a, b, c, d, e, f, g) ==
    /\ Core!StandsAt(words, 0, a)
    /\ Core!StandsAt(words, Len(a), b)
    /\ Core!StandsAt(words, Len(a) + Len(b), c)
    /\ Core!StandsAt(words, Len(a) + Len(b) + Len(c), d)
    /\ Core!StandsAt(words, Len(a) + Len(b) + Len(c) + Len(d), e)
    /\ Core!StandsAt(words, Len(a) + Len(b) + Len(c) + Len(d) + Len(e), f)
    /\ Core!StandsAt(words, Len(a) + Len(b) + Len(c) + Len(d) + Len(e) + Len(f), g)

LEMMA SevenParts ==
    ASSUME NEW a \in Seq(Int), NEW b \in Seq(Int), NEW c \in Seq(Int), NEW d \in Seq(Int),
           NEW e \in Seq(Int), NEW f \in Seq(Int), NEW g \in Seq(Int),
           NEW words, words = a \o b \o c \o d \o e \o f \o g
    PROVE  SevenStand(words, a, b, c, d, e, f, g)
<1> DEFINE ab == a \o b
           abc == ab \o c
           abcd == abc \o d
           abcde == abcd \o e
           abcdef == abcde \o f
<1>1. ab \in Seq(Int) /\ Len(ab) = Len(a) + Len(b)
  OBVIOUS
<1>2. abc \in Seq(Int) /\ Len(abc) = Len(a) + Len(b) + Len(c)
  <2> HIDE DEF ab
  <2> QED BY <1>1, JoinedLength
<1>3. abcd \in Seq(Int) /\ Len(abcd) = Len(a) + Len(b) + Len(c) + Len(d)
  <2> HIDE DEF abc
  <2> QED BY <1>2, JoinedLength
<1>4. abcde \in Seq(Int) /\ Len(abcde) = Len(a) + Len(b) + Len(c) + Len(d) + Len(e)
  <2> HIDE DEF abcd
  <2> QED BY <1>3, JoinedLength
<1>5. abcdef \in Seq(Int)
      /\ Len(abcdef) = Len(a) + Len(b) + Len(c) + Len(d) + Len(e) + Len(f)
  <2> HIDE DEF abcde
  <2> QED BY <1>4, JoinedLength
<1>6. Core!StandsAt(words, 0, abcdef \o g)
  <2>1. words = abcdef \o g
    OBVIOUS
  <2> HIDE DEF abcdef
  <2>2. words \in Seq(Int)
    BY <1>5, <2>1
  <2>3. Core!StandsAt(words, 0, words)
    BY <2>2, Constants, Core!AllStands
  <2> QED BY <2>1, <2>3
<1>7. /\ Core!StandsAt(words, 0, abcde \o f)
      /\ Core!StandsAt(words, Len(a) + Len(b) + Len(c) + Len(d) + Len(e) + Len(f), g)
  <2> HIDE DEF abcde
  <2>1. Core!StandsAt(words, 0, abcdef) /\ Core!StandsAt(words, Len(abcdef), g)
    <3> HIDE DEF abcdef
    <3> QED BY <1>5, <1>6, LastPart
  <2> QED BY <1>5, <2>1
<1>8. /\ Core!StandsAt(words, 0, abcd \o e)
      /\ Core!StandsAt(words, Len(a) + Len(b) + Len(c) + Len(d) + Len(e), f)
  <2> HIDE DEF abcd
  <2>1. Core!StandsAt(words, 0, abcde) /\ Core!StandsAt(words, Len(abcde), f)
    <3> HIDE DEF abcde
    <3> QED BY <1>4, <1>7, LastPart
  <2> QED BY <1>4, <2>1
<1>9. /\ Core!StandsAt(words, 0, abc \o d)
      /\ Core!StandsAt(words, Len(a) + Len(b) + Len(c) + Len(d), e)
  <2> HIDE DEF abc
  <2>1. Core!StandsAt(words, 0, abcd) /\ Core!StandsAt(words, Len(abcd), e)
    <3> HIDE DEF abcd
    <3> QED BY <1>3, <1>8, LastPart
  <2> QED BY <1>3, <2>1
<1>10. /\ Core!StandsAt(words, 0, ab \o c)
       /\ Core!StandsAt(words, Len(a) + Len(b) + Len(c), d)
  <2> HIDE DEF ab
  <2>1. Core!StandsAt(words, 0, abc) /\ Core!StandsAt(words, Len(abc), d)
    <3> HIDE DEF abc
    <3> QED BY <1>2, <1>9, LastPart
  <2> QED BY <1>2, <2>1
<1>11. /\ Core!StandsAt(words, 0, a \o b)
       /\ Core!StandsAt(words, Len(a) + Len(b), c)
  <2>1. Core!StandsAt(words, 0, ab) /\ Core!StandsAt(words, Len(ab), c)
    <3> HIDE DEF ab
    <3> QED BY <1>1, <1>10, LastPart
  <2> QED BY <1>1, <2>1
<1>12. Core!StandsAt(words, 0, a) /\ Core!StandsAt(words, Len(a), b)
  BY <1>11, LastPart
<1> QED BY <1>7, <1>8, <1>9, <1>10, <1>11, <1>12 DEF SevenStand

Among(sessions) == {sessions[i] : i \in DOMAIN sessions}

PlaceIn(sessions, s) == CHOOSE i \in DOMAIN sessions : sessions[i] = s

RunFields(m) == [i \in DOMAIN m |-> <<-m[i].key, m[i].value>>]

ClusterFields(c, sessions) ==
    [i \in DOMAIN c.clusterList |->
        LET k == FinalSpace(c)[i] IN <<PlaceIn(sessions, k.session) - 1, k.capacity, k.count>>]

OwnWords(c, withSession) == IF withSession THEN <<c.localSessionId>> ELSE <<>>

LocalWords(c, withSession) ==
    IF withSession THEN <<c.generatedIdCount, c.nextRangeBase, Len(RunFields(c.normalizer))>>
                          \o Seqs!FlattenSeq(RunFields(c.normalizer))
    ELSE <<>>

(* The parts of what is written, in their order (IdCompressor.ts:448-516). *)
LEMMA SerializeParts ==
    ASSUME NEW c, NEW withSession, NEW sessions, sessions = WrittenSessions(c, withSession)
    PROVE  Serialize(c, withSession) =
              <<1, Flag(withSession)>> \o OwnWords(c, withSession) \o <<Len(sessions)>> \o sessions
              \o LocalWords(c, withSession)
              \o <<c.clusterCapacity, Len(ClusterFields(c, sessions))>>
              \o Seqs!FlattenSeq(ClusterFields(c, sessions))
BY DEF Serialize, OwnWords, LocalWords, ClusterFields, RunFields, PlaceIn

(* The sessions that are written are those that are known, but for the first
   one if it is left out.                                                  *)
LEMMA WrittenAre ==
    ASSUME NEW c \in Compressor, c.sessionList # <<>>, NEW withSession \in BOOLEAN,
           NEW delta, delta = IndexOffset(c, withSession),
           NEW sessions, sessions = WrittenSessions(c, withSession)
    PROVE  /\ delta \in {0, 1} /\ (delta = 1 <=> ~withSession /\ c.generatedIdCount = 0)
           /\ sessions \in Seq(Sessions) /\ sessions \in Seq(Int)
           /\ Len(sessions) = Len(c.sessionList) - delta
           /\ DOMAIN sessions = 1..(Len(c.sessionList) - delta)
           /\ Len(sessions) \in Nat /\ DOMAIN sessions = 1..Len(sessions)
           /\ \A i \in 1..(Len(c.sessionList) - delta) : sessions[i] = c.sessionList[i + delta]
<1> DEFINE all == c.sessionList
           n == Len(all)
<1>1. all \in Seq(Sessions) /\ n \in Nat /\ n >= 1 /\ DOMAIN all = 1..n
  <2>1. all \in Seq(Sessions) /\ all # <<>>
    BY CompressorFields
  <2> HIDE DEF all
  <2> QED BY <2>1
<1>2. delta \in {0, 1} /\ (delta = 1 <=> ~withSession /\ c.generatedIdCount = 0)
  BY DEF IndexOffset
<1>3. sessions = SubSeq(all, 1 + delta, n)
  BY DEF WrittenSessions
<1> HIDE DEF all, n
<1>4. 1 + delta \in 1..(n + 1) /\ n \in (1 + delta - 1)..n
  BY <1>1, <1>2
<1>5. /\ sessions \in Seq(Sessions)
      /\ Len(sessions) = n - delta
      /\ \A i \in 1..(n - delta) : sessions[i] = all[i + delta]
  <2> DEFINE m == 1 + delta
  <2>1. m \in 1..(n + 1) /\ n \in (m - 1)..n
    BY <1>1, <1>2
  <2> HIDE DEF m
  <2>2. /\ SubSeq(all, m, n) \in Seq(Sessions)
        /\ Len(SubSeq(all, m, n)) = (IF m <= n THEN n - m + 1 ELSE 0)
        /\ \A i \in 1..(n - m + 1) : SubSeq(all, m, n)[i] = all[m + i - 1]
    BY <1>1, <2>1, SubSeqProperties DEF n
  <2>3. sessions = SubSeq(all, m, n)
    BY <1>3 DEF m
  <2>4. (IF m <= n THEN n - m + 1 ELSE 0) = n - delta /\ n - m + 1 = n - delta
    BY <1>1, <1>2 DEF m
  <2>5. ASSUME NEW i \in 1..(n - delta) PROVE sessions[i] = all[i + delta]
    <3>1. i \in 1..(n - m + 1) /\ m + i - 1 = i + delta
      BY <1>2, <2>4 DEF m
    <3> QED BY <2>2, <2>3, <3>1
  <2>6. sessions \in Seq(Sessions) /\ Len(sessions) = n - delta
    BY <2>2, <2>3, <2>4
  <2> QED BY <2>5, <2>6
<1>6. sessions \in Seq(Int)
  <2> DEFINE length == Len(sessions)
  <2>1. sessions \in Seq(Sessions) /\ length \in Nat
    BY <1>5
  <2>2. \A i \in 1..length : sessions[i] \in Int
    BY <2>1, SessionTypes
  <2>3. sessions = [i \in 1..length |-> sessions[i]]
    BY <2>1
  <2> HIDE DEF length
  <2>4. [i \in 1..length |-> sessions[i]] \in Seq(Int)
    BY <2>1, <2>2
  <2> QED BY <2>3, <2>4
<1>7. n - delta \in Nat
  BY <1>1, <1>2
<1>8. DOMAIN sessions = 1..(n - delta)
  BY <1>5
<1> QED BY <1>2, <1>5, <1>6, <1>7, <1>8 DEF n, all

(* Each session is found at its place among them. *)
LEMMA PlaceFound ==
    ASSUME NEW sessions \in Seq(Sessions), NEW s \in Among(sessions)
    PROVE  PlaceIn(sessions, s) \in DOMAIN sessions /\ sessions[PlaceIn(sessions, s)] = s
           /\ PlaceIn(sessions, s) \in Int
BY DEF PlaceIn, Among

LEMMA RunFieldsTypes ==
    ASSUME NEW m \in Seq(Run), NEW fields, fields = RunFields(m), NEW n, n = Len(m)
    PROVE  /\ n \in Nat /\ fields \in [1..n -> Seq(Int)] /\ Len(fields) = n
           /\ \A i \in 1..n : /\ Len(fields[i]) = 2
                              /\ fields[i][1] = -m[i].key /\ fields[i][2] = m[i].value
<1>1. n \in Nat /\ DOMAIN m = 1..n
  BY RunsTypes
<1>2. ASSUME NEW i \in 1..n PROVE -m[i].key \in Int /\ m[i].value \in Int
  <2>1. m[i] \in Run
    BY <1>1, RunsTypes
  <2> QED BY <2>1, RunTypes
<1>3. fields = [i \in 1..n |-> <<-m[i].key, m[i].value>>]
  BY <1>1 DEF RunFields
<1>4. \A x, y \in Int : /\ <<x, y>> \in Seq(Int) /\ Len(<<x, y>>) = 2
                        /\ <<x, y>>[1] = x /\ <<x, y>>[2] = y
  OBVIOUS
<1>5. \A i \in 1..n : fields[i] = <<-m[i].key, m[i].value>>
  BY <1>3
<1>6. fields \in [1..n -> Seq(Int)]
  BY <1>2, <1>3, <1>4
<1>7. Len(fields) = n
  BY <1>1, <1>6
<1>8. ASSUME NEW i \in 1..n
      PROVE  Len(fields[i]) = 2 /\ fields[i][1] = -m[i].key /\ fields[i][2] = m[i].value
  <2> DEFINE x == -m[i].key
             y == m[i].value
  <2>1. x \in Int /\ y \in Int /\ fields[i] = <<x, y>>
    BY <1>2, <1>5
  <2> HIDE DEF x, y
  <2>2. Len(fields[i]) = 2 /\ fields[i][1] = x /\ fields[i][2] = y
    BY <1>4, <2>1
  <2> QED BY <2>2 DEF x, y
<1> QED BY <1>1, <1>6, <1>7, <1>8

(* Every cluster is written as three fields, the place of its session first. *)
FieldsWritten(fields, t, sessions, n) ==
    /\ n \in Nat /\ fields \in [1..n -> Seq(Int)] /\ Len(fields) = n
    /\ \A i \in 1..n : /\ Len(fields[i]) = 3
                       /\ fields[i][1] = PlaceIn(sessions, t[i].session) - 1
                       /\ fields[i][2] = t[i].capacity /\ fields[i][3] = t[i].count

OwnersAmong(t, sessions, n) == \A i \in 1..n : t[i].session \in Among(sessions)

LEMMA ClusterFieldsTypes ==
    ASSUME NEW c, Linking(c), NEW t, t = FinalSpace(c), NEW n, n = Len(t),
           NEW sessions \in Seq(Sessions), OwnersAmong(t, sessions, n),
           NEW fields, fields = ClusterFields(c, sessions)
    PROVE  FieldsWritten(fields, t, sessions, n)
<1>1. n \in Nat /\ DOMAIN c.clusterList = 1..n /\ \A i \in 1..n : t[i] \in IdCluster
  BY SpaceIsTable
<1>2. ASSUME NEW i \in 1..n
      PROVE  /\ PlaceIn(sessions, t[i].session) - 1 \in Int
             /\ t[i].capacity \in Int /\ t[i].count \in Int
  <2>1. t[i].session \in Among(sessions)
    BY DEF OwnersAmong
  <2>2. PlaceIn(sessions, t[i].session) \in Int
    BY <2>1, PlaceFound
  <2>3. t[i].capacity \in Nat \ {0} /\ t[i].count \in Nat
    BY <1>1 DEF IdCluster
  <2> QED BY <2>2, <2>3
<1>3. fields = [i \in 1..n |-> <<PlaceIn(sessions, t[i].session) - 1, t[i].capacity, t[i].count>>]
  BY <1>1 DEF ClusterFields
<1>4. \A x, y, z \in Int : /\ <<x, y, z>> \in Seq(Int) /\ Len(<<x, y, z>>) = 3
                           /\ <<x, y, z>>[1] = x /\ <<x, y, z>>[2] = y /\ <<x, y, z>>[3] = z
  OBVIOUS
<1>5. \A i \in 1..n : fields[i] = <<PlaceIn(sessions, t[i].session) - 1, t[i].capacity, t[i].count>>
  BY <1>3
<1>6. fields \in [1..n -> Seq(Int)]
  BY <1>2, <1>3, <1>4
<1>7. Len(fields) = n
  BY <1>1, <1>6
<1>8. ASSUME NEW i \in 1..n
      PROVE  /\ Len(fields[i]) = 3
             /\ fields[i][1] = PlaceIn(sessions, t[i].session) - 1
             /\ fields[i][2] = t[i].capacity /\ fields[i][3] = t[i].count
  <2> DEFINE x == PlaceIn(sessions, t[i].session) - 1
             y == t[i].capacity
             z == t[i].count
  <2>1. x \in Int /\ y \in Int /\ z \in Int /\ fields[i] = <<x, y, z>>
    BY <1>2, <1>5
  <2> HIDE DEF x, y, z
  <2>2. Len(fields[i]) = 3 /\ fields[i][1] = x /\ fields[i][2] = y /\ fields[i][3] = z
    BY <1>4, <2>1
  <2> QED BY <2>2 DEF x, y, z
<1> QED BY <1>1, <1>6, <1>7, <1>8 DEF FieldsWritten

(* Where the parts are. *)
PartsAt(words, c, withSession, sessions, own, at) ==
    /\ Core!StandsAt(words, 0, <<1, Flag(withSession)>>)
    /\ Core!StandsAt(words, 2, OwnWords(c, withSession))
    /\ Core!StandsAt(words, own, <<Len(sessions)>>)
    /\ Core!StandsAt(words, own + 1, sessions)
    /\ Core!StandsAt(words, own + 1 + Len(sessions), LocalWords(c, withSession))
    /\ Core!StandsAt(words, at, <<c.clusterCapacity, Len(ClusterFields(c, sessions))>>)
    /\ Core!StandsAt(words, at + 2, Seqs!FlattenSeq(ClusterFields(c, sessions)))

LEMMA LocalWordsTypes ==
    ASSUME NEW c \in Compressor, NEW withSession \in BOOLEAN
    PROVE  /\ LocalWords(c, withSession) \in Seq(Int)
           /\ Len(LocalWords(c, withSession)) =
                 IF withSession THEN 3 + Len(c.normalizer) * 2 ELSE 0
           /\ Len(c.normalizer) \in Nat
           /\ OwnWords(c, withSession) \in Seq(Int)
           /\ Len(OwnWords(c, withSession)) = IF withSession THEN 1 ELSE 0
<1> DEFINE m == c.normalizer
           fields == RunFields(m)
           flat == Seqs!FlattenSeq(fields)
           head == <<c.generatedIdCount, c.nextRangeBase, Len(fields)>>
           n == Len(m)
<1>1. m \in Seq(Run) /\ c.generatedIdCount \in Int /\ c.nextRangeBase \in Int
      /\ c.localSessionId \in Int
  <2>1. /\ m \in Seq(Run) /\ c.generatedIdCount \in Nat /\ c.nextRangeBase \in Nat \ {0}
        /\ c.localSessionId \in Sessions
    BY CompressorFields DEF Run
  <2> QED BY <2>1, SessionTypes
<1>2. n \in Nat /\ fields \in [1..n -> Seq(Int)] /\ Len(fields) = n
      /\ \A i \in 1..n : Len(fields[i]) = 2
  BY <1>1, RunFieldsTypes
<1>3. flat \in Seq(Int) /\ Len(flat) = n * 2
  <2> HIDE DEF fields, n
  <2>1. flat \in Seq(Int) /\ Core!FieldsFollow(flat, fields, n, 2)
    BY <1>2, FieldsFlatten
  <2> QED BY <2>1 DEF Core!FieldsFollow
<1>4. head \in Seq(Int) /\ Len(head) = 3
  <2> HIDE DEF fields, n
  <2> QED BY <1>1, <1>2
<1>5. head \o flat \in Seq(Int) /\ Len(head \o flat) = 3 + n * 2
  <2> HIDE DEF head, flat, n, fields
  <2>1. head \o flat \in Seq(Int) /\ Len(head \o flat) = Len(head) + Len(flat)
    BY <1>3, <1>4, JoinedLength
  <2> QED BY <1>3, <1>4, <2>1
<1>6. <<c.localSessionId>> \in Seq(Int) /\ Len(<<c.localSessionId>>) = 1
      /\ <<>> \in Seq(Int) /\ Len(<<>>) = 0
  BY <1>1
<1> HIDE DEF n
<1> QED BY <1>2, <1>5, <1>6 DEF LocalWords, OwnWords, n

LEMMA PartsAreAt ==
    ASSUME NEW c, Linking(c), c.sessionList # <<>>, NEW withSession \in BOOLEAN,
           NEW sessions, sessions = WrittenSessions(c, withSession),
           NEW t, t = FinalSpace(c), \A i \in 1..Len(t) : t[i].session \in Among(sessions),
           NEW words, words = Serialize(c, withSession),
           NEW own, own = 2 + (IF withSession THEN 1 ELSE 0),
           NEW at, at = own + 1 + Len(sessions)
                          + IF withSession THEN 3 + Len(c.normalizer) * 2 ELSE 0
    PROVE  /\ words \in Seq(Int) /\ own + 1 + Len(sessions) <= Len(words)
           /\ PartsAt(words, c, withSession, sessions, own, at)
<1> DEFINE fields == ClusterFields(c, sessions)
           flat == Seqs!FlattenSeq(fields)
           begin == <<1, Flag(withSession)>>
           owner == OwnWords(c, withSession)
           length == Len(sessions)
           local == LocalWords(c, withSession)
           sizes == <<c.clusterCapacity, Len(fields)>>
           n == Len(t)
<1>1. c \in Compressor /\ c.clusterCapacity \in Int
  <2>1. c \in Compressor /\ c.clusterCapacity \in Nat \ {0}
    BY CompressorFields DEF Linking
  <2> QED BY <2>1
<1>2. sessions \in Seq(Sessions) /\ sessions \in Seq(Int) /\ length \in Nat
  <2>1. \A delta : delta = IndexOffset(c, withSession) =>
           sessions \in Seq(Sessions) /\ sessions \in Seq(Int) /\ length \in Nat
    BY <1>1, WrittenAre
  <2> QED BY <2>1
<1>3. n \in Nat /\ fields \in [1..n -> Seq(Int)] /\ Len(fields) = n
      /\ \A i \in 1..n : Len(fields[i]) = 3
  <2>1. OwnersAmong(t, sessions, n)
    BY DEF OwnersAmong
  <2>2. Linking(c) /\ t = FinalSpace(c) /\ n = Len(t) /\ sessions \in Seq(Sessions)
        /\ fields = ClusterFields(c, sessions)
    BY <1>2
  <2> HIDE DEF n, fields
  <2>3. FieldsWritten(fields, t, sessions, n)
    BY ONLY <2>1, <2>2, ClusterFieldsTypes
  <2> QED BY ONLY <2>3 DEF FieldsWritten
<1>4. flat \in Seq(Int)
  <2> HIDE DEF fields, n
  <2> QED BY <1>3, FieldsFlatten
<1>5. /\ begin \in Seq(Int) /\ Len(begin) = 2
      /\ owner \in Seq(Int) /\ Len(owner) = own - 2 /\ own \in Int
      /\ <<length>> \in Seq(Int) /\ Len(<<length>>) = 1
      /\ sizes \in Seq(Int) /\ Len(sizes) = 2
      /\ local \in Seq(Int)
      /\ Len(local) = IF withSession THEN 3 + Len(c.normalizer) * 2 ELSE 0
  <2>1. Flag(withSession) \in Int
    BY DEF Flag
  <2>2. begin \in Seq(Int) /\ Len(begin) = 2
    BY <2>1
  <2>3. /\ owner \in Seq(Int) /\ Len(owner) = IF withSession THEN 1 ELSE 0
        /\ local \in Seq(Int)
        /\ Len(local) = IF withSession THEN 3 + Len(c.normalizer) * 2 ELSE 0
    BY <1>1, LocalWordsTypes
  <2> HIDE DEF fields, n, length, owner, local
  <2>4. sizes \in Seq(Int) /\ Len(sizes) = 2
    BY <1>1, <1>3
  <2>5. <<length>> \in Seq(Int) /\ Len(<<length>>) = 1
    BY <1>2
  <2> QED BY <2>2, <2>3, <2>4, <2>5
<1>6. words = begin \o owner \o <<length>> \o sessions \o local \o sizes \o flat
  BY SerializeParts
<1>7. at = own + 1 + length + Len(local) /\ at \in Int /\ Len(local) \in Nat
  <2> HIDE DEF local
  <2>1. at = own + 1 + length + Len(local)
    BY <1>5
  <2>2. Len(local) \in Nat
    BY <1>5
  <2>3. \A x, y, z \in Int : x + 1 + y + z \in Int
    OBVIOUS
  <2>4. own \in Int /\ length \in Int /\ Len(local) \in Int
    BY <1>2, <1>5, <2>2
  <2> HIDE DEF length
  <2> QED BY ONLY <2>1, <2>2, <2>3, <2>4
<1> DEFINE single == <<length>>
<1> HIDE DEF begin, owner, single, local, sizes, flat, length, fields
<1>8. /\ Core!StandsAt(words, 0, begin)
      /\ Core!StandsAt(words, Len(begin), owner)
      /\ Core!StandsAt(words, Len(begin) + Len(owner), single)
      /\ Core!StandsAt(words, Len(begin) + Len(owner) + Len(single), sessions)
      /\ Core!StandsAt(words, Len(begin) + Len(owner) + Len(single) + Len(sessions), local)
      /\ Core!StandsAt(words, Len(begin) + Len(owner) + Len(single) + Len(sessions) + Len(local), sizes)
      /\ Core!StandsAt(words, Len(begin) + Len(owner) + Len(single) + Len(sessions) + Len(local)
                                  + Len(sizes), flat)
  <2>1. words = begin \o owner \o single \o sessions \o local \o sizes \o flat
    BY <1>6 DEF single
  <2>2. single \in Seq(Int)
    BY <1>5 DEF single
  <2>3. /\ begin \in Seq(Int) /\ owner \in Seq(Int) /\ single \in Seq(Int)
        /\ sessions \in Seq(Int) /\ local \in Seq(Int) /\ sizes \in Seq(Int)
        /\ flat \in Seq(Int)
    BY <1>2, <1>4, <1>5, <2>2
  <2>4. SevenStand(words, begin, owner, single, sessions, local, sizes, flat)
    BY ONLY <2>1, <2>3, SevenParts
  <2> QED BY ONLY <2>4 DEF SevenStand
<1>9. /\ Len(begin) = 2
      /\ Len(begin) + Len(owner) = own
      /\ Len(begin) + Len(owner) + Len(single) = own + 1
      /\ Len(begin) + Len(owner) + Len(single) + Len(sessions) = own + 1 + Len(sessions)
      /\ Len(begin) + Len(owner) + Len(single) + Len(sessions) + Len(local) = at
      /\ Len(begin) + Len(owner) + Len(single) + Len(sessions) + Len(local) + Len(sizes) = at + 2
  BY <1>2, <1>5, <1>7 DEF single, length
<1>10. words \in Seq(Int) /\ own + 1 + Len(sessions) <= Len(words)
  <2>1. single \in Seq(Int)
    BY <1>5 DEF single
  <2>2. words = begin \o owner \o single \o sessions \o local \o sizes \o flat
    BY <1>6 DEF single
  <2>3. /\ begin \in Seq(Int) /\ owner \in Seq(Int) /\ single \in Seq(Int)
        /\ sessions \in Seq(Int) /\ local \in Seq(Int) /\ sizes \in Seq(Int)
        /\ flat \in Seq(Int)
    BY <1>2, <1>4, <1>5, <2>1
  <2>4. /\ words \in Seq(Int)
        /\ Len(begin) + Len(owner) + Len(single) + Len(sessions) <= Len(words)
    BY ONLY <2>2, <2>3, SevenJoined
  <2> QED BY ONLY <1>9, <2>4
<1>11. PartsAt(words, c, withSession, sessions, own, at)
  <2>1. /\ Core!StandsAt(words, 0, begin)
        /\ Core!StandsAt(words, 2, owner)
        /\ Core!StandsAt(words, own, single)
        /\ Core!StandsAt(words, own + 1, sessions)
        /\ Core!StandsAt(words, own + 1 + Len(sessions), local)
        /\ Core!StandsAt(words, at, sizes)
        /\ Core!StandsAt(words, at + 2, flat)
    BY ONLY <1>8, <1>9
  <2> QED BY <2>1 DEF PartsAt, begin, owner, single, length, local, sizes, flat, fields
<1> QED BY <1>10, <1>11

-----------------------------------------------------------------------------
(* What is read. *)

(* The sequence that stands behind a place. *)
LEMMA StandingIsRead ==
    ASSUME NEW words \in Seq(Int), NEW s \in Seq(Int), NEW i \in Nat, i + Len(s) <= Len(words),
           Core!StandsAt(words, i, s)
    PROVE  SubSeq(words, i + 1, i + Len(s)) = s
<1> DEFINE n == Len(s)
           u == SubSeq(words, i + 1, i + n)
           m == i + 1
           k == i + n
<1>1. n \in Nat /\ Len(words) \in Nat /\ s = [j \in 1..n |-> s[j]]
  OBVIOUS
<1>2. \A j \in 1..n : words[i + j] = s[j]
  BY DEF Core!StandsAt
<1>3. /\ u \in Seq(Int)
      /\ Len(u) = n
      /\ \A j \in 1..n : u[j] = words[i + j]
  <2> HIDE DEF n
  <2>1. m \in 1..(Len(words) + 1) /\ k \in (m - 1)..Len(words)
    BY <1>1 DEF n
  <2>2. (IF m <= k THEN k - m + 1 ELSE 0) = n /\ k - m + 1 = n
    BY <1>1
  <2>3. \A j \in Int : m + j - 1 = i + j
    OBVIOUS
  <2>4. u = SubSeq(words, m, k)
    OBVIOUS
  <2> HIDE DEF u, m, k
  <2>5. /\ SubSeq(words, m, k) \in Seq(Int)
        /\ Len(SubSeq(words, m, k)) = (IF m <= k THEN k - m + 1 ELSE 0)
        /\ \A j \in 1..(k - m + 1) : SubSeq(words, m, k)[j] = words[m + j - 1]
    BY <2>1, SubSeqProperties
  <2>6. ASSUME NEW j \in 1..n PROVE u[j] = words[i + j]
    <3>1. j \in 1..(k - m + 1) /\ j \in Int
      BY ONLY <1>1, <2>2, j \in 1..n
    <3>2. u[j] = words[m + j - 1]
      BY ONLY <2>4, <2>5, <3>1
    <3> QED BY ONLY <2>3, <3>1, <3>2
  <2> QED BY <2>2, <2>4, <2>5, <2>6
<1>4. u = [j \in 1..n |-> u[j]]
  <2> HIDE DEF u, n
  <2> QED BY <1>3
<1>5. \A j \in 1..n : u[j] = s[j]
  BY <1>2, <1>3
<1> HIDE DEF u, n
<1>6. u = s
  BY <1>1, <1>4, <1>5
<1> QED BY <1>6 DEF u, n

(* What stands where the reader looks for it. *)
PartsFound(words, c, withSession, sessions, own, n, p, at) ==
    /\ n \in Nat /\ p \in Nat /\ own \in {2, 3}
    /\ HasLocalState(words) = withSession
    /\ withSession => words[3] = c.localSessionId
    /\ SessionsAt(words) = own + 1
    /\ LocalAt(words) = own + 2 + n
    /\ ClustersAt(words) = at + 1
    /\ words[at + 1] = c.clusterCapacity
    /\ words[at + 2] = Len(ClusterFields(c, sessions))
    /\ withSession =>
          /\ words[own + 2 + n] = c.generatedIdCount
          /\ words[own + 3 + n] = c.nextRangeBase
          /\ words[own + 4 + n] = p
          /\ Core!StandsAt(words, own + 4 + n, Seqs!FlattenSeq(RunFields(c.normalizer)))

(* Where the reader looks for the parts is where they are
   (IdCompressor.ts:536-601).                                              *)
LEMMA PartsAreFound ==
    ASSUME NEW c \in Compressor, NEW withSession \in BOOLEAN, NEW sessions \in Seq(Sessions),
           NEW words, NEW own, own = 2 + (IF withSession THEN 1 ELSE 0),
           NEW n, n = Len(sessions), NEW p, p = Len(c.normalizer),
           NEW at, at = own + 1 + n + IF withSession THEN 3 + p * 2 ELSE 0,
           PartsAt(words, c, withSession, sessions, own, at)
    PROVE  PartsFound(words, c, withSession, sessions, own, n, p, at)
<1>1. n \in Nat /\ own \in {2, 3} /\ (own = 3 <=> withSession)
  <2>1. n \in Nat
    OBVIOUS
  <2> QED BY <2>1
<1>2. /\ c.normalizer \in Seq(Run) /\ c.generatedIdCount \in Int /\ c.nextRangeBase \in Int
      /\ p \in Nat
  <2>1. /\ c.normalizer \in Seq(Run) /\ c.generatedIdCount \in Nat /\ c.nextRangeBase \in Nat \ {0}
    BY CompressorFields DEF Run
  <2> QED BY <2>1, RunsTypes
<1> DEFINE fields == RunFields(c.normalizer)
           flat == Seqs!FlattenSeq(fields)
           sizes == Len(ClusterFields(c, sessions))
<1>3. Len(fields) = p /\ flat \in Seq(Int)
  <2>1. p \in Nat /\ fields \in [1..p -> Seq(Int)] /\ Len(fields) = p
        /\ \A i \in 1..p : Len(fields[i]) = 2
    BY <1>2, RunFieldsTypes
  <2> HIDE DEF fields
  <2>2. flat \in Seq(Int)
    BY <2>1, FieldsFlatten
  <2> QED BY <2>1, <2>2
<1>4. HasLocalState(words) = withSession
  <2>1. words[0 + 2] = Flag(withSession)
    BY DEF PartsAt, Core!StandsAt
  <2>2. words[2] = Flag(withSession)
    BY <2>1
  <2> QED BY <2>2 DEF HasLocalState, Flag
<1>5. ASSUME NEW i \in Int, NEW x, Core!StandsAt(words, i, <<x>>)
      PROVE  words[i + 1] = x
  BY <1>5 DEF Core!StandsAt
<1>6. withSession => words[3] = c.localSessionId
  <2>1. withSession => Core!StandsAt(words, 2, <<c.localSessionId>>)
    BY DEF PartsAt, OwnWords
  <2>2. withSession => words[2 + 1] = c.localSessionId
    BY <1>5, <2>1
  <2> QED BY <2>2
<1>7. words[own + 1] = n
  BY <1>1, <1>5 DEF PartsAt
<1>8. SessionsAt(words) = own + 1 /\ LocalAt(words) = own + 2 + n
  BY <1>1, <1>4, <1>7 DEF SessionsAt, LocalAt
<1>9. words[at + 1] = c.clusterCapacity /\ words[at + 2] = sizes
  <2>1. Core!StandsAt(words, at, <<c.clusterCapacity, sizes>>)
    BY DEF PartsAt
  <2>2. ASSUME NEW i, NEW x, NEW y, Core!StandsAt(words, i, <<x, y>>)
        PROVE  words[i + 1] = x /\ words[i + 2] = y
    BY <2>2 DEF Core!StandsAt
  <2> QED BY <2>1, <2>2
<1>10. ASSUME withSession
       PROVE  /\ words[own + 2 + n] = c.generatedIdCount
              /\ words[own + 3 + n] = c.nextRangeBase
              /\ words[own + 4 + n] = p
              /\ Core!StandsAt(words, own + 4 + n, flat)
  <2> DEFINE i == own + 1 + n
             j == own + 4 + n
             head == <<c.generatedIdCount, c.nextRangeBase, Len(fields)>>
  <2>1. Core!StandsAt(words, i, head \o flat)
    BY <1>10 DEF PartsAt, LocalWords
  <2>2. head \in Seq(Int) /\ Len(head) = 3
    <3> HIDE DEF fields
    <3> QED BY <1>2, <1>3
  <2>3. i \in Nat /\ j = i + Len(head)
    <3> HIDE DEF head
    <3> QED BY <1>1, <2>2
  <2>4. Core!StandsAt(words, i, head) /\ Core!StandsAt(words, j, flat)
    <3> HIDE DEF i, j, head, flat, fields
    <3> QED BY ONLY <1>3, <2>1, <2>2, <2>3, Constants, Core!PartsStand
  <2>5. words[i + 1] = c.generatedIdCount /\ words[i + 2] = c.nextRangeBase /\ words[i + 3] = p
    <3> HIDE DEF i, fields
    <3> QED BY <1>3, <2>4 DEF Core!StandsAt
  <2>6. i + 1 = own + 2 + n /\ i + 2 = own + 3 + n /\ i + 3 = own + 4 + n
    BY <1>1
  <2> QED BY <2>4, <2>5, <2>6
<1>11. ClustersAt(words) = at + 1
  <2>1. CASE withSession
    <3>1. own + 2 + n + 2 = own + 4 + n /\ own + 2 + n + 3 + 2 * p = at + 1
      <4>1. at = own + 1 + n + (3 + p * 2)
        BY <2>1
      <4>2. \A x, y, z \in Int : /\ x + 2 + y + 2 = x + 4 + y
                                /\ x + 2 + y + 3 + 2 * z = (x + 1 + y + (3 + z * 2)) + 1
        OBVIOUS
      <4>3. own \in Int /\ n \in Int /\ p \in Int
        BY <1>1, <1>2
      <4> QED BY ONLY <4>1, <4>2, <4>3
    <3> QED BY <1>4, <1>8, <1>10, <2>1, <3>1 DEF ClustersAt
  <2>2. CASE ~withSession
    <3>1. own + 2 + n = at + 1
      BY <1>1, <2>2
    <3> QED BY <1>4, <1>8, <2>2, <3>1 DEF ClustersAt
  <2> QED BY <2>1, <2>2
<1> QED BY <1>1, <1>2, <1>4, <1>6, <1>8, <1>9, <1>10, <1>11 DEF PartsFound

(* The words behind place at give k as the i-th cluster. *)
ClusterReads(words, sessions, at, i, k) ==
    /\ sessions[words[at + 3 * i - 1] + 1] = k.session
    /\ words[at + 3 * i - 1] \in Nat
    /\ words[at + 3 * i - 1] + 1 \in DOMAIN sessions
    /\ words[at + 3 * i] = k.capacity
    /\ words[at + 3 * i + 1] = k.count

(* What the reader finds of the compressor c in the words. *)
ReadsAs(words, c, withSession, sessions, t) ==
    LET at == ClustersAt(words)
    IN  /\ HasLocalState(words) = withSession
        /\ WrittenList(words) = sessions
        /\ words[at] = c.clusterCapacity
        /\ words[at + 1] = Len(t)
        /\ \A i \in 1..Len(t) : ClusterReads(words, sessions, at, i, t[i])
        /\ withSession =>
              /\ words[3] = c.localSessionId
              /\ words[LocalAt(words)] = c.generatedIdCount
              /\ words[LocalAt(words) + 1] = c.nextRangeBase
              /\ LoadedNormalizer(words) = c.normalizer

LEMMA ClustersRead ==
    ASSUME NEW c, Linking(c), NEW sessions \in Seq(Sessions), NEW t, t = FinalSpace(c),
           \A i \in 1..Len(t) : t[i].session \in Among(sessions),
           NEW words, NEW at \in Nat, NEW next, next = at + 1,
           Core!StandsAt(words, next, Seqs!FlattenSeq(ClusterFields(c, sessions))),
           NEW i \in 1..Len(t)
    PROVE  ClusterReads(words, sessions, at, i, t[i])
<1> DEFINE fields == ClusterFields(c, sessions)
           place == PlaceIn(sessions, t[i].session)
           n == Len(t)
           m == next + (i - 1) * 3
<1>1. /\ n \in Nat /\ fields \in [1..n -> Seq(Int)]
      /\ \A j \in 1..n : /\ Len(fields[j]) = 3
                         /\ fields[j][1] = PlaceIn(sessions, t[j].session) - 1
                         /\ fields[j][2] = t[j].capacity /\ fields[j][3] = t[j].count
  <2>1. /\ Linking(c) /\ sessions \in Seq(Sessions) /\ t = FinalSpace(c)
        /\ OwnersAmong(t, sessions, n)
        /\ n = Len(t) /\ fields = ClusterFields(c, sessions)
    BY DEF OwnersAmong
  <2> HIDE DEF fields, n
  <2>2. FieldsWritten(fields, t, sessions, n)
    BY ONLY <2>1, ClusterFieldsTypes
  <2> QED BY ONLY <2>2 DEF FieldsWritten
<1>2. Len(fields[i]) = 3 /\ fields[i][1] = place - 1
      /\ fields[i][2] = t[i].capacity /\ fields[i][3] = t[i].count
  <2> HIDE DEF fields
  <2> QED BY <1>1
<1>3. place \in DOMAIN sessions /\ sessions[place] = t[i].session /\ place \in Int
  <2>1. t[i].session \in Among(sessions)
    OBVIOUS
  <2> QED BY <2>1, PlaceFound
<1>4. place - 1 \in Nat /\ (place - 1) + 1 = place
  <2>1. DOMAIN sessions = 1..Len(sessions)
    OBVIOUS
  <2> HIDE DEF place
  <2> QED BY <1>3, <2>1
<1>5. Core!StandsAt(words, m, fields[i])
  <2>1. Core!StandsAt(words, next, Seqs!FlattenSeq(fields)) /\ next \in Nat /\ i \in 1..n
    OBVIOUS
  <2> HIDE DEF fields, n
  <2>2. \A x : x = next + (i - 1) * 3 => Core!StandsAt(words, x, fields[i])
    BY <1>1, <2>1, FieldStands
  <2> QED BY <2>2
<1>6. m + 1 = at + 3 * i - 1 /\ m + 2 = at + 3 * i /\ m + 3 = at + 3 * i + 1
  <2>1. \A x, y \in Int : /\ (x + 1 + (y - 1) * 3) + 1 = x + 3 * y - 1
                          /\ (x + 1 + (y - 1) * 3) + 2 = x + 3 * y
                          /\ (x + 1 + (y - 1) * 3) + 3 = x + 3 * y + 1
    OBVIOUS
  <2>2. at \in Int /\ i \in Int
    BY <1>1
  <2> QED BY <2>1, <2>2
<1> HIDE DEF m, fields, place
<1>7. words[m + 1] = place - 1 /\ words[m + 2] = t[i].capacity /\ words[m + 3] = t[i].count
  <2>1. 1 \in 1..3 /\ 2 \in 1..3 /\ 3 \in 1..3
    OBVIOUS
  <2> QED BY <1>2, <1>5, <2>1 DEF Core!StandsAt
<1> QED BY <1>3, <1>4, <1>6, <1>7 DEF ClusterReads

LEMMA RunsRead ==
    ASSUME NEW m \in Seq(Run), Gapped(m), NEW words, NEW at \in Nat, at = LocalAt(words) + 2,
           words[at] = Len(m), Core!StandsAt(words, at, Seqs!FlattenSeq(RunFields(m)))
    PROVE  LoadedNormalizer(words) = m
<1> DEFINE n == Len(m)
           fields == RunFields(m)
<1>1. /\ n \in Nat /\ fields \in [1..n -> Seq(Int)]
      /\ \A i \in 1..n : Len(fields[i]) = 2
      /\ \A i \in 1..n : fields[i][1] = -m[i].key /\ fields[i][2] = m[i].value
  BY RunFieldsTypes
<1>2. ASSUME NEW i \in 1..n
      PROVE  -words[at + 2 * i - 1] = m[i].key /\ words[at + 2 * i] = m[i].value
  <2> DEFINE x == at + (i - 1) * 2
  <2>1. Core!StandsAt(words, x, fields[i])
    <3>1. Core!StandsAt(words, at, Seqs!FlattenSeq(fields))
      OBVIOUS
    <3> HIDE DEF fields, n
    <3>2. \A y : y = at + (i - 1) * 2 => Core!StandsAt(words, y, fields[i])
      BY <1>1, <3>1, FieldStands
    <3> QED BY <3>2
  <2>2. x + 1 = at + 2 * i - 1 /\ x + 2 = at + 2 * i
    <3>1. \A a, b \in Int : /\ (a + (b - 1) * 2) + 1 = a + 2 * b - 1
                            /\ (a + (b - 1) * 2) + 2 = a + 2 * b
      OBVIOUS
    <3>2. at \in Int /\ i \in Int
      BY <1>1
    <3> QED BY <3>1, <3>2
  <2>3. m[i].key \in Int
    <3>1. m[i] \in Run
      BY RunsTypes
    <3> QED BY <3>1, RunTypes
  <2> HIDE DEF x, fields
  <2>4. words[x + 1] = -m[i].key /\ words[x + 2] = m[i].value
    <3>1. 1 \in 1..2 /\ 2 \in 1..2
      OBVIOUS
    <3> QED BY <1>1, <2>1, <3>1 DEF Core!StandsAt
  <2>5. \A y \in Int : -(-y) = y
    OBVIOUS
  <2> QED BY <2>2, <2>3, <2>4, <2>5
<1> QED BY <1>2, NormalizerLoads

LEMMA WordsRead ==
    ASSUME NEW c, Linking(c), c.sessionList # <<>>, Gapped(c.normalizer),
           NEW withSession \in BOOLEAN,
           NEW sessions, sessions = WrittenSessions(c, withSession),
           NEW t, t = FinalSpace(c), \A i \in 1..Len(t) : t[i].session \in Among(sessions),
           NEW words, words = Serialize(c, withSession)
    PROVE  ReadsAs(words, c, withSession, sessions, t)
<1> DEFINE own == 2 + (IF withSession THEN 1 ELSE 0)
           n == Len(sessions)
           p == Len(c.normalizer)
           start == own + 1 + n + IF withSession THEN 3 + p * 2 ELSE 0
           at == start + 1
<1>1. c \in Compressor /\ c.normalizer \in Seq(Run)
  BY CompressorFields DEF Linking, Run
<1>2. sessions \in Seq(Sessions) /\ sessions \in Seq(Int) /\ n \in Nat
  <2>1. \A delta : delta = IndexOffset(c, withSession) =>
           sessions \in Seq(Sessions) /\ sessions \in Seq(Int) /\ n \in Nat
    BY <1>1, WrittenAre
  <2> QED BY <2>1
<1>3. /\ words \in Seq(Int) /\ own + 1 + n <= Len(words)
      /\ PartsAt(words, c, withSession, sessions, own, start)
  <2>1. \A x, y : x = own /\ y = start =>
           /\ words \in Seq(Int) /\ x + 1 + n <= Len(words)
           /\ PartsAt(words, c, withSession, sessions, x, y)
    BY PartsAreAt
  <2> HIDE DEF own, start
  <2> QED BY <2>1
<1>4. /\ p \in Nat /\ own \in {2, 3}
      /\ HasLocalState(words) = withSession
      /\ withSession => words[3] = c.localSessionId
      /\ SessionsAt(words) = own + 1
      /\ LocalAt(words) = own + 2 + n
      /\ ClustersAt(words) = at
      /\ words[at] = c.clusterCapacity
      /\ words[start + 2] = Len(ClusterFields(c, sessions))
      /\ withSession =>
            /\ words[own + 2 + n] = c.generatedIdCount
            /\ words[own + 3 + n] = c.nextRangeBase
            /\ words[own + 4 + n] = p
            /\ Core!StandsAt(words, own + 4 + n, Seqs!FlattenSeq(RunFields(c.normalizer)))
  <2>1. own = 2 + (IF withSession THEN 1 ELSE 0) /\ n = Len(sessions) /\ p = Len(c.normalizer)
        /\ start = own + 1 + n + IF withSession THEN 3 + p * 2 ELSE 0
    OBVIOUS
  <2> HIDE DEF start, own, n, p
  <2>2. PartsFound(words, c, withSession, sessions, own, n, p, start)
    BY ONLY <1>1, <1>2, <1>3, <2>1, withSession \in BOOLEAN, PartsAreFound
  <2> QED BY <2>2 DEF PartsFound
<1>5. start \in Nat
  <2>1. start = own + 1 + n + IF withSession THEN 3 + p * 2 ELSE 0
    OBVIOUS
  <2>2. own \in Nat /\ n \in Nat /\ p \in Nat
    BY <1>2, <1>4
  <2>3. \A x, y, z \in Nat : /\ x + 1 + y + (3 + z * 2) \in Nat
                            /\ x + 1 + y + 0 \in Nat
    OBVIOUS
  <2> HIDE DEF start, own, n, p
  <2> QED BY ONLY <2>1, <2>2, <2>3
<1>6. WrittenList(words) = sessions
  <2> DEFINE i == own + 1
  <2>1. i \in Nat /\ SessionsAt(words) + 1 = i + 1 /\ LocalAt(words) - 1 = i + n
    BY <1>2, <1>4
  <2>2. Core!StandsAt(words, i, sessions) /\ i + n <= Len(words)
    BY <1>3 DEF PartsAt
  <2>3. SubSeq(words, i + 1, i + n) = sessions
    <3> HIDE DEF i
    <3> QED BY <1>2, <1>3, <2>1, <2>2, StandingIsRead
  <2> QED BY <2>1, <2>3 DEF WrittenList
<1>7. words[at + 1] = Len(t)
  <2>1. Len(ClusterFields(c, sessions)) = Len(t)
    <3>1. OwnersAmong(t, sessions, Len(t))
      BY DEF OwnersAmong
    <3>2. Linking(c) /\ t = FinalSpace(c) /\ sessions \in Seq(Sessions)
      BY <1>2
    <3>3. FieldsWritten(ClusterFields(c, sessions), t, sessions, Len(t))
      BY ONLY <3>1, <3>2, ClusterFieldsTypes
    <3> QED BY <3>3 DEF FieldsWritten
  <2>2. at + 1 = start + 2
    <3> HIDE DEF start
    <3> QED BY <1>5
  <2> QED BY <1>4, <2>1, <2>2
<1>8. ASSUME NEW i \in 1..Len(t)
      PROVE  ClusterReads(words, sessions, at, i, t[i])
  <2> DEFINE next == start + 2
  <2>1. at \in Nat /\ next = at + 1
    <3> HIDE DEF start
    <3> QED BY <1>5
  <2>2. Core!StandsAt(words, next, Seqs!FlattenSeq(ClusterFields(c, sessions)))
    BY <1>3 DEF PartsAt
  <2>3. \A j \in 1..Len(t) : t[j].session \in Among(sessions)
    OBVIOUS
  <2> HIDE DEF next, at
  <2> QED BY ONLY Linking(c), <1>2, t = FinalSpace(c), <2>3, <2>1, <2>2, i \in 1..Len(t),
                  ClustersRead
<1>9. ASSUME withSession
      PROVE  /\ words[LocalAt(words)] = c.generatedIdCount
             /\ words[LocalAt(words) + 1] = c.nextRangeBase
             /\ LoadedNormalizer(words) = c.normalizer
  <2> DEFINE x == own + 4 + n
  <2>1. x \in Nat /\ x = LocalAt(words) + 2 /\ own + 3 + n = LocalAt(words) + 1
    BY <1>2, <1>4
  <2>2. words[x] = Len(c.normalizer)
        /\ Core!StandsAt(words, x, Seqs!FlattenSeq(RunFields(c.normalizer)))
    BY <1>4, <1>9
  <2>3. LoadedNormalizer(words) = c.normalizer
    <3> HIDE DEF x
    <3> QED BY <1>1, <2>1, <2>2, RunsRead
  <2> QED BY <1>4, <1>9, <2>1, <2>3
<1> HIDE DEF at, start, n, own
<1> QED BY <1>4, <1>6, <1>7, <1>8, <1>9 DEF ReadsAs

-----------------------------------------------------------------------------
(* What is resumed. *)

(* What a compressor that is written has to be. *)
Sound(c) ==
    /\ Linking(c)
    /\ Core!TableInv(FinalSpace(c))
    /\ c.sessionList # <<>> /\ c.sessionList[1] = c.localSessionId
    /\ Core!Distinct(c.sessionList)
    /\ \A i \in DOMAIN FinalSpace(c) : FinalSpace(c)[i].session \in Known(c)
    /\ Core!NextBase(FinalSpace(c), c.localSessionId) <= c.generatedIdCount + 1
    /\ Gapped(c.normalizer)

LEMMA InvSound ==
    ASSUME RewriteInv
    PROVE  Sound(rewrite)
<1> DEFINE a == Abstraction(rewrite)
<1>1. Linking(rewrite) /\ Core!CompressorInv(a) /\ RunsHold(rewrite.normalizer, IssuedLocals)
  BY InvFacts
<1>2. /\ a.sessionId = rewrite.localSessionId /\ a.sessions = rewrite.sessionList
      /\ a.generatedIdCount = rewrite.generatedIdCount /\ a.clusters = FinalSpace(rewrite)
  BY AbstractionFields
<1>3. Known(rewrite) = Core!Known(a)
  BY <1>2 DEF Known, Core!Known, Core!Elements
<1> HIDE DEF a
<1>4. /\ Core!TableInv(a.clusters)
      /\ a.sessions # <<>> /\ a.sessions[1] = a.sessionId /\ Core!Distinct(a.sessions)
      /\ \A i \in DOMAIN a.clusters : a.clusters[i].session \in Core!Known(a)
      /\ Core!NextBase(a.clusters, a.sessionId) <= a.generatedIdCount + 1
  BY <1>1 DEF Core!CompressorInv
<1>5. Gapped(rewrite.normalizer)
  BY <1>1 DEF RunsHold, Gapped
<1> QED BY <1>1, <1>2, <1>3, <1>4, <1>5 DEF Sound

(* A session that has finalized nothing has no cluster. *)
LEMMA NothingGenerated ==
    ASSUME NEW t, Core!TableInv(t), NEW s \in Sessions, Core!NextBase(t, s) <= 1
    PROVE  \A i \in DOMAIN t : t[i].session # s
<1> SUFFICES ASSUME NEW i \in DOMAIN t, t[i].session = s PROVE FALSE
  OBVIOUS
<1>1. t \in Seq(Core!Cluster) /\ i \in Core!Chain(t, s)
  BY DEF Core!TableInv, Core!Chain
<1>2. /\ Core!GenCount(Core!MaxLocal(t[i])) \in Int
      /\ Core!GenCount(Core!MaxLocal(t[i])) < Core!NextBase(t, s)
  BY <1>1, Constants, Core!FinalizedBelowNext
<1>3. Core!GenCount(Core!MaxLocal(t[i])) >= 1
  <2>1. t[i].baseLocal \in Int /\ t[i].baseLocal < 0 /\ t[i].count \in Nat /\ t[i].count > 0
    BY <1>1, Constants, Core!TableTypes
  <2> QED BY <2>1 DEF Core!GenCount, Core!MaxLocal
<1>4. Core!NextBase(t, s) \in Nat
  BY Constants, Core!NextBaseType
<1> QED BY <1>2, <1>3, <1>4

(* The sessions of all clusters are written. *)
LEMMA AllAreWritten ==
    ASSUME NEW c, Sound(c), NEW withSession \in BOOLEAN,
           NEW sessions, sessions = WrittenSessions(c, withSession), NEW t, t = FinalSpace(c)
    PROVE  /\ sessions \in Seq(Sessions) /\ DOMAIN sessions = 1..Len(sessions) /\ Len(sessions) \in Nat
           /\ \A i \in 1..Len(t) : t[i].session \in Among(sessions)
           /\ \A i, j \in DOMAIN sessions : sessions[i] = sessions[j] => i = j
           /\ withSession => sessions = c.sessionList
<1> DEFINE all == c.sessionList
           n == Len(all)
           delta == IndexOffset(c, withSession)
           m == Len(sessions)
<1>1. /\ c \in Compressor /\ all \in Seq(Sessions) /\ all # <<>> /\ all[1] = c.localSessionId
      /\ c.localSessionId \in Sessions /\ c.generatedIdCount \in Nat
  BY CompressorFields DEF Sound, Linking
<1>2. /\ delta \in {0, 1} /\ (delta = 1 <=> ~withSession /\ c.generatedIdCount = 0)
      /\ sessions \in Seq(Sessions)
      /\ m = n - delta /\ m \in Nat /\ DOMAIN sessions = 1..m
      /\ \A i \in 1..m : sessions[i] = all[i + delta]
  <2>1. \A x : x = delta =>
           /\ x \in {0, 1} /\ (x = 1 <=> ~withSession /\ c.generatedIdCount = 0)
           /\ sessions \in Seq(Sessions)
           /\ m = n - x /\ m \in Nat /\ DOMAIN sessions = 1..m
           /\ \A i \in 1..(n - x) : sessions[i] = all[i + x]
    BY <1>1, WrittenAre
  <2> HIDE DEF delta, n, m, all
  <2> QED BY <2>1
<1>3. n \in Nat /\ DOMAIN all = 1..n
  BY <1>1
<1>4. \A i, j \in 1..n : all[i] = all[j] => i = j
  BY <1>3 DEF Sound, Core!Distinct
<1>5. DOMAIN t = 1..Len(t) /\ \A i \in 1..Len(t) : t[i].session \in Known(c)
  <2>1. Linking(c)
    BY DEF Sound
  <2>2. \A k : k = Len(c.clusterList) => DOMAIN t = 1..k /\ Len(t) = k
    BY <2>1, SpaceIsTable
  <2> QED BY <2>2 DEF Sound
<1>6. delta = 1 => \A i \in 1..Len(t) : t[i].session # c.localSessionId
  <2>1. ASSUME delta = 1 PROVE Core!NextBase(t, c.localSessionId) <= 1
    BY <1>2, <2>1 DEF Sound
  <2> QED BY <1>1, <1>5, <2>1, NothingGenerated DEF Sound
<1> HIDE DEF delta, n, m, all
<1>7. ASSUME NEW i \in 1..Len(t) PROVE t[i].session \in Among(sessions)
  <2>1. PICK j \in 1..n : all[j] = t[i].session
    BY <1>3, <1>5 DEF Known, all
  <2>2. delta = 1 => j # 1
    BY <1>1, <1>6, <2>1
  <2>3. j - delta \in 1..m /\ (j - delta) + delta = j
    BY <1>2, <1>3, <2>1, <2>2
  <2>4. sessions[j - delta] = all[j]
    BY <1>2, <2>3
  <2> QED BY <1>2, <2>1, <2>3, <2>4 DEF Among
<1>8. ASSUME NEW i \in 1..m, NEW j \in 1..m, sessions[i] = sessions[j] PROVE i = j
  <2>1. i + delta \in 1..n /\ j + delta \in 1..n
    BY <1>2, <1>3
  <2>2. all[i + delta] = all[j + delta]
    BY <1>2, <1>8
  <2>3. i + delta = j + delta
    BY <1>4, <2>1, <2>2
  <2> QED BY <1>2, <2>3
<1>9. ASSUME withSession PROVE sessions = all
  <2>1. delta = 0 /\ m = n
    BY <1>2, <1>3, <1>9
  <2>2. \A i \in 1..m : sessions[i] = all[i]
    <3>1. \A i \in 1..m : i + 0 = i
      OBVIOUS
    <3> QED BY <1>2, <2>1, <3>1
  <2>3. sessions = [i \in 1..m |-> sessions[i]]
    BY <1>2
  <2>4. all = [i \in 1..n |-> all[i]]
    BY <1>1, <1>3
  <2> QED BY <2>1, <2>2, <2>3, <2>4
<1> QED BY <1>2, <1>7, <1>8, <1>9 DEF all, m

(* A compressor without clusters has loaded none. *)
LEMMA NoneLoaded ==
    ASSUME NEW c \in Compressor, c.clusterList = <<>>, \A s \in Sessions : c.chains[s] = <<>>,
           NEW t
    PROVE  LoadedTo(c, c, t, 0)
<1>1. DOMAIN <<>> = {}
  OBVIOUS
<1>2. Linked(c)
  BY <1>1 DEF Linked
<1>3. FinalSpace(c) = Core!Prefix(t, 0)
  <2>1. FinalSpace(c) = [i \in {} |-> c.chains[c.clusterList[i].session][c.clusterList[i].place]]
    BY <1>1 DEF FinalSpace
  <2>2. Core!Prefix(t, 0) = [i \in {} |-> t[i]]
    <3>1. 1..0 = {}
      OBVIOUS
    <3> QED BY <3>1 DEF Core!Prefix
  <2> QED BY <2>1, <2>2
<1> QED BY <1>2, <1>3 DEF LoadedTo, Linking, SameShell

(* The sessions and the compressor without clusters that loading begins with. *)
Begins(words, given, own, sessions, offset, at, base) ==
    /\ own = IF HasLocalState(words) THEN words[3] ELSE CHOOSE s \in given : TRUE
    /\ sessions = LoadedSessions(words, own)
    /\ offset = Flag(~HasLocalState(words))
    /\ at = ClustersAt(words)
    /\ base = LoadLocal([Create(own) EXCEPT !.sessionList = sessions,
                                            !.clusterCapacity = words[at]], words)

(* What is read is loaded, if a session is given where none was written, and
   none is listed twice (IdCompressor.ts:536-603).                         *)
LEMMA DeserializeLoads ==
    ASSUME NEW words, NEW given, NEW t, Core!TableInv(t), NEW own, NEW sessions, NEW offset,
           NEW at, NEW base, Begins(words, given, own, sessions, offset, at, base),
           LoadedTo(base, base, t, 0),
           NamesClusters(words, sessions, at, offset, t),
           HasLocalState(words) # (given # {}),
           \A i, j \in DOMAIN sessions : sessions[i] = sessions[j] => i = j
    PROVE  \E c : Deserialize(words, given) = {c} /\ LoadedTo(c, base, t, Len(t))
<1> DEFINE c == LoadedClusters(base, words, sessions, at, offset)
<1>1. LoadedTo(c, base, t, Len(t))
  BY ClustersLoad
<1>2. Deserialize(words, given) = {c}
  <2>1. Deserialize(words, given) =
           IF \/ HasLocalState(words) = (given # {})
              \/ \E i, j \in DOMAIN sessions : i # j /\ sessions[i] = sessions[j]
           THEN {}
           ELSE {c}
    BY DEF Deserialize, LoadedClusters, Begins
  <2> HIDE DEF c
  <2> QED BY <2>1
<1> HIDE DEF c
<1> QED BY <1>1, <1>2

(* A compressor is what its fields are. *)
LEMMA SameRecord ==
    ASSUME NEW c \in Compressor, NEW d \in Compressor, SameShell(c, d),
           c.chains = d.chains, c.clusterList = d.clusterList
    PROVE  c = d
<1> DEFINE names == {"localSessionId", "generatedIdCount", "nextRangeBase", "clusterCapacity",
                     "sessionList", "chains", "clusterList", "normalizer"}
<1>1. DOMAIN c = names /\ c = [f \in DOMAIN c |-> c[f]]
  BY DEF Compressor
<1>2. DOMAIN d = names /\ d = [f \in DOMAIN d |-> d[f]]
  BY DEF Compressor
<1>3. \A f \in names : c[f] = d[f]
  BY DEF SameShell
<1> QED BY <1>1, <1>2, <1>3

(* All clusters are those there were, in the same chains. *)
LEMMA LoadedIsSame ==
    ASSUME NEW c, Linking(c), NEW t, t = FinalSpace(c), Core!TableInv(t),
           NEW base, NEW d, LoadedTo(d, base, t, Len(t))
    PROVE  /\ d.chains = c.chains /\ d.clusterList = c.clusterList
           /\ d \in Compressor /\ SameShell(base, d)
<1>1. Core!Prefix(t, Len(t)) = t
  <2> DEFINE S == Core!Cluster
             n == Len(t)
  <2>1. t \in Seq(S)
    BY DEF Core!TableInv
  <2> HIDE DEF S
  <2>2. t = [i \in 1..n |-> t[i]]
    BY <2>1
  <2> QED BY <2>2 DEF Core!Prefix
<1>2. Linking(d) /\ SameShell(base, d) /\ FinalSpace(c) = FinalSpace(d)
  BY <1>1 DEF LoadedTo
<1>3. c.clusterList = d.clusterList /\ c.chains = d.chains
  BY ONLY Linking(c), <1>2, LinkingUnique
<1> QED BY <1>2, <1>3 DEF Linking

(* The compressor without its clusters. *)
Shell(own, sessions, capacity) ==
    [Create(own) EXCEPT !.sessionList = sessions, !.clusterCapacity = capacity]

LEMMA ShellFields ==
    ASSUME NEW own \in Sessions, NEW sessions \in Seq(Sessions), NEW capacity \in Nat \ {0},
           NEW c, c = Shell(own, sessions, capacity)
    PROVE  /\ c \in Compressor
           /\ c.clusterList = <<>> /\ \A s \in Sessions : c.chains[s] = <<>>
           /\ c.localSessionId = own /\ c.clusterCapacity = capacity /\ c.sessionList = sessions
<1> DEFINE R == [session : Sessions, place : Nat \ {0}]
           K == IdCluster
           M == Run
           none == [o \in Sessions |-> <<>>]
<1>1. none \in [Sessions -> Seq(K)] /\ <<>> \in Seq(R) /\ <<>> \in Seq(M)
  <2> HIDE DEF R, K, M
  <2>1. <<>> \in Seq(K) /\ <<>> \in Seq(R) /\ <<>> \in Seq(M)
    OBVIOUS
  <2> QED BY <2>1
<1>2. c = [localSessionId |-> own, generatedIdCount |-> 0, nextRangeBase |-> 1,
           clusterCapacity |-> capacity, sessionList |-> sessions, chains |-> none,
           clusterList |-> <<>>, normalizer |-> <<>>]
  BY DEF Shell, Create
<1>3. \A s \in Sessions : none[s] = <<>>
  OBVIOUS
<1> HIDE DEF none
<1>4. c \in Compressor
  BY <1>1, <1>2 DEF Compressor, Run
<1> QED BY <1>2, <1>3, <1>4

(* The compressor with its local state. *)
Local(c, generated, next, m) ==
    [c EXCEPT !.generatedIdCount = generated, !.nextRangeBase = next, !.normalizer = m]

LEMMA WithLocal ==
    ASSUME NEW c \in Compressor, NEW generated \in Nat, NEW next \in Nat \ {0}, NEW m \in Seq(Run),
           NEW d, d = Local(c, generated, next, m)
    PROVE  /\ d \in Compressor
           /\ d.clusterList = c.clusterList /\ d.chains = c.chains
           /\ d.localSessionId = c.localSessionId /\ d.clusterCapacity = c.clusterCapacity
           /\ d.sessionList = c.sessionList
           /\ d.generatedIdCount = generated /\ d.nextRangeBase = next /\ d.normalizer = m
<1> DEFINE M == [key : {i \in Int : i < 0}, value : Nat \ {0}]
           K == Seq(IdCluster)
           L == Seq([session : Sessions, place : Nat \ {0}])
<1>1. m \in Seq(M)
  BY DEF Run
<1>2. c \in [localSessionId : Sessions, generatedIdCount : Nat, nextRangeBase : Nat \ {0},
             clusterCapacity : Nat \ {0}, sessionList : Seq(Sessions), chains : [Sessions -> K],
             clusterList : L, normalizer : Seq(M)]
  BY DEF Compressor
<1> HIDE DEF M, K, L
<1> USE DEF Local
<1>3. d \in [localSessionId : Sessions, generatedIdCount : Nat, nextRangeBase : Nat \ {0},
             clusterCapacity : Nat \ {0}, sessionList : Seq(Sessions), chains : [Sessions -> K],
             clusterList : L, normalizer : Seq(M)]
  BY <1>1, <1>2
<1>4. d \in Compressor
  BY <1>3 DEF Compressor, M, K, L
<1> QED BY <1>2, <1>4

(* A compressor that resumes from its own words is the one that wrote them. *)
LEMMA Resumes ==
    ASSUME NEW c, Sound(c)
    PROVE  Deserialize(Serialize(c, TRUE), {}) = {c}
<1> DEFINE yes == TRUE
           words == Serialize(c, yes)
           sessions == WrittenSessions(c, yes)
           t == FinalSpace(c)
           own == IF HasLocalState(words) THEN words[3] ELSE CHOOSE s \in {} : TRUE
           list == LoadedSessions(words, own)
           offset == Flag(~HasLocalState(words))
           at == ClustersAt(words)
           shell == Shell(own, list, words[at])
           base == LoadLocal(shell, words)
<1>1. /\ Linking(c) /\ c \in Compressor /\ Core!TableInv(t) /\ c.sessionList # <<>>
      /\ Gapped(c.normalizer) /\ Len(t) \in Nat
  BY DEF Sound, Linking, Core!TableInv
<1>2. yes \in BOOLEAN
  OBVIOUS
<1>3. /\ sessions = c.sessionList
      /\ \A i \in 1..Len(t) : t[i].session \in Among(sessions)
      /\ \A i, j \in DOMAIN sessions : sessions[i] = sessions[j] => i = j
  BY AllAreWritten
<1>4. ReadsAs(words, c, yes, sessions, t)
  <2> HIDE DEF yes
  <2> QED BY ONLY <1>1, <1>2, <1>3, WordsRead
<1> HIDE DEF words, sessions, t
<1>5. /\ HasLocalState(words) /\ own = c.localSessionId /\ words[at] = c.clusterCapacity
      /\ WrittenList(words) = c.sessionList
      /\ words[LocalAt(words)] = c.generatedIdCount
      /\ words[LocalAt(words) + 1] = c.nextRangeBase
      /\ LoadedNormalizer(words) = c.normalizer
  BY <1>3, <1>4 DEF ReadsAs
<1>6. /\ c.localSessionId \in Sessions /\ c.sessionList \in Seq(Sessions)
      /\ c.clusterCapacity \in Nat \ {0} /\ c.generatedIdCount \in Nat
      /\ c.nextRangeBase \in Nat \ {0} /\ c.normalizer \in Seq(Run)
  BY <1>1, CompressorFields DEF Run
<1>7. list = c.sessionList
  <2>1. \A s \in Seq(Sessions) : <<>> \o s = s
    OBVIOUS
  <2> QED BY <1>5, <1>6, <2>1 DEF LoadedSessions
<1>8. offset = 0
  BY <1>5 DEF Flag
<1>9. /\ shell \in Compressor
      /\ shell.clusterList = <<>> /\ \A s \in Sessions : shell.chains[s] = <<>>
      /\ shell.localSessionId = c.localSessionId /\ shell.clusterCapacity = c.clusterCapacity
      /\ shell.sessionList = c.sessionList
  <2> HIDE DEF own, list, at
  <2> QED BY <1>5, <1>6, <1>7, ShellFields
<1>10. base = Local(shell, c.generatedIdCount, c.nextRangeBase, c.normalizer)
  <2> HIDE DEF shell
  <2> QED BY <1>5 DEF LoadLocal, Local
<1>11. /\ base \in Compressor
       /\ base.clusterList = <<>> /\ \A s \in Sessions : base.chains[s] = <<>>
       /\ SameShell(c, base)
  <2> HIDE DEF shell, base
  <2>1. /\ base \in Compressor
        /\ base.clusterList = shell.clusterList /\ base.chains = shell.chains
        /\ base.localSessionId = shell.localSessionId
        /\ base.clusterCapacity = shell.clusterCapacity
        /\ base.sessionList = shell.sessionList
        /\ base.generatedIdCount = c.generatedIdCount /\ base.nextRangeBase = c.nextRangeBase
        /\ base.normalizer = c.normalizer
    <3> DEFINE generated == c.generatedIdCount
               next == c.nextRangeBase
               m == c.normalizer
    <3>1. shell \in Compressor /\ generated \in Nat /\ next \in Nat \ {0} /\ m \in Seq(Run)
          /\ base = Local(shell, generated, next, m)
      BY <1>6, <1>9, <1>10
    <3> HIDE DEF generated, next, m
    <3>2. /\ base \in Compressor
          /\ base.clusterList = shell.clusterList /\ base.chains = shell.chains
          /\ base.localSessionId = shell.localSessionId
          /\ base.clusterCapacity = shell.clusterCapacity
          /\ base.sessionList = shell.sessionList
          /\ base.generatedIdCount = generated /\ base.nextRangeBase = next
          /\ base.normalizer = m
      BY ONLY <3>1, WithLocal
    <3> QED BY <3>2 DEF generated, next, m
  <2> QED BY <1>9, <2>1 DEF SameShell
<1>12. LoadedTo(base, base, t, 0)
  <2> HIDE DEF base
  <2> QED BY <1>11, NoneLoaded
<1>13. NamesClusters(words, list, at, offset, t)
  <2> HIDE DEF list, offset
  <2>1. words[at + 1] = Len(t)
    BY <1>4 DEF ReadsAs
  <2>2. ASSUME NEW i \in 1..Len(t)
        PROVE  /\ list[words[at + 3 * i - 1] + offset + 1] = t[i].session
               /\ words[at + 3 * i] = t[i].capacity
               /\ words[at + 3 * i + 1] = t[i].count
    <3>1. /\ sessions[words[at + 3 * i - 1] + 1] = t[i].session
          /\ words[at + 3 * i - 1] \in Nat
          /\ words[at + 3 * i] = t[i].capacity
          /\ words[at + 3 * i + 1] = t[i].count
      BY <1>4 DEF ReadsAs, ClusterReads
    <3>2. \A x \in Nat : x + 0 + 1 = x + 1
      OBVIOUS
    <3> QED BY <1>3, <1>7, <1>8, <3>1, <3>2
  <2> QED BY <2>1, <2>2 DEF NamesClusters
<1>14. HasLocalState(words) # ({} # {}) /\ \A i, j \in DOMAIN list : list[i] = list[j] => i = j
  BY <1>3, <1>5, <1>7
<1>15. PICK d : Deserialize(words, {}) = {d} /\ LoadedTo(d, base, t, Len(t))
  <2>1. base = LoadLocal([Create(own) EXCEPT !.sessionList = list,
                                             !.clusterCapacity = words[at]], words)
    BY DEF Shell
  <2>2. Begins(words, {}, own, list, offset, at, base)
    BY <2>1 DEF Begins
  <2> HIDE DEF base, own, list, offset, at
  <2> QED BY ONLY <1>1, <1>12, <1>13, <1>14, <2>2, DeserializeLoads
<1>16. d = c
  <2> HIDE DEF base
  <2>1. /\ d.chains = c.chains /\ d.clusterList = c.clusterList
        /\ d \in Compressor /\ SameShell(base, d)
    <3>1. t = FinalSpace(c)
      BY DEF t
    <3> QED BY ONLY <1>1, <1>15, <3>1, LoadedIsSame
  <2>2. SameShell(c, d)
    BY <1>11, <2>1 DEF SameShell
  <2> QED BY <1>1, <2>1, <2>2, SameRecord
<1> QED BY <1>15, <1>16 DEF words

(* The new session precedes the written ones. *)
LEMMA NewFirst ==
    ASSUME NEW s \in Sessions, NEW sessions \in Seq(Sessions), NEW list, list = <<s>> \o sessions
    PROVE  /\ list \in Seq(Sessions) /\ DOMAIN list = 1..(Len(sessions) + 1)
           /\ Len(sessions) \in Nat /\ DOMAIN sessions = 1..Len(sessions)
           /\ list[1] = s
           /\ \A i \in 1..Len(sessions) : list[i + 1] = sessions[i]
<1>1. \A i \in 1..Len(sessions) : list[1 + i] = sessions[i] /\ 1 + i = i + 1
  OBVIOUS
<1> QED BY <1>1

(* A session has a cluster in its chain if the final space has one. *)
LEMMA ChainInSpace ==
    ASSUME NEW c, Linking(c), NEW t, t = FinalSpace(c), NEW s \in Sessions, ~IsEmpty(c, s)
    PROVE  \E i \in 1..Len(t) : t[i].session = s
<1>1. DOMAIN c.chains[s] # {}
  <2> DEFINE K == IdCluster
             chain == c.chains[s]
  <2>1. chain \in Seq(K) /\ chain # <<>>
    BY CompressorFields DEF Linking, IsEmpty
  <2> HIDE DEF K, chain
  <2>2. Len(chain) \in Nat /\ DOMAIN chain = 1..Len(chain)
    BY <2>1
  <2>3. Len(chain) # 0
    BY ONLY <2>1, EmptySeq
  <2>4. 1 \in DOMAIN chain
    BY <2>2, <2>3
  <2> QED BY <2>4 DEF chain
<1>2. DOMAIN c.chains[s] = {c.clusterList[i].place : i \in References(c, s)}
  BY DEF Linking, Linked, References
<1>3. PICK i \in References(c, s) : TRUE
  BY <1>1, <1>2
<1>4. \A n : n = Len(c.clusterList) =>
         /\ Len(t) = n /\ DOMAIN c.clusterList = 1..n
         /\ \A j \in 1..n : t[j].session = c.clusterList[j].session
  BY SpaceIsTable
<1> QED BY <1>3, <1>4 DEF References

(* A session that the summary has cannot be begun with it. *)
LEMMA KnownRefused ==
    ASSUME NEW words, ~HasLocalState(words), NEW s \in Sessions,
           WrittenList(words) \in Seq(Sessions), s \in Among(WrittenList(words))
    PROVE  Deserialize(words, {s}) = {}
<1> DEFINE sessions == WrittenList(words)
           list == LoadedSessions(words, s)
<1>1. (CHOOSE x \in {s} : TRUE) = s
  OBVIOUS
<1>2. list = <<s>> \o sessions
  BY DEF LoadedSessions
<1>3. /\ DOMAIN list = 1..(Len(sessions) + 1) /\ Len(sessions) \in Nat
      /\ DOMAIN sessions = 1..Len(sessions)
      /\ list[1] = s /\ \A i \in 1..Len(sessions) : list[i + 1] = sessions[i]
  <2> HIDE DEF sessions, list
  <2> QED BY <1>2, NewFirst DEF sessions
<1>4. PICK i \in DOMAIN sessions : sessions[i] = s
  BY DEF Among
<1>5. \E i1, j1 \in DOMAIN list : i1 # j1 /\ list[i1] = list[j1]
  <2> HIDE DEF sessions, list
  <2>1. i + 1 \in DOMAIN list /\ 1 \in DOMAIN list /\ 1 # i + 1
    BY <1>3
  <2> QED BY <1>3, <1>4, <2>1
<1> HIDE DEF list
<1> QED BY <1>1, <1>5 DEF Deserialize, list

(* d has the clusters of c and its capacity, and is of session s. *)
AgreesWith(d, c, s) ==
    /\ d.chains = c.chains
    /\ d.clusterList = c.clusterList
    /\ d.clusterCapacity = c.clusterCapacity
    /\ d.localSessionId = s

(* Another session that loads it has the clusters and the capacity of the
   compressor that wrote it.                                               *)
LEMMA SummaryLoads ==
    ASSUME NEW c, Sound(c), NEW s \in Sessions, NEW no, no = FALSE,
           NEW sessions, sessions = WrittenSessions(c, no), s \notin Among(sessions)
    PROVE  \E d : Deserialize(Serialize(c, no), {s}) = {d} /\ AgreesWith(d, c, s)
<1> DEFINE words == Serialize(c, no)
           t == FinalSpace(c)
           own == IF HasLocalState(words) THEN words[3] ELSE CHOOSE x \in {s} : TRUE
           list == LoadedSessions(words, own)
           offset == Flag(~HasLocalState(words))
           at == ClustersAt(words)
           base == Shell(own, list, words[at])
<1>1. /\ Linking(c) /\ c \in Compressor /\ Core!TableInv(t) /\ c.sessionList # <<>>
      /\ Gapped(c.normalizer) /\ Len(t) \in Nat
  BY DEF Sound, Linking, Core!TableInv
<1>2. no \in BOOLEAN
  OBVIOUS
<1>3. /\ sessions \in Seq(Sessions) /\ DOMAIN sessions = 1..Len(sessions) /\ Len(sessions) \in Nat
      /\ \A i \in 1..Len(t) : t[i].session \in Among(sessions)
      /\ \A i, j \in DOMAIN sessions : sessions[i] = sessions[j] => i = j
  <2>1. t = FinalSpace(c)
    OBVIOUS
  <2> HIDE DEF t
  <2> QED BY ONLY Sound(c), <1>2, <2>1, sessions = WrittenSessions(c, no), AllAreWritten
<1>4. ReadsAs(words, c, no, sessions, t)
  <2>1. sessions = WrittenSessions(c, no)
    OBVIOUS
  <2> QED BY ONLY <1>1, <1>2, <1>3, <2>1, WordsRead
<1> HIDE DEF words, t
<1>5. /\ ~HasLocalState(words) /\ own = s /\ words[at] = c.clusterCapacity
      /\ WrittenList(words) = sessions
  BY <1>4 DEF ReadsAs
<1>6. list = <<s>> \o sessions
  BY <1>5 DEF LoadedSessions
<1>7. offset = 1
  BY <1>5 DEF Flag
<1>8. /\ list \in Seq(Sessions) /\ DOMAIN list = 1..(Len(sessions) + 1)
      /\ list[1] = s
      /\ \A i \in 1..Len(sessions) : list[i + 1] = sessions[i]
  <2> HIDE DEF list
  <2> QED BY <1>3, <1>6, NewFirst
<1>9. c.clusterCapacity \in Nat \ {0}
  BY <1>1, CompressorFields
<1>10. /\ base \in Compressor
       /\ base.clusterList = <<>> /\ \A o \in Sessions : base.chains[o] = <<>>
       /\ base.localSessionId = s /\ base.clusterCapacity = c.clusterCapacity
  <2> HIDE DEF own, list, at
  <2> QED BY <1>5, <1>8, <1>9, ShellFields
<1>11. LoadedTo(base, base, t, 0)
  <2> HIDE DEF base
  <2> QED BY <1>10, NoneLoaded
<1>12. NamesClusters(words, list, at, offset, t)
  <2> HIDE DEF list, offset
  <2>1. words[at + 1] = Len(t)
    BY <1>4 DEF ReadsAs
  <2>2. ASSUME NEW i \in 1..Len(t)
        PROVE  /\ list[words[at + 3 * i - 1] + offset + 1] = t[i].session
               /\ words[at + 3 * i] = t[i].capacity
               /\ words[at + 3 * i + 1] = t[i].count
    <3> DEFINE w == words[at + 3 * i - 1]
    <3>1. /\ sessions[w + 1] = t[i].session
          /\ w \in Nat /\ w + 1 \in DOMAIN sessions
          /\ words[at + 3 * i] = t[i].capacity
          /\ words[at + 3 * i + 1] = t[i].count
      BY <1>4 DEF ReadsAs, ClusterReads
    <3> HIDE DEF w
    <3>2. list[(w + 1) + 1] = t[i].session
      BY <1>3, <1>8, <3>1
    <3>3. w + offset + 1 = (w + 1) + 1
      BY <1>7, <3>1
    <3> QED BY <3>1, <3>2, <3>3 DEF w
  <2> QED BY <2>1, <2>2 DEF NamesClusters
<1>13. HasLocalState(words) # ({s} # {})
  BY <1>5
<1>14. ASSUME NEW i \in DOMAIN list, NEW j \in DOMAIN list, list[i] = list[j] PROVE i = j
  <2> HIDE DEF list
  <2>1. \A k \in DOMAIN list : k = 1 \/ (k - 1 \in 1..Len(sessions) /\ (k - 1) + 1 = k)
    BY <1>3, <1>8
  <2>2. \A k \in DOMAIN list : k # 1 => list[k] = sessions[k - 1] /\ list[k] # s
    BY <1>3, <1>8, <2>1 DEF Among
  <2>3. i = 1 <=> j = 1
    BY <1>8, <1>14, <2>2
  <2>4. i # 1 => i - 1 = j - 1
    BY <1>3, <1>14, <2>1, <2>2, <2>3
  <2>5. i \in Int /\ j \in Int
    BY <1>3, <1>8
  <2> QED BY <2>3, <2>4, <2>5
<1>15. PICK d : Deserialize(words, {s}) = {d} /\ LoadedTo(d, base, t, Len(t))
  <2>1. Begins(words, {s}, own, list, offset, at, base)
    BY <1>5 DEF Begins, Shell, LoadLocal
  <2> HIDE DEF base, own, list, offset, at
  <2>2. \A i, j \in DOMAIN list : list[i] = list[j] => i = j
    BY <1>14
  <2> QED BY ONLY <1>1, <1>11, <1>12, <1>13, <2>1, <2>2, DeserializeLoads
<1>16. /\ d.chains = c.chains /\ d.clusterList = c.clusterList
       /\ d.clusterCapacity = c.clusterCapacity /\ d.localSessionId = s
  <2> HIDE DEF base
  <2>1. /\ d.chains = c.chains /\ d.clusterList = c.clusterList
        /\ d \in Compressor /\ SameShell(base, d)
    <3>1. t = FinalSpace(c)
      BY DEF t
    <3> QED BY ONLY <1>1, <1>15, <3>1, LoadedIsSame
  <2> QED BY <1>10, <2>1 DEF SameShell
<1> QED BY <1>15, <1>16 DEF words, AgreesWith

(* What is serialized with the local state is resumed as it was
   (IdCompressor.ts:448-603).                                              *)
THEOREM ResumeIsExactHolds == SessionsFarApart => (Spec => []ResumeIsExact)
<1>1. RewriteInv => ResumeIsExact
  BY InvSound, Resumes DEF ResumeIsExact
<1> QED BY <1>1, RewriteInvHolds, PTL

(* Sessions that load a summary agree on the clusters and the next claim, and
   one that the summary has is not begun again (IdCompressor.ts:448-603).  *)
THEOREM SummariesConvergeHolds == SessionsFarApart => (Spec => []SummariesConverge)
<1>1. ASSUME RewriteInv PROVE SummariesConverge
  <2> DEFINE c == rewrite
             no == FALSE
             sessions == WrittenSessions(c, no)
             words == Serialize(c, no)
  <2> SUFFICES ASSUME MaySerialize(c, no), NEW s \in Sessions
               PROVE  LET loaded == Deserialize(words, {s})
                      IN  IF ~IsEmpty(c, s) THEN loaded = {}
                          ELSE \E d \in loaded : /\ loaded = {d}
                                                 /\ d.chains = c.chains
                                                 /\ d.clusterList = c.clusterList
                                                 /\ d.clusterCapacity = c.clusterCapacity
                                                 /\ d.localSessionId = s
    BY DEF SummariesConverge
  <2>1. Sound(c) /\ Linking(c) /\ c.sessionList # <<>> /\ Gapped(c.normalizer) /\ no \in BOOLEAN
    BY <1>1, InvSound DEF Sound
  <2>2. /\ sessions \in Seq(Sessions)
        /\ \A i \in 1..Len(FinalSpace(c)) : FinalSpace(c)[i].session \in Among(sessions)
    <3> HIDE DEF c, no
    <3> QED BY <2>1, AllAreWritten
  <2>3. CASE ~IsEmpty(c, s)
    <3>1. s \in Among(sessions)
      <4> HIDE DEF c, sessions
      <4> QED BY <2>1, <2>2, <2>3, ChainInSpace
    <3>2. ReadsAs(words, c, no, sessions, FinalSpace(c))
      <4> HIDE DEF c, no
      <4> QED BY <2>1, <2>2, WordsRead
    <3>3. ~HasLocalState(words) /\ WrittenList(words) = sessions
      <4> HIDE DEF words, sessions, c
      <4> QED BY <3>2 DEF ReadsAs
    <3>4. Deserialize(words, {s}) = {}
      <4> HIDE DEF words, sessions, c, no
      <4> QED BY <2>2, <3>1, <3>3, KnownRefused
    <3> QED BY <2>3, <3>4
  <2>4. CASE IsEmpty(c, s)
    <3>1. s \notin Among(sessions)
      BY <2>4 DEF MaySerialize, Among
    <3>2. \E d : /\ Deserialize(words, {s}) = {d}
                 /\ d.chains = c.chains
                 /\ d.clusterList = c.clusterList
                 /\ d.clusterCapacity = c.clusterCapacity
                 /\ d.localSessionId = s
      <4>1. no = FALSE
        OBVIOUS
      <4>2. sessions = WrittenSessions(c, no)
        OBVIOUS
      <4> HIDE DEF c, no, sessions
      <4>3. \E d : Deserialize(Serialize(c, no), {s}) = {d} /\ AgreesWith(d, c, s)
        BY ONLY <2>1, <3>1, <4>1, <4>2, s \in Sessions, SummaryLoads
      <4> QED BY <4>3 DEF AgreesWith
    <3> HIDE DEF words, c
    <3> QED BY <2>4, <3>2
  <2> QED BY <2>3, <2>4
<1> QED BY <1>1, RewriteInvHolds, PTL

=============================================================================
