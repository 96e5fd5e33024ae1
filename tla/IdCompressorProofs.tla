------------------------- MODULE IdCompressorProofs -------------------------
(***************************************************************************)
(* The correctness of one compressor, for every set of sessions, capacity  *)
(* and bound: IndInv is inductive, and the properties of IdCompressor.tla  *)
(* follow from it and from what CompressorProofs shows of each operation.  *)
(***************************************************************************)
EXTENDS IdCompressor, CompressorProofs, TLAPS

(* The local session has the token 0 from the start and nothing else. *)
LEMMA InitIndInv == Init => IndInv
<1> SUFFICES ASSUME Init PROVE IndInv
  OBVIOUS
<1>1. /\ CompressorInv(compressor)
      /\ compressor.sessionId = LocalSession
      /\ compressor.generatedIdCount = 0
      /\ compressor.clusters = <<>>
      /\ taken = {} /\ issued = <<>>
  BY LocalSessionAssumption, NewCompressorInv DEF Init
<1>2. TypeOK
  BY <1>1 DEF TypeOK, CompressorInv
<1>3. \A s \in Sessions : NextBase(Clusters, s) <= MostIds(s) + 1
  BY <1>1, EmptyTable, MaxGeneratedAssumption DEF Clusters, MostIds
<1> QED
  BY <1>1, <1>2, <1>3, MaxGeneratedAssumption DEF IndInv, IssuedInv, TakenInv

-----------------------------------------------------------------------------
(* The facts of IndInv, in the form the steps use them. *)
LEMMA IndInvFacts ==
    ASSUME IndInv
    PROVE  /\ CompressorInv(compressor)
           /\ compressor \in Compressors
           /\ compressor.sessionId = LocalSession
           /\ compressor.generatedIdCount \in Nat
           /\ taken \subseteq Ranges
           /\ issued \in Seq(Int)
           /\ TableInv(Clusters)
           /\ Clusters \in Seq(Cluster)
           /\ Len(issued) = compressor.generatedIdCount
           /\ DOMAIN issued = 1..compressor.generatedIdCount
           /\ \A g \in 1..compressor.generatedIdCount : Issued(compressor, g, issued[g])
<1>1. /\ CompressorInv(compressor) /\ compressor \in Compressors
      /\ taken \subseteq Ranges /\ issued \in Seq(Int)
      /\ compressor.sessionId = LocalSession
      /\ Len(issued) = compressor.generatedIdCount
      /\ \A g \in DOMAIN issued : Issued(compressor, g, issued[g])
  BY DEF IndInv, TypeOK, IssuedInv
<1>2. /\ TableInv(Clusters) /\ Clusters \in Seq(Cluster)
      /\ compressor.generatedIdCount \in Nat
  BY <1>1, CompressorFacts DEF Clusters
<1>3. DOMAIN issued = 1..Len(issued)
  BY <1>1
<1> QED
  BY <1>1, <1>2, <1>3

(* A step that issues no ID keeps the history of issued ones. *)
LEMMA IssuedInvStays ==
    ASSUME IndInv, compressor'.clusters \in Seq(Cluster), Extends(compressor, compressor'),
           compressor'.generatedIdCount = compressor.generatedIdCount, issued' = issued
    PROVE  IssuedInv'
<1>1. \A g \in DOMAIN issued : Issued(compressor', g, issued[g])
  BY IndInvFacts, IssuedStays
<1> QED
  BY <1>1 DEF IndInv, IssuedInv

(* Generating an ID preserves the invariant. *)
LEMMA GenerateStep ==
    ASSUME IndInv, Generate
    PROVE  IndInv' /\ Extends(compressor, compressor')
<1> DEFINE c == compressor
           n == c.generatedIdCount + 1
<1>1. /\ CompressorInv(c) /\ c.generatedIdCount \in Nat /\ taken \subseteq Ranges
      /\ Len(issued) = c.generatedIdCount /\ issued \in Seq(Int)
      /\ \A g \in 1..c.generatedIdCount : Issued(c, g, issued[g])
  BY IndInvFacts
<1>2. /\ compressor' = GenerateNextId(c) /\ taken' = taken
      /\ issued' = Append(issued, NextId(c))
      /\ c.generatedIdCount < MaxGenerated
  BY DEF Generate
<1>3. /\ CompressorInv(compressor')
      /\ Extends(c, compressor')
      /\ NextId(c) \in Int
      /\ Issued(compressor', compressor'.generatedIdCount, NextId(c))
      /\ compressor'.sessionId = c.sessionId
      /\ compressor'.generatedIdCount = n
      /\ compressor'.clusters = c.clusters
  BY <1>1, <1>2, GenerateEffect
<1>4. /\ issued' \in Seq(Int) /\ Len(issued') = n /\ DOMAIN issued' = 1..n
      /\ \A g \in 1..c.generatedIdCount : issued'[g] = issued[g]
      /\ issued'[n] = NextId(c)
      /\ \A g \in 1..n : g = n \/ g \in 1..c.generatedIdCount
  BY <1>1, <1>2, <1>3
<1>5. TypeOK'
  BY <1>1, <1>2, <1>3, <1>4 DEF TypeOK, CompressorInv
<1>6. IssuedInv'
  <2>1. compressor'.clusters \in Seq(Cluster)
    BY <1>3, CompressorFacts
  <2>2. \A g \in 1..c.generatedIdCount : Issued(compressor', g, issued[g])
    BY <1>1, <1>3, <2>1, IssuedStays
  <2> HIDE DEF n
  <2> QED
    BY <1>3, <1>4, <2>2 DEF IssuedInv
<1>7. TakenInv'
  <2> SUFFICES ASSUME NEW r \in taken
               PROVE  r.session = LocalSession /\ r.base + r.len <= n + 1
    BY <1>2, <1>3 DEF TakenInv
  <2>1. r.session = LocalSession /\ r.base + r.len <= c.generatedIdCount + 1
    BY DEF IndInv, TakenInv
  <2>2. r.base \in Int /\ r.len \in Int
    BY <1>1 DEF Ranges, Positive
  <2> QED
    BY <1>1, <2>1, <2>2
<1>8. n <= MaxGenerated
  BY <1>1, <1>2, MaxGeneratedAssumption
<1> QED
  BY <1>3, <1>5, <1>6, <1>7, <1>8 DEF IndInv, Clusters

(* Taking a range preserves the invariant. *)
LEMMA TakeStep ==
    ASSUME IndInv, Take
    PROVE  IndInv' /\ Extends(compressor, compressor')
<1> DEFINE c == compressor
           r == NextRange(c)
<1>1. CompressorInv(c) /\ taken \subseteq Ranges /\ issued \in Seq(Int)
      /\ c.sessionId = LocalSession /\ c.generatedIdCount \in Nat
  BY IndInvFacts
<1>2. compressor' = TakeNextRange(c) /\ taken' = taken \cup {r} /\ issued' = issued
  BY DEF Take
<1>3. /\ CompressorInv(compressor')
      /\ Extends(c, compressor')
      /\ compressor'.sessionId = c.sessionId
      /\ compressor'.generatedIdCount = c.generatedIdCount
      /\ compressor'.clusters = c.clusters
      /\ r \in Ranges /\ r.session = LocalSession
      /\ r.base + r.len = c.generatedIdCount + 1
  BY <1>1, <1>2, TakeEffect
<1>4. TypeOK'
  BY <1>1, <1>2, <1>3 DEF TypeOK, CompressorInv
<1>5. IssuedInv'
  BY <1>2, <1>3, CompressorFacts, IssuedInvStays
<1>6. TakenInv'
  <2>1. r.base + r.len <= c.generatedIdCount + 1
    BY <1>1, <1>3
  <2> HIDE DEF r
  <2> QED
    BY <1>2, <1>3, <2>1 DEF IndInv, TakenInv
<1> QED
  BY <1>3, <1>4, <1>5, <1>6 DEF IndInv, Clusters

(* Setting the capacity preserves the invariant. *)
LEMMA SetCapacityStep ==
    ASSUME IndInv, SetCapacity
    PROVE  IndInv' /\ Extends(compressor, compressor')
<1>1. PICK capacity \in Capacities :
         /\ compressor' = SetClusterCapacity(compressor, capacity)
         /\ taken' = taken /\ issued' = issued
  BY DEF SetCapacity
<1>2. CompressorInv(compressor) /\ capacity \in Positive
  BY IndInvFacts, CapacitiesAssumption
<1>3. /\ CompressorInv(compressor')
      /\ Extends(compressor, compressor')
      /\ compressor'.sessionId = compressor.sessionId
      /\ compressor'.generatedIdCount = compressor.generatedIdCount
      /\ compressor'.clusters = compressor.clusters
  BY <1>1, <1>2, SetCapacityEffect
<1>4. TypeOK'
  BY <1>1, <1>3 DEF IndInv, TypeOK, CompressorInv
<1>5. IssuedInv'
  BY <1>1, <1>3, CompressorFacts, IssuedInvStays
<1> QED
  BY <1>1, <1>3, <1>4, <1>5 DEF IndInv, TakenInv, Clusters

-----------------------------------------------------------------------------
(* The ranges that reach finalize_range: of this session only what it has
   generated, and of no session more than it can have.                     *)
Finalizable(r) ==
    /\ r \in Ranges
    /\ r.session = LocalSession => r.base + r.len <= compressor.generatedIdCount + 1
    /\ r.base + r.len <= MostIds(r.session) + 1

(* So is every range finalize_range is called with. *)
LEMMA FinalizedAreFinalizable ==
    ASSUME IndInv
    PROVE  \A r \in taken \cup RemoteRanges : Finalizable(r)
<1>1. ASSUME NEW r \in taken
      PROVE  Finalizable(r)
  <2>1. /\ r \in Ranges /\ r.session = LocalSession
        /\ r.base + r.len <= compressor.generatedIdCount + 1
        /\ compressor.generatedIdCount <= MaxGenerated
        /\ compressor.generatedIdCount \in Nat
    BY IndInvFacts DEF IndInv, TakenInv
  <2>2. r.base \in Int /\ r.len \in Int
    BY <2>1 DEF Ranges, Positive
  <2>3. r.base + r.len <= MaxGenerated + 1
    BY <2>1, <2>2, MaxGeneratedAssumption
  <2> QED
    BY <2>1, <2>3 DEF Finalizable, MostIds
<1>2. ASSUME NEW r \in RemoteRanges
      PROVE  Finalizable(r)
  <2>1. 1..MaxGenerated \subseteq Positive /\ 0..MaxGenerated \subseteq Nat
    BY MaxGeneratedAssumption DEF Positive
  <2>2. /\ r \in Ranges /\ r.session # LocalSession
        /\ r.base \in 1..MaxGenerated /\ r.len \in 0..MaxGenerated
    BY <2>1 DEF RemoteRanges, Ranges
  <2>3. r.base + r.len <= 2 * MaxGenerated + 1
    BY <2>2, MaxGeneratedAssumption
  <2> QED
    BY <2>2, <2>3 DEF Finalizable, MostIds
<1> QED
  BY <1>1, <1>2

(* Finalizing a range preserves the invariant. *)
LEMMA FinalizeStep ==
    ASSUME IndInv, NEW r, Finalizable(r), Finalize(r)
    PROVE  IndInv' /\ Extends(compressor, compressor')
<1> DEFINE c == compressor
<1>1. /\ CompressorInv(c) /\ TableInv(c.clusters) /\ c.sessionId = LocalSession
      /\ r \in Ranges
      /\ r.session = c.sessionId => r.base + r.len <= c.generatedIdCount + 1
  BY IndInvFacts DEF Finalizable, Clusters
<1>2. compressor' = FinalizeRange(c, r) /\ taken' = taken /\ issued' = issued
  BY DEF Finalize
<1>3. /\ CompressorInv(compressor')
      /\ Extends(c, compressor')
      /\ compressor'.sessionId = c.sessionId
      /\ compressor'.generatedIdCount = c.generatedIdCount
      /\ FinalizeResult(c, r) = "Ok" => compressor'.clusters = Claim(c.clusters, r, c.clusterCapacity)
      /\ FinalizeResult(c, r) # "Ok" => compressor'.clusters = c.clusters
  BY <1>1, <1>2, FinalizeEffect
<1>4. TypeOK'
  BY <1>2, <1>3 DEF IndInv, TypeOK, CompressorInv
<1>5. IssuedInv'
  BY <1>2, <1>3, CompressorFacts, IssuedInvStays
<1>6. \A s \in Sessions : NextBase(compressor'.clusters, s) <= MostIds(s) + 1
  <2>1. \A s \in Sessions : NextBase(c.clusters, s) <= MostIds(s) + 1
    BY DEF IndInv, Clusters
  <2>2. CASE FinalizeResult(c, r) = "Ok"
    <3>1. c.clusterCapacity \in Positive /\ c \in Compressors
      BY <1>1, CompressorTypes DEF CompressorInv
    <3>2. Acceptable(c.clusters, r, c.clusterCapacity)
      BY <1>1, <2>2, <3>1 DEF Acceptable, FinalizeResult
    <3>3. ClaimEffect(c.clusters, compressor'.clusters, r, c.clusterCapacity)
      BY <1>3, <2>2, <3>2, ClaimIsCorrect
    <3>4. \A s \in Sessions : NextBase(compressor'.clusters, s)
             = IF s = r.session THEN r.base + r.len ELSE NextBase(c.clusters, s)
      BY <3>3 DEF ClaimEffect
    <3> QED
      BY <2>1, <3>4 DEF Finalizable
  <2>3. CASE FinalizeResult(c, r) # "Ok"
    BY <1>3, <2>1, <2>3
  <2> QED
    BY <2>2, <2>3
<1> QED
  BY <1>2, <1>3, <1>4, <1>5, <1>6 DEF IndInv, TakenInv, Clusters

-----------------------------------------------------------------------------
(* Every step preserves the invariant, and only extends what is there. *)
LEMMA IndInvStep ==
    ASSUME IndInv, [Next]_vars
    PROVE  IndInv' /\ Extends(compressor, compressor')
<1>1. CASE Generate
  BY <1>1, GenerateStep
<1>2. CASE Take
  BY <1>2, TakeStep
<1>3. CASE FinalizeOwn
  BY <1>3, FinalizedAreFinalizable, FinalizeStep DEF FinalizeOwn
<1>4. CASE FinalizeRemote
  BY <1>4, FinalizedAreFinalizable, FinalizeStep DEF FinalizeRemote
<1>5. CASE SetCapacity
  BY <1>5, SetCapacityStep
<1>6. CASE UNCHANGED vars
  <2>1. compressor' = compressor /\ taken' = taken /\ issued' = issued
    BY <1>6 DEF vars
  <2>2. IndInv'
    BY <2>1 DEF IndInv, TypeOK, IssuedInv, TakenInv, Clusters
  <2>3. Grows(Clusters, Clusters) /\ compressor.generatedIdCount <= compressor.generatedIdCount
    BY IndInvFacts, GrowsReflexive
  <2> QED
    BY <2>1, <2>2, <2>3 DEF Extends, Clusters
<1> QED
  BY <1>1, <1>2, <1>3, <1>4, <1>5, <1>6 DEF Next

(* IndInv holds in every reachable state: types, the tables' structure, and
   that nothing is finalized before it is generated (compressor.rs:145-319). *)
THEOREM IndInvHolds == Spec => []IndInv
<1>1. IndInv /\ [Next]_vars => IndInv'
  BY IndInvStep
<1> QED
  BY <1>1, InitIndInv, PTL DEF Spec

(* Whatever ranges are finalized or refused, the clusters tile the final IDs
   and each session's local IDs (compressor.rs:209-319).                   *)
THEOREM ClustersTileHolds == Spec => []ClustersTile
<1>1. IndInv => ClustersTile
  BY IndInvFacts DEF TableInv, ClustersTile
<1> QED
  BY <1>1, IndInvHolds, PTL

(* lib.rs invariant 1: an ID this session was given decompresses to the UUID
   it was generated with for as long as the session lives.                 *)
THEOREM IssuedIdsDecompressHolds == Spec => []IssuedIdsDecompress
<1>1. IndInv => IssuedIdsDecompress
  BY IndInvFacts, IssuedDecompresses DEF IssuedIdsDecompress
<1> QED
  BY <1>1, IndInvHolds, PTL

(* Under the invariant every issued ID survives a trip through op space. *)
LEMMA IndInvRoundTrip == IndInv => IssuedIdsRoundTrip
<1> DEFINE c == compressor
<1> SUFFICES ASSUME IndInv, NEW g \in DOMAIN issued
             PROVE  \E id \in NormalizeToOpSpace(c, issued[g]) :
                      /\ NormalizeToOpSpace(c, issued[g]) = {id}
                      /\ NormalizeToSessionSpace(c, id, LocalSession) = {issued[g]}
  BY DEF IssuedIdsRoundTrip
<1>1. /\ CompressorInv(c) /\ c.sessionId = LocalSession
      /\ g \in 1..c.generatedIdCount /\ Issued(c, g, issued[g])
  BY IndInvFacts
<1>2. CASE NormalizeToOpSpace(c, issued[g]) = {-g}
  BY <1>1, <1>2, OwnLocalNormalizes
<1>3. CASE \E i \in Chain(c.clusters, c.sessionId) :
              /\ HoldsLocal(c.clusters[i], -g)
              /\ NormalizeToOpSpace(c, issued[g]) = {AllocatedFinal(c.clusters[i], -g)}
  <2>1. PICK i \in Chain(c.clusters, c.sessionId) :
              /\ HoldsLocal(c.clusters[i], -g)
              /\ NormalizeToOpSpace(c, issued[g]) = {AllocatedFinal(c.clusters[i], -g)}
    BY <1>3
  <2> DEFINE final == AllocatedFinal(c.clusters[i], -g)
  <2>2. NormalizeFinal(c, final) = {issued[g]}
    BY <1>1, <2>1, OwnFinalNormalizes
  <2>3. final \in Nat
    <3>1. TableInv(c.clusters) /\ i \in DOMAIN c.clusters /\ -g \in Int
      BY <1>1, CompressorFacts, GenCounts DEF Chain
    <3> QED
      BY <2>1, <3>1, FinalOfLocal
  <2>4. NormalizeToSessionSpace(c, final, LocalSession) = {issued[g]}
    BY <2>2, <2>3 DEF NormalizeToSessionSpace
  <2> QED
    BY <2>1, <2>4
<1> QED
  BY <1>1, <1>2, <1>3, IssuedInOpSpace

(* An ID this session was given survives the trip through op space: its own
   session always gets back the very ID it was given.                      *)
THEOREM IssuedIdsRoundTripHolds == Spec => []IssuedIdsRoundTrip
BY IndInvRoundTrip, IndInvHolds, PTL

-----------------------------------------------------------------------------
(* Compression by UUID, for sessions that are apart: the session of a UUID is
   the nearest known one.                                                  *)
LEMMA NearestIsOwn ==
    ASSUME SessionsApart, NEW known, known \subseteq Sessions, NEW s \in known,
           NEW uuid \in Int, s <= uuid, uuid < s + MostIds(s)
    PROVE  Nearest(known, uuid) = {s}
<1>1. MostIds(s) \in Int /\ \A u \in Sessions : u \in Int
  BY SessionsAssumption, MaxGeneratedAssumption DEF MostIds
<1>2. ASSUME NEW u \in known, u <= uuid
      PROVE  u <= s
  <2>1. u \in Int /\ s \in Int /\ (s < u => s + MostIds(s) <= u)
    BY <1>1 DEF SessionsApart
  <2> QED
    BY <1>1, <1>2, <2>1
<1>3. s \in Nearest(known, uuid)
  BY <1>2 DEF Nearest
<1>4. ASSUME NEW u \in Nearest(known, uuid)
      PROVE  u = s
  <2>1. u \in known /\ u <= uuid /\ s <= u
    BY DEF Nearest
  <2>2. u \in Int /\ s \in Int
    BY <1>1, <2>1
  <2> QED
    BY <1>2, <2>1, <2>2
<1> QED
  BY <1>3, <1>4

(* The UUIDs of the IDs this session was given are its own. *)
LEMMA IssuedAreNear ==
    ASSUME SessionsApart, IndInv, NEW g \in 1..compressor.generatedIdCount,
           NEW uuid, uuid = StableOf(LocalSession, -g)
    PROVE  Nearest(Known(compressor), uuid) = {LocalSession}
<1>1. /\ Known(compressor) \subseteq Sessions /\ LocalSession \in Known(compressor)
      /\ LocalSession \in Int
  BY IndInvFacts, CompressorFacts
<1>2. uuid = LocalSession + g - 1 /\ g \in Int /\ g >= 1
  BY IndInvFacts, GenCounts
<1>3. g <= MaxGenerated /\ MaxGenerated \in Int /\ MostIds(LocalSession) = MaxGenerated
  BY IndInvFacts, MaxGeneratedAssumption DEF IndInv, MostIds
<1>4. uuid \in Int /\ LocalSession <= uuid /\ uuid < LocalSession + MaxGenerated
  BY <1>1, <1>2, <1>3
<1> QED
  BY <1>1, <1>3, <1>4, NearestIsOwn

(* lib.rs invariant 4: the UUID of an ID this session was given compresses
   into the very ID it was given, provided no other session falls among its
   IDs.                                                                    *)
THEOREM IssuedIdsRecompressHolds == SessionsApart => (Spec => []IssuedIdsRecompress)
<1> SUFFICES ASSUME SessionsApart PROVE Spec => []IssuedIdsRecompress
  OBVIOUS
<1>1. ASSUME IndInv PROVE IssuedIdsRecompress
  <2> SUFFICES ASSUME NEW g \in DOMAIN issued
               PROVE  Recompress(compressor, LocalSession + g - 1) = {issued[g]}
    BY DEF IssuedIdsRecompress
  <2> DEFINE uuid == StableOf(LocalSession, -g)
  <2>1. /\ CompressorInv(compressor) /\ compressor.sessionId = LocalSession
        /\ g \in 1..compressor.generatedIdCount /\ Issued(compressor, g, issued[g])
    BY <1>1, IndInvFacts
  <2>2. uuid = LocalSession + g - 1
    BY <2>1, GenCounts
  <2>3. Nearest(Known(compressor), uuid) = {LocalSession}
    BY <1>1, <2>1, IssuedAreNear
  <2>4. Recompress(compressor, uuid) = {issued[g]}
    BY <2>1, <2>3, IssuedRecompresses
  <2> QED
    BY <2>2, <2>4
<1> QED
  BY <1>1, IndInvHolds, PTL

(* The UUIDs of finalized IDs belong to the sessions of their clusters. *)
LEMMA FinalizedAreNear ==
    ASSUME SessionsApart, IndInv, NEW s \in Sessions, NEW i \in Chain(Clusters, s),
           NEW local \in LocalIds, HoldsFinalizedLocal(Clusters[i], local),
           NEW uuid, uuid = StableOf(s, local)
    PROVE  Nearest(Known(compressor), uuid) = {s}
<1>1. /\ Known(compressor) \subseteq Sessions /\ s \in Known(compressor) /\ s \in Int
  <2>1. i \in DOMAIN compressor.clusters /\ compressor.clusters[i].session = s
    BY DEF Chain, Clusters
  <2> QED
    BY <2>1, IndInvFacts, CompressorFacts, SessionsAssumption DEF CompressorInv
<1>2. local \in Int /\ local < 0 /\ uuid = s + (-local) - 1
  BY <1>1 DEF LocalIds, StableOf, GenCount
<1>3. GenCount(MaxLocal(Clusters[i])) < NextBase(Clusters, s) /\ MaxLocal(Clusters[i]) \in Int
  <2>1. Clusters[i].baseLocal \in Int /\ Clusters[i].count \in Int
    BY IndInvFacts, TableTypes DEF Chain
  <2> QED
    BY <2>1, IndInvFacts, FinalizedBelowNext DEF MaxLocal
<1>4. NextBase(Clusters, s) <= MostIds(s) + 1 /\ NextBase(Clusters, s) \in Int /\ MostIds(s) \in Int
  BY IndInvFacts, NextBaseType, MaxGeneratedAssumption DEF IndInv, MostIds
<1>5. -local < MostIds(s) + 1
  BY <1>2, <1>3, <1>4 DEF HoldsFinalizedLocal, GenCount
<1>6. uuid \in Int /\ s <= uuid /\ uuid < s + MostIds(s)
  BY <1>1, <1>2, <1>4, <1>5
<1> QED
  BY <1>1, <1>6, NearestIsOwn

(* The final ID of what a cluster reserves. *)
LEMMA ReservedFinal ==
    ASSUME NEW t, TableInv(t), NEW i, NEW final \in Int, i \in Search(t, final),
           NEW local, local = AlignedLocal(t[i], final)
    PROVE  /\ i \in DOMAIN t
           /\ local \in LocalIds /\ local \in Int
           /\ HoldsLocal(t[i], local)
           /\ final = AllocatedFinal(t[i], local)
           /\ Search(t, final) = {i}
<1>1. i \in DOMAIN t /\ t[i] \in Cluster /\ HoldsFinal(t[i], final)
  BY TableTypes DEF TableInv, Search
<1>2. /\ local \in LocalIds /\ HoldsLocal(t[i], local)
      /\ final = AllocatedFinal(t[i], local)
  BY <1>1, ClusterInverse
<1>3. Search(t, final) = {i}
  BY <1>1, FinalsDisjoint
<1> QED
  BY <1>1, <1>2, <1>3 DEF LocalIds

(* A final ID that decompresses, in a compressor in which every UUID that it
   can decompress to belongs to the nearest session.                       *)
LEMMA FinalMeans ==
    ASSUME NEW c, CompressorInv(c), NEW final \in Nat, Decompress(c, final) # {},
           \A g \in 1..c.generatedIdCount :
              Nearest(Known(c), StableOf(c.sessionId, -g)) = {c.sessionId},
           \A s \in Sessions : \A i \in Chain(c.clusters, s) : \A local \in LocalIds :
              HoldsFinalizedLocal(c.clusters[i], local)
                => Nearest(Known(c), StableOf(s, local)) = {s}
    PROVE  \E u : \E n : /\ Decompress(c, final) = {u}
                         /\ NormalizeFinal(c, final) = {n}
                         /\ Decompress(c, n) = {u}
                         /\ Recompress(c, u) = {n}
<1>1. TableInv(c.clusters) /\ c.clusters \in Seq(Cluster) /\ c.generatedIdCount \in Nat
  BY CompressorFacts
<1>2. PICK i \in Search(c.clusters, final) :
         MayDecompress(c, c.clusters[i], AlignedLocal(c.clusters[i], final))
  BY DEF Decompress
<1>3. PICK local : local = AlignedLocal(c.clusters[i], final)
  OBVIOUS
<1>4. /\ i \in DOMAIN c.clusters /\ local \in LocalIds /\ local \in Int
      /\ HoldsLocal(c.clusters[i], local)
      /\ final = AllocatedFinal(c.clusters[i], local)
  BY <1>1, <1>3, ReservedFinal
<1>5. PICK s \in Sessions : s = c.clusters[i].session
  BY <1>1, <1>4, TableTypes
<1>6. i \in Chain(c.clusters, s)
  BY <1>4, <1>5 DEF Chain
<1>7. CASE local >= MaxLocal(c.clusters[i])
  <2>1. HoldsFinalizedLocal(c.clusters[i], local)
    BY <1>1, <1>4, <1>7, TableTypes DEF HoldsLocal, HoldsFinalizedLocal, MaxLocal
  <2>2. Nearest(Known(c), StableOf(s, local)) = {s}
    BY <1>4, <1>6, <2>1
  <2>3. Decompress(c, final) = {StableOf(s, local)}
    BY <1>4, <1>5, <2>1, FinalizedDecompresses
  <2>4. \E n : /\ NormalizeFinal(c, final) = {n}
               /\ Decompress(c, n) = {StableOf(s, local)}
               /\ Recompress(c, StableOf(s, local)) = {n}
    BY <1>4, <1>6, <2>1, <2>2, FinalizedMeans
  <2> QED
    BY <2>3, <2>4
<1>8. CASE /\ c.clusters[i].session = c.sessionId
           /\ local \notin c.normalizer
           /\ GenCount(local) <= c.generatedIdCount
  <2>1. PICK g \in 1..c.generatedIdCount : -g = local
    <3>1. -local \in 1..c.generatedIdCount /\ -(-local) = local
      BY <1>1, <1>4, <1>8 DEF LocalIds, GenCount
    <3> QED
      BY <3>1
  <2>2. i \in Chain(c.clusters, c.sessionId)
    BY <1>4, <1>8 DEF Chain
  <2>3. HoldsLocal(c.clusters[i], -g) /\ final = AllocatedFinal(c.clusters[i], -g)
    BY <1>4, <2>1
  <2>4. Issued(c, g, final)
    BY <1>8, <2>1, <2>2, <2>3 DEF Issued
  <2>5. Decompress(c, final) = {StableOf(c.sessionId, -g)}
    BY <2>4, IssuedDecompresses, GenCounts
  <2>6. Recompress(c, StableOf(c.sessionId, -g)) = {final}
    BY <2>4, IssuedRecompresses
  <2>7. NormalizeFinal(c, final) = {final}
    BY <2>2, <2>3, <2>4, OwnFinalNormalizes
  <2> QED
    BY <2>5, <2>6, <2>7
<1> QED
  BY <1>2, <1>3, <1>7, <1>8 DEF MayDecompress

(* Every final ID that decompresses is accepted from the wire, whoever sends
   it; the ID it becomes has the same UUID, and that UUID compresses into it,
   provided no session falls among the IDs of another.                     *)
THEOREM FinalsNormalizeHolds == SessionsApart => (Spec => []FinalsNormalize)
<1> SUFFICES ASSUME SessionsApart PROVE Spec => []FinalsNormalize
  OBVIOUS
<1>1. ASSUME IndInv PROVE FinalsNormalize
  <2> SUFFICES ASSUME NEW final \in ClaimedFinals, Decompress(compressor, final) # {}
               PROVE  \E u \in Decompress(compressor, final) :
                        \E n \in NormalizeToSessionSpace(compressor, final, LocalSession) :
                           /\ Decompress(compressor, final) = {u}
                           /\ NormalizeToSessionSpace(compressor, final, LocalSession) = {n}
                           /\ Decompress(compressor, n) = {u}
                           /\ Recompress(compressor, u) = {n}
    BY DEF FinalsNormalize
  <2>1. CompressorInv(compressor) /\ compressor.sessionId = LocalSession
    BY <1>1, IndInvFacts
  <2>2. final \in Nat
    <3>1. NextBaseFinal(Clusters) \in Nat
      BY <1>1, IndInvFacts, NextBaseFinalType
    <3> QED
      BY <3>1 DEF ClaimedFinals
  <2>3. NormalizeToSessionSpace(compressor, final, LocalSession) = NormalizeFinal(compressor, final)
    BY <2>2 DEF NormalizeToSessionSpace
  <2>4. \A g \in 1..compressor.generatedIdCount :
           Nearest(Known(compressor), StableOf(compressor.sessionId, -g)) = {compressor.sessionId}
    BY <1>1, <2>1, IssuedAreNear
  <2>5. \A s \in Sessions : \A i \in Chain(compressor.clusters, s) : \A local \in LocalIds :
           HoldsFinalizedLocal(compressor.clusters[i], local)
             => Nearest(Known(compressor), StableOf(s, local)) = {s}
    BY <1>1, FinalizedAreNear DEF Clusters
  <2> QED
    BY <2>1, <2>2, <2>3, <2>4, <2>5, FinalMeans
<1> QED
  BY <1>1, IndInvHolds, PTL

-----------------------------------------------------------------------------
FinalPermanent(final) ==
    Decompress(compressor, final) # {} =>
        Decompress(compressor', final) = Decompress(compressor, final)

(* Such a step keeps the UUID of every final ID. *)
LEMMA ExtendingFinals ==
    ASSUME IndInv, IndInv', Extends(compressor, compressor'), NEW final \in Int, final >= 0
    PROVE  FinalPermanent(final)
<1> SUFFICES ASSUME Decompress(compressor, final) # {}
             PROVE  Decompress(compressor', final) = Decompress(compressor, final)
  BY DEF FinalPermanent
<1> DEFINE local(i) == AlignedLocal(Clusters[i], final)
<1>1. PICK i \in Search(Clusters, final) : MayDecompress(compressor, Clusters[i], local(i))
  BY DEF Decompress, Clusters
<1>2. i \in DOMAIN Clusters /\ HoldsFinal(Clusters[i], final)
  BY DEF Search
<1>3. Search(Clusters, final) = {i} /\ local(i) \in LocalIds
  BY <1>1, IndInvFacts, ReservedFinal
<1>4. /\ Clusters \in Seq(Cluster) /\ Clusters' \in Seq(Cluster)
      /\ Grows(Clusters, Clusters')
      /\ TableInv(Clusters')
      /\ compressor'.sessionId = compressor.sessionId
      /\ compressor.generatedIdCount \in Nat /\ compressor'.generatedIdCount \in Nat
      /\ compressor.generatedIdCount <= compressor'.generatedIdCount
  BY IndInvFacts, CompressorFacts DEF Extends, IndInv, Clusters
<1>5. /\ i \in DOMAIN Clusters'
      /\ Clusters'[i].session = Clusters[i].session
      /\ HoldsFinal(Clusters'[i], final)
      /\ AlignedLocal(Clusters'[i], final) = local(i)
      /\ MaxLocal(Clusters'[i]) <= MaxLocal(Clusters[i])
  BY <1>2, <1>4, GrowsHolds
<1>6. Search(Clusters', final) = {i}
  BY <1>4, <1>5, FinalsDisjoint
<1>7. MayDecompress(compressor', Clusters'[i], local(i))
  <2>1. CASE local(i) >= MaxLocal(Clusters[i])
    <3>1. /\ local(i) \in Int
          /\ MaxLocal(Clusters[i]) \in Int /\ MaxLocal(Clusters'[i]) \in Int
      <4>1. /\ Clusters[i].baseLocal \in Int /\ Clusters[i].count \in Int
            /\ Clusters'[i].baseLocal \in Int /\ Clusters'[i].count \in Int
        BY <1>2, <1>4, <1>5, TableTypes
      <4> QED
        BY <1>3, <4>1 DEF LocalIds, MaxLocal
    <3>2. local(i) >= MaxLocal(Clusters'[i])
      BY <1>5, <2>1, <3>1
    <3> QED
      BY <3>2 DEF MayDecompress
  <2>2. CASE /\ Clusters[i].session = compressor.sessionId
             /\ local(i) \notin compressor.normalizer
             /\ GenCount(local(i)) <= compressor.generatedIdCount
    <3>1. local(i) \notin compressor'.normalizer
      BY <1>3, <2>2 DEF Extends
    <3>2. GenCount(local(i)) <= compressor'.generatedIdCount
      BY <1>3, <1>4, <2>2 DEF LocalIds, GenCount
    <3> QED
      BY <1>4, <1>5, <2>2, <3>1, <3>2 DEF MayDecompress
  <2> QED
    BY <1>1, <2>1, <2>2 DEF MayDecompress
<1>8. ~(final < 0)
  OBVIOUS
<1>9. Decompress(compressor, final) = {StableOf(Clusters[i].session, local(i))}
  <2>1. {j \in Search(Clusters, final) :
           MayDecompress(compressor, Clusters[j], AlignedLocal(Clusters[j], final))} = {i}
    BY <1>1, <1>3
  <2>2. Decompress(compressor, final) =
          {StableOf(Clusters[j].session, AlignedLocal(Clusters[j], final)) : j \in {i}}
    BY <1>8, <2>1 DEF Decompress, Clusters
  <2> QED
    BY <2>2
<1>10. Decompress(compressor', final) = {StableOf(Clusters'[i].session, local(i))}
  <2>1. {j \in Search(Clusters', final) :
           MayDecompress(compressor', Clusters'[j], AlignedLocal(Clusters'[j], final))} = {i}
    BY <1>5, <1>6, <1>7
  <2>2. Decompress(compressor', final) =
          {StableOf(Clusters'[j].session, AlignedLocal(Clusters'[j], final)) : j \in {i}}
    BY <1>8, <2>1 DEF Decompress, Clusters
  <2> QED
    BY <1>5, <2>2
<1> QED
  BY <1>5, <1>9, <1>10

(* lib.rs invariant 2: a final ID that decompresses does so forever, to the
   same UUID, whatever is generated, finalized or refused later.           *)
THEOREM FinalsPermanentHolds == Spec => FinalsPermanent
<1>1. ASSUME IndInv, IndInv', [Next]_vars
      PROVE  [\A final \in ClaimedFinals : FinalPermanent(final)]_vars
  BY <1>1, IndInvStep, ExtendingFinals DEF ClaimedFinals
<1>2. FinalsPermanent <=> [][\A final \in ClaimedFinals : FinalPermanent(final)]_vars
  BY DEF FinalsPermanent, FinalPermanent
<1> QED
  BY <1>1, <1>2, IndInvHolds, PTL DEF Spec

TranslationPermanent(s, g) ==
    LET final == TryConvertToFinal(Clusters, s, -g)
    IN  final # {} => TryConvertToFinal(Clusters', s, -g) = final

(* Such a step keeps the final ID of every finalized local ID. *)
LEMMA ExtendingTranslations ==
    ASSUME IndInv, IndInv', Extends(compressor, compressor'), NEW s \in Sessions, NEW g \in Int
    PROVE  TranslationPermanent(s, g)
<1> SUFFICES ASSUME TryConvertToFinal(Clusters, s, -g) # {}
             PROVE  TryConvertToFinal(Clusters', s, -g) = TryConvertToFinal(Clusters, s, -g)
  BY DEF TranslationPermanent
<1>1. PICK i \in Chain(Clusters, s) : HoldsFinalizedLocal(Clusters[i], -g)
  BY DEF TryConvertToFinal
<1>2. /\ Clusters \in Seq(Cluster) /\ Clusters' \in Seq(Cluster)
      /\ TableInv(Clusters) /\ TableInv(Clusters')
      /\ Grows(Clusters, Clusters')
      /\ i \in DOMAIN Clusters /\ Clusters[i].session = s
      /\ -g \in Int
  BY IndInvFacts, CompressorFacts DEF Extends, IndInv, Chain, Clusters
<1>3. /\ i \in DOMAIN Clusters' /\ Clusters'[i].session = s
      /\ HoldsFinalizedLocal(Clusters'[i], -g)
      /\ AllocatedFinal(Clusters'[i], -g) = AllocatedFinal(Clusters[i], -g)
  BY <1>1, <1>2, GrowsHolds
<1>4. i \in Chain(Clusters', s)
  BY <1>3 DEF Chain
<1>5. TryConvertToFinal(Clusters, s, -g) = {AllocatedFinal(Clusters[i], -g)}
  BY <1>1, <1>2, FinalizedLocalConverts
<1>6. TryConvertToFinal(Clusters', s, -g) = {AllocatedFinal(Clusters'[i], -g)}
  BY <1>2, <1>3, <1>4, FinalizedLocalConverts
<1> QED
  BY <1>3, <1>5, <1>6

(* lib.rs invariant 3: the translation of a received local ID to a final ID
   never changes.                                                          *)
THEOREM TranslationsPermanentHolds == Spec => TranslationsPermanent
<1>1. ASSUME IndInv, IndInv', [Next]_vars
      PROVE  [\A s \in Sessions : \A g \in 1..MaxGenerated : TranslationPermanent(s, g)]_vars
  BY <1>1, IndInvStep, ExtendingTranslations
<1>2. TranslationsPermanent <=>
        [][\A s \in Sessions : \A g \in 1..MaxGenerated : TranslationPermanent(s, g)]_vars
  BY DEF TranslationsPermanent, TranslationPermanent
<1> QED
  BY <1>1, <1>2, IndInvHolds, PTL DEF Spec

TokenPermanent(s) == Token(compressor', s) = Token(compressor, s)

(* Such a step keeps the token of every known session. *)
LEMMA ExtendingTokens ==
    ASSUME IndInv, IndInv', Extends(compressor, compressor'), NEW s \in Known(compressor)
    PROVE  TokenPermanent(s)
<1>1. Distinct(compressor.sessions) /\ Distinct(compressor'.sessions)
  BY DEF IndInv, CompressorInv
<1>2. PICK i \in DOMAIN compressor.sessions : compressor.sessions[i] = s
  BY DEF Known, Elements
<1>3. i \in DOMAIN compressor'.sessions /\ compressor'.sessions[i] = s
  BY <1>2 DEF Extends
<1>4. s \in Known(compressor')
  BY <1>3 DEF Known, Elements
<1>5. (CHOOSE j \in DOMAIN compressor.sessions : compressor.sessions[j] = s) = i
  BY <1>1, <1>2 DEF Distinct
<1>6. (CHOOSE j \in DOMAIN compressor'.sessions : compressor'.sessions[j] = s) = i
  BY <1>1, <1>3 DEF Distinct
<1>7. Token(compressor, s) = i - 1
  BY <1>5 DEF Token
<1>8. Token(compressor', s) = i - 1
  BY <1>4, <1>6 DEF Token
<1> QED
  BY <1>7, <1>8 DEF TokenPermanent

(* A session token stays valid for the lifetime of the compressor, also when
   a refused range adds a session (compressor.rs:104-107, 237).            *)
THEOREM TokensPermanentHolds == Spec => TokensPermanent
<1>1. ASSUME IndInv, IndInv', [Next]_vars
      PROVE  [\A s \in Known(compressor) : TokenPermanent(s)]_vars
  BY <1>1, IndInvStep, ExtendingTokens
<1>2. TokensPermanent <=> [][\A s \in Known(compressor) : TokenPermanent(s)]_vars
  BY DEF TokensPermanent, TokenPermanent
<1> QED
  BY <1>1, <1>2, IndInvHolds, PTL DEF Spec
=============================================================================
