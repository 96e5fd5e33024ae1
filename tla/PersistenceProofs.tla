------------------------- MODULE PersistenceProofs --------------------------
(***************************************************************************)
(* What loads from a serialized compressor: from the summary of a document *)
(* the tables of its writer, in a new session, and from the local state of *)
(* a session the very compressor that wrote it.                            *)
(***************************************************************************)
EXTENDS Persistence, CompressorProofs, FiniteSetTheorems

-----------------------------------------------------------------------------
(* UUIDs: what the conversions of StableIds.tla preserve, for every width of
   the fields.  All of it rests on how a number splits at a multiple of k. *)

(* A number below k, put below a multiple of k, comes off again. *)
LEMMA Split ==
    ASSUME NEW k \in Nat \ {0}, NEW high \in Nat, NEW low \in 0..(k - 1)
    PROVE  /\ (high * k + low) % k = low
           /\ (high * k + low) \div k = high
           /\ high * k + low \in Nat
BY SMT

(* Splitting a number at k and putting it together again gives the number. *)
LEMMA Rejoin ==
    ASSUME NEW k \in Nat \ {0}, NEW n \in Nat
    PROVE  /\ (n \div k) * k + (n % k) = n
           /\ n \div k \in Nat
           /\ n % k \in 0..(k - 1)
BY SMT

LEMMA QuotientBelow ==
    ASSUME NEW k \in Nat \ {0}, NEW limit \in Nat, NEW n \in Nat, n < limit * k
    PROVE  n \div k < limit
<1>1. (n \div k) * k + (n % k) = n /\ n \div k \in Nat /\ n % k \in 0..(k - 1)
  BY Rejoin
<1>2. SUFFICES ASSUME n \div k >= limit PROVE FALSE
  BY <1>1
<1>3. (n \div k) * k >= limit * k
  BY <1>1, <1>2
<1> QED
  BY <1>1, <1>3

(* The fields that are put into a UUID are the fields it has. *)
LEMMA FieldsOfUuid ==
    ASSUME NEW upper \in Nat, NEW version \in 0..15, NEW middle \in 0..(MiddleSize - 1),
           NEW variant \in 0..3, NEW lower \in 0..(LowerSize - 1),
           NEW uuid, uuid = UuidOf(upper, version, middle, variant, lower)
    PROVE  /\ Upper(uuid) = upper /\ Version(uuid) = version
           /\ Middle(uuid) = middle /\ Variant(uuid) = variant
           /\ Lower(uuid) = lower
<1> DEFINE fromVersion == upper * 16 + version
           fromMiddle == fromVersion * MiddleSize + middle
           fromVariant == fromMiddle * 4 + variant
<1> USE FieldSizesAssumption
<1>1. fromVersion \in Nat /\ fromVersion % 16 = version /\ fromVersion \div 16 = upper
  BY Split
<1>2. /\ fromMiddle \in Nat
      /\ fromMiddle % MiddleSize = middle /\ fromMiddle \div MiddleSize = fromVersion
  BY <1>1, Split
<1>3. fromVariant \in Nat /\ fromVariant % 4 = variant /\ fromVariant \div 4 = fromMiddle
  BY <1>2, Split
<1>4. uuid = fromVariant * LowerSize + lower
  BY DEF UuidOf
<1> HIDE DEF fromVersion, fromMiddle, fromVariant
<1>5. uuid % LowerSize = lower /\ uuid \div LowerSize = fromVariant
  BY <1>3, <1>4, Split
<1>6. FromVariant(uuid) = fromVariant /\ Lower(uuid) = lower
  BY <1>5 DEF FromVariant, Lower
<1>7. FromMiddle(uuid) = fromMiddle /\ Variant(uuid) = variant
  BY <1>3, <1>6 DEF FromMiddle, Variant
<1>8. FromVersion(uuid) = fromVersion /\ Middle(uuid) = middle
  BY <1>2, <1>7 DEF FromVersion, Middle
<1>9. Version(uuid) = version /\ Upper(uuid) = upper
  BY <1>1, <1>8 DEF Version, Upper
<1> QED
  BY <1>6, <1>7, <1>8, <1>9

(* The three fields of a StableId, of which ToUuid makes those of the UUID. *)
LEMMA FieldsOfStable ==
    ASSUME NEW stable \in Nat
    PROVE  LET fromMiddle == stable \div LowerSize
           IN  /\ stable % LowerSize \in 0..(LowerSize - 1)
               /\ fromMiddle % MiddleSize \in 0..(MiddleSize - 1)
               /\ (fromMiddle \div MiddleSize) % UpperSize \in 0..(UpperSize - 1)
               /\ fromMiddle \in Nat /\ fromMiddle \div MiddleSize \in Nat
<1> USE FieldSizesAssumption
<1>1. stable \div LowerSize \in Nat /\ stable % LowerSize \in 0..(LowerSize - 1)
  BY Rejoin
<1>2. /\ (stable \div LowerSize) \div MiddleSize \in Nat
      /\ (stable \div LowerSize) % MiddleSize \in 0..(MiddleSize - 1)
  BY <1>1, Rejoin
<1>3. ((stable \div LowerSize) \div MiddleSize) % UpperSize \in 0..(UpperSize - 1)
  BY <1>2, Rejoin
<1> QED
  BY <1>1, <1>2, <1>3

(* Whatever number is added to a StableId, through whatever carries across
   the version and variant bits, its UUID is one of version 4 and is never
   refused when it comes back (stable_id.rs:54-63, session_id.rs:29-42).   *)
THEOREM UuidsAreVersion4 == \A stable \in Nat : IsVersion4(ToUuid(stable))
<1> SUFFICES ASSUME NEW stable \in Nat PROVE IsVersion4(ToUuid(stable))
  OBVIOUS
<1> DEFINE fromMiddle == stable \div LowerSize
           upper == (fromMiddle \div MiddleSize) % UpperSize
           middle == fromMiddle % MiddleSize
           lower == stable % LowerSize
<1>1. upper \in 0..(UpperSize - 1) /\ middle \in 0..(MiddleSize - 1) /\ lower \in 0..(LowerSize - 1)
  BY FieldsOfStable
<1>2. ToUuid(stable) = UuidOf(upper, 4, middle, 2, lower)
  BY DEF ToUuid
<1> HIDE DEF fromMiddle, upper, middle, lower
<1>3. upper \in Nat
  BY <1>1, FieldSizesAssumption
<1>4. Version(ToUuid(stable)) = 4 /\ Variant(ToUuid(stable)) = 2
  <2>1. 4 \in 0..15 /\ 2 \in 0..3
    OBVIOUS
  <2> QED BY <1>1, <1>2, <1>3, <2>1, FieldsOfUuid
<1> QED
  BY <1>4 DEF IsVersion4

(* A StableId below 2^122 is what its UUID is read back as: no two of them
   share a UUID, and what a client decompresses it can recompress.         *)
THEOREM StableIdsRoundTrip ==
    \A stable \in 0..(StableLimit - 1) : FromUuidString(ToUuid(stable)) = {stable}
<1> USE FieldSizesAssumption
<1> SUFFICES ASSUME NEW stable \in Nat, stable < StableLimit
             PROVE FromUuidString(ToUuid(stable)) = {stable}
  BY DEF StableLimit
<1> DEFINE fromMiddle == stable \div LowerSize
           fromUpper == fromMiddle \div MiddleSize
           middle == fromMiddle % MiddleSize
           lower == stable % LowerSize
<1>1. /\ middle \in 0..(MiddleSize - 1) /\ lower \in 0..(LowerSize - 1)
      /\ fromMiddle \in Nat /\ fromUpper \in Nat
  BY FieldsOfStable
<1>2. fromMiddle < UpperSize * MiddleSize
  BY QuotientBelow DEF StableLimit
<1>3. fromUpper < UpperSize
  <2> HIDE DEF fromMiddle
  <2> QED BY <1>1, <1>2, QuotientBelow
<1>4. ToUuid(stable) = UuidOf(fromUpper % UpperSize, 4, middle, 2, lower)
  BY DEF ToUuid
<1>5. fromMiddle * LowerSize + lower = stable
  BY Rejoin
<1>6. fromUpper * MiddleSize + middle = fromMiddle
  <2> HIDE DEF fromMiddle
  <2> QED BY <1>1, Rejoin
<1>7. IsVersion4(ToUuid(stable))
  BY UuidsAreVersion4
<1> HIDE DEF fromMiddle, fromUpper, middle, lower
<1>8. fromUpper % UpperSize = fromUpper
  <2>1. (0 * UpperSize + fromUpper) % UpperSize = fromUpper
    BY <1>1, <1>3, Split
  <2> QED BY <1>1, <2>1
<1>9. /\ Upper(ToUuid(stable)) = fromUpper
      /\ Middle(ToUuid(stable)) = middle
      /\ Lower(ToUuid(stable)) = lower
  <2>1. 4 \in 0..15 /\ 2 \in 0..3
    OBVIOUS
  <2>2. ToUuid(stable) = UuidOf(fromUpper, 4, middle, 2, lower)
    BY <1>4, <1>8
  <2> QED BY <1>1, <2>1, <2>2, FieldsOfUuid
<1>10. FromUuid(ToUuid(stable)) = stable
  BY <1>5, <1>6, <1>9 DEF FromUuid
<1> QED
  BY <1>7, <1>10 DEF FromUuidString

(* Conversely a version 4 UUID is written as it was read: what a session ID
   is called never changes on its way through a compressor.                *)
THEOREM UuidsRoundTrip ==
    \A upper \in 0..(UpperSize - 1) : \A middle \in 0..(MiddleSize - 1) :
        \A lower \in 0..(LowerSize - 1) :
            LET uuid == UuidOf(upper, 4, middle, 2, lower)
            IN  ToUuid(FromUuid(uuid)) = uuid
<1> USE FieldSizesAssumption
<1> SUFFICES ASSUME NEW upper \in 0..(UpperSize - 1), NEW middle \in 0..(MiddleSize - 1),
                    NEW lower \in 0..(LowerSize - 1)
             PROVE  LET uuid == UuidOf(upper, 4, middle, 2, lower)
                    IN  ToUuid(FromUuid(uuid)) = uuid
  OBVIOUS
<1> DEFINE uuid == UuidOf(upper, 4, middle, 2, lower)
           fromMiddle == upper * MiddleSize + middle
           stable == fromMiddle * LowerSize + lower
<1>1. Upper(uuid) = upper /\ Middle(uuid) = middle /\ Lower(uuid) = lower
  BY FieldsOfUuid
<1>2. FromUuid(uuid) = stable
  <2> HIDE DEF uuid
  <2> QED BY <1>1 DEF FromUuid
<1>3. /\ fromMiddle \in Nat
      /\ fromMiddle % MiddleSize = middle /\ fromMiddle \div MiddleSize = upper
  BY Split
<1>4. stable % LowerSize = lower /\ stable \div LowerSize = fromMiddle
  <2> HIDE DEF fromMiddle
  <2> QED BY <1>3, Split
<1>5. upper % UpperSize = upper
  <2>1. (0 * UpperSize + upper) % UpperSize = upper
    BY Split
  <2> QED BY <2>1
<1> HIDE DEF fromMiddle, stable
<1>6. ToUuid(stable) = uuid
  BY <1>3, <1>4, <1>5 DEF ToUuid
<1> HIDE DEF uuid
<1>7. ToUuid(FromUuid(uuid)) = uuid
  BY <1>2, <1>6
<1> QED
  BY <1>7 DEF uuid

(* The rewrite packs every UUID into the number that Rust packs it into, and
   unpacks every number, one beyond the last UUID included, as Rust does:
   UUIDs one writes into a document are those the other reads
   (utilities.ts:148-173, stable_id.rs:39-63).                             *)
THEOREM RewritePacksAlike ==
    /\ \A uuid \in Nat : NumericUuidFromStableId(uuid) = FromUuid(uuid)
    /\ \A stable \in Nat : StableIdFromNumericUuid(stable) = ToUuid(stable)
<1> USE FieldSizesAssumption
<1>1. ASSUME NEW uuid \in Nat
      PROVE  NumericUuidFromStableId(uuid) = FromUuid(uuid)
  <2>1. Upper(uuid) \in Nat /\ Middle(uuid) \in Nat /\ Lower(uuid) \in Nat
    <3>1. FromVariant(uuid) \in Nat /\ Lower(uuid) \in Nat
      BY Rejoin DEF FromVariant, Lower
    <3>2. FromMiddle(uuid) \in Nat
      BY <3>1, Rejoin DEF FromMiddle
    <3>3. FromVersion(uuid) \in Nat
      BY <3>2, Rejoin DEF FromVersion
    <3>4. Middle(uuid) \in Nat
      <4>1. FromMiddle(uuid) % MiddleSize \in 0..(MiddleSize - 1)
        BY <3>2, Rejoin
      <4> QED BY <4>1 DEF Middle
    <3> QED
      BY <3>1, <3>3, <3>4, Rejoin DEF Upper
  <2>2. PICK upper, middle, lower \in Nat :
            upper = Upper(uuid) /\ middle = Middle(uuid) /\ lower = Lower(uuid)
    BY <2>1
  <2>3. (middle * (4 * LowerSize)) \div 4 = middle * LowerSize
    <3>1. middle * (4 * LowerSize) = (middle * LowerSize) * 4 + 0
      OBVIOUS
    <3> QED
      BY <3>1, Split
  <2>4. (upper * (16 * MiddleSize * 4 * LowerSize)) \div (16 * 4) = upper * (MiddleSize * LowerSize)
    <3>1. upper * (16 * MiddleSize * 4 * LowerSize) = (upper * (MiddleSize * LowerSize)) * 64 + 0
      OBVIOUS
    <3>2. upper * (MiddleSize * LowerSize) \in Nat
      OBVIOUS
    <3> QED
      BY <3>1, <3>2, Split
  <2>5. upper * (MiddleSize * LowerSize) + middle * LowerSize + lower
            = (upper * MiddleSize + middle) * LowerSize + lower
    OBVIOUS
  <2> QED
    BY <2>2, <2>3, <2>4, <2>5 DEF NumericUuidFromStableId, FromUuid
<1>2. ASSUME NEW stable \in Nat
      PROVE  StableIdFromNumericUuid(stable) = ToUuid(stable)
  <2>1. /\ stable % LowerSize \in Nat
        /\ (stable \div LowerSize) % MiddleSize \in Nat
        /\ ((stable \div LowerSize) \div MiddleSize) % UpperSize \in Nat
    BY FieldsOfStable, Rejoin
  <2>2. PICK upper, middle, lower \in Nat :
            /\ upper = ((stable \div LowerSize) \div MiddleSize) % UpperSize
            /\ middle = (stable \div LowerSize) % MiddleSize
            /\ lower = stable % LowerSize
    BY <2>1
  <2>3. UuidOf(upper, 4, middle, 2, lower)
            = (upper * (MiddleSize * LowerSize)) * (16 * 4) + 4 * (MiddleSize * 4 * LowerSize)
                  + (middle * LowerSize) * 4 + 2 * LowerSize + lower
    BY DEF UuidOf
  <2> QED
    BY <2>2, <2>3 DEF StableIdFromNumericUuid, ToUuid
<1> QED
  BY <1>1, <1>2

-----------------------------------------------------------------------------
(* The sessions that are loaded: the own one first, and after it those that
   were written.                                                           *)
LEMMA SessionsLoad ==
    ASSUME NEW own \in Sessions, NEW sessions \in Seq(Sessions)
    PROVE  LET loaded == LoadSessions(<<own>>, sessions)
           IN  /\ loaded \in Seq(Sessions)
               /\ loaded # <<>> /\ loaded[1] = own
               /\ Distinct(loaded)
               /\ Elements(loaded) = {own} \cup Elements(sessions)
<1> DEFINE n == Len(sessions)
           Loaded(f) == f = [k \in 0..n |->
                               IF k = 0 THEN <<own>> ELSE GetOrCreate(f[k - 1], sessions[k])]
           loading == CHOOSE f : Loaded(f)
<1>1. n \in Nat /\ \A k \in 1..n : sessions[k] \in Sessions
  OBVIOUS
<1>2. \E f : Loaded(f)
  <2> DEFINE V == Seq(Sessions)
             step == [x \in Nat \X V |->
                        IF x[1] \in 1..n THEN GetOrCreate(x[2], sessions[x[1]]) ELSE x[2]]
  <2>1. <<own>> \in V
    OBVIOUS
  <2>2. step \in [Nat \X V -> V]
    BY <1>1, GetOrCreateEffect
  <2>3. PICK f \in [0..n -> V] : IsRecursive(f, n, <<own>>, step)
    <3> HIDE DEF step, V
    <3> QED BY <1>1, <2>1, <2>2, Recursion
  <2>4. ASSUME NEW k \in 0..n
        PROVE  f[k] = IF k = 0 THEN <<own>> ELSE GetOrCreate(f[k - 1], sessions[k])
    <3>1. CASE k = 0
      BY <3>1, <2>3 DEF IsRecursive
    <3>2. CASE k # 0
      <4>1. k \in 1..n /\ k \in Nat /\ k - 1 \in 0..n
        BY <3>2, <1>1
      <4>2. f[k] = step[<<k, f[k - 1]>>] /\ f[k - 1] \in V
        BY <3>2, <4>1, <2>3 DEF IsRecursive
      <4>3. step[<<k, f[k - 1]>>] = GetOrCreate(f[k - 1], sessions[k])
        BY <4>1, <4>2
      <4> QED BY <3>2, <4>2, <4>3
    <3> QED BY <3>1, <3>2
  <2>5. f = [k \in 0..n |-> IF k = 0 THEN <<own>> ELSE GetOrCreate(f[k - 1], sessions[k])]
    BY <2>3, <2>4
  <2> QED BY <2>5
<1>3. Loaded(loading)
  <2> HIDE DEF Loaded
  <2> QED BY <1>2
<1>4. LoadSessions(<<own>>, sessions) = loading[n]
  BY DEF LoadSessions
<1> DEFINE Good(k) ==
              /\ loading[k] \in Seq(Sessions)
              /\ loading[k] # <<>> /\ loading[k][1] = own
              /\ Distinct(loading[k])
              /\ Elements(loading[k]) = {own} \cup {sessions[j] : j \in 1..k}
           S == {k \in Nat : k \in 0..n => Good(k)}
<1> HIDE DEF loading
<1>5. 0 \in S
  <2>1. 0 \in 0..n
    BY <1>1
  <2>2. loading[0] = <<own>>
    BY <1>3, <2>1
  <2>3. Good(0)
    BY <2>2 DEF Distinct, Elements
  <2> QED BY <2>3
<1>6. ASSUME NEW k \in S PROVE k + 1 \in S
  <2> SUFFICES ASSUME k + 1 \in 0..n PROVE Good(k + 1)
    OBVIOUS
  <2>1. k \in Nat /\ k \in 0..n /\ k + 1 # 0 /\ (k + 1) - 1 = k /\ k + 1 \in 1..n
    BY <1>1
  <2>2. Good(k)
    BY <2>1
  <2>3. loading[k + 1] = GetOrCreate(loading[k], sessions[k + 1])
    BY <1>3, <2>1
  <2> DEFINE next == GetOrCreate(loading[k], sessions[k + 1])
  <2>4. /\ next \in Seq(Sessions)
        /\ Elements(next) = Elements(loading[k]) \cup {sessions[k + 1]}
        /\ \A i \in DOMAIN loading[k] : i \in DOMAIN next /\ next[i] = loading[k][i]
        /\ Distinct(next)
    BY <1>1, <2>1, <2>2, GetOrCreateEffect
  <2>5. 1 \in DOMAIN loading[k]
    BY <2>2
  <2>6. next # <<>> /\ next[1] = own
    BY <2>2, <2>4, <2>5
  <2>7. {sessions[j] : j \in 1..(k + 1)} = {sessions[j] : j \in 1..k} \cup {sessions[k + 1]}
    <3>1. 1..(k + 1) = (1..k) \cup {k + 1}
      BY <2>1
    <3> QED BY <3>1
  <2> HIDE DEF next
  <2>8. Elements(next) = {own} \cup {sessions[j] : j \in 1..(k + 1)}
    BY <2>2, <2>4, <2>7
  <2>9. loading[k + 1] = next
    BY <2>3 DEF next
  <2> QED BY <2>4, <2>6, <2>8, <2>9
<1>7. Good(n)
  <2> HIDE DEF S
  <2>1. S \in SUBSET Nat
    BY DEF S
  <2>2. n \in S
    BY <1>1, <1>5, <1>6, <2>1, SetInduction
  <2> QED BY <1>1, <2>2 DEF S
<1>8. {sessions[j] : j \in 1..n} = Elements(sessions)
  BY DEF Elements
<1> QED BY <1>4, <1>7, <1>8
-----------------------------------------------------------------------------
(* Sequences of fields. *)

(* Fields of the same width p are found at multiples of p. *)
LEMMA FlattenFields ==
    ASSUME NEW p \in {1, 2, 3, 4, 6}, NEW n \in Nat, NEW fields \in [1..n -> Seq(Int)],
           \A i \in 1..n : Len(fields[i]) = p
    PROVE  /\ Seqs!FlattenSeq(fields) \in Seq(Int)
           /\ FieldsFollow(Seqs!FlattenSeq(fields), fields, n, p)
<1>1. Len(fields) = n /\ DOMAIN fields = 1..n
  OBVIOUS
<1>2. CASE n = 0
  <2>1. Seqs!FlattenSeq(fields) = fields /\ fields = <<>>
    BY <1>1, <1>2 DEF Seqs!FlattenSeq
  <2>2. Len(<<>>) = 0 /\ <<>> \in Seq(Int) /\ n * p = 0
    BY <1>2, Places
  <2> QED BY <1>2, <2>1, <2>2 DEF FieldsFollow
<1>3. CASE n # 0
  <2>1. Seqs!FlattenSeq(fields) = Flattened(fields)
    BY <1>1, <1>3 DEF Seqs!FlattenSeq, Flattened
  <2> DEFINE flattened == Flattened(fields)
  <2>2. flattened \in Seq(Int) /\ FieldsFollow(flattened, fields, n, p)
    BY <1>3, FlattenedFollow
  <2> HIDE DEF flattened
  <2>3. Seqs!FlattenSeq(fields) = flattened
    BY <2>1 DEF flattened
  <2> QED BY <2>2, <2>3
<1> QED BY <1>2, <1>3

-----------------------------------------------------------------------------
(* Loading the clusters. *)

(* It is loaded with the bases that were not written. *)
LEMMA LoadNext ==
    ASSUME NEW t, TableInv(t), NEW k \in 0..Len(t), k < Len(t),
           NEW sessions, NEW w, sessions[w.index + 1] = t[k + 1].session,
           w.capacity = t[k + 1].capacity, w.count = t[k + 1].count
    PROVE  LoadCluster(Prefix(t, k), sessions, w) = Prefix(t, k + 1)
<1> DEFINE p == Prefix(t, k)
           s == t[k + 1].session
<1>1. /\ t[k + 1] \in Cluster
      /\ Append(p, t[k + 1]) = Prefix(t, k + 1)
      /\ NextBaseFinal(p) = t[k + 1].baseFinal
      /\ NextBaseLocal(p, s) = t[k + 1].baseLocal
  <2>1. t \in Seq(Cluster)
    BY DEF TableInv
  <2>2. Append(p, t[k + 1]) = Prefix(t, k + 1)
    BY <2>1, PrefixTypes
  <2> HIDE DEF p, s
  <2>3. p = Prefix(t, k) /\ s = t[k + 1].session
    BY DEF p, s
  <2>4. /\ t[k + 1] \in Cluster
        /\ NextBaseFinal(p) = t[k + 1].baseFinal
        /\ Chain(p, s) = {} => t[k + 1].baseLocal = -1
        /\ Chain(p, s) # {} =>
              TailCluster(p, s).baseLocal - TailCluster(p, s).capacity = t[k + 1].baseLocal
    <3>1. /\ t[k + 1] \in Cluster
          /\ NextBaseFinal(Prefix(t, k)) = t[k + 1].baseFinal
          /\ Chain(Prefix(t, k), t[k + 1].session) = {} => t[k + 1].baseLocal = -1
          /\ Chain(Prefix(t, k), t[k + 1].session) # {} =>
                TailCluster(Prefix(t, k), t[k + 1].session).baseLocal
                    - TailCluster(Prefix(t, k), t[k + 1].session).capacity = t[k + 1].baseLocal
      BY ONLY TableInv(t), k \in 0..Len(t), k < Len(t), NextCluster
    <3> QED BY ONLY <2>3, <3>1
  <2> QED BY <2>2, <2>4 DEF NextBaseLocal
<1> HIDE DEF p
<1>2. NewCluster(p, s, NextBaseLocal(p, s), w.capacity, w.count) = t[k + 1]
  <2>1. t[k + 1] = [session |-> s, baseFinal |-> t[k + 1].baseFinal,
                    baseLocal |-> t[k + 1].baseLocal,
                    capacity |-> t[k + 1].capacity, count |-> t[k + 1].count]
    BY <1>1 DEF Cluster
  <2> QED BY <1>1, <2>1 DEF NewCluster
<1> QED BY <1>1, <1>2 DEF LoadCluster, p

(* The clusters load as they were written, if each is written with the place
   of its session, its capacity and its count.                             *)
LEMMA ClustersLoad ==
    ASSUME NEW t, TableInv(t), NEW sessions, NEW written, Len(written) = Len(t),
           \A k \in 1..Len(t) : /\ sessions[written[k].index + 1] = t[k].session
                                /\ written[k].capacity = t[k].capacity
                                /\ written[k].count = t[k].count
    PROVE  LoadClusters(sessions, written) = t
<1> DEFINE n == Len(t)
           Loaded(f) == f = [k \in 0..n |->
                IF k = 0 THEN <<>> ELSE LoadCluster(f[k - 1], sessions, written[k])]
           loading == CHOOSE f : Loaded(f)
<1>1. n \in Nat /\ t \in Seq(Cluster)
  BY DEF TableInv
<1>2. LoadClusters(sessions, written) = loading[n]
  BY DEF LoadClusters
<1>3. ASSUME NEW k \in 1..n
      PROVE  LoadCluster(Prefix(t, k - 1), sessions, written[k]) = Prefix(t, k)
  <2> DEFINE i == k - 1
  <2>1. i \in 0..n /\ i < n /\ k = i + 1
    BY <1>1
  <2>2. /\ sessions[written[i + 1].index + 1] = t[i + 1].session
        /\ written[i + 1].capacity = t[i + 1].capacity
        /\ written[i + 1].count = t[i + 1].count
    BY <2>1
  <2> HIDE DEF i
  <2>3. LoadCluster(Prefix(t, i), sessions, written[i + 1]) = Prefix(t, i + 1)
    BY <2>1, <2>2, LoadNext
  <2> QED BY <2>1, <2>3 DEF i
<1>4. Prefix(t, 0) = <<>>
  BY DEF Prefix
<1>5. Loaded(loading)
  <2> DEFINE f == [k \in 0..n |-> Prefix(t, k)]
  <2>1. ASSUME NEW k \in 0..n
        PROVE  f[k] = IF k = 0 THEN <<>> ELSE LoadCluster(f[k - 1], sessions, written[k])
    <3>1. CASE k = 0
      BY <1>4, <3>1
    <3>2. CASE k # 0
      <4>1. k \in 1..n /\ k - 1 \in 0..n
        BY <1>1, <3>2
      <4> QED BY <1>3, <3>2, <4>1
    <3> QED BY <3>1, <3>2
  <2>2. Loaded(f)
    BY <2>1
  <2> HIDE DEF Loaded
  <2> QED BY <2>2
<1> DEFINE S == {k \in Nat : k \in 0..n => loading[k] = Prefix(t, k)}
<1> HIDE DEF loading
<1>6. 0 \in S
  <2>1. 0 \in 0..n
    BY <1>1
  <2> QED BY <1>4, <1>5, <2>1
<1>7. ASSUME NEW k \in S PROVE k + 1 \in S
  <2> SUFFICES ASSUME k + 1 \in 0..n PROVE loading[k + 1] = Prefix(t, k + 1)
    OBVIOUS
  <2>1. k \in Nat /\ k \in 0..n /\ k + 1 \in 1..n /\ k + 1 # 0 /\ (k + 1) - 1 = k
    BY <1>1
  <2>2. loading[k + 1] = LoadCluster(loading[k], sessions, written[k + 1])
    BY <1>5, <2>1
  <2>3. loading[k] = Prefix(t, k)
    BY <2>1
  <2>4. LoadCluster(Prefix(t, (k + 1) - 1), sessions, written[k + 1]) = Prefix(t, k + 1)
    BY <1>3, <2>1
  <2> QED BY <2>1, <2>2, <2>3, <2>4
<1>8. loading[n] = Prefix(t, n)
  <2>1. S \in SUBSET Nat
    OBVIOUS
  <2>2. n \in S
    <3> HIDE DEF S
    <3> QED BY <1>1, <1>6, <1>7, <2>1, SetInduction
  <2> QED BY <1>1, <2>2
<1>9. Prefix(t, n) = t
  BY <1>1 DEF Prefix
<1> QED BY <1>2, <1>8, <1>9

-----------------------------------------------------------------------------
(* The words of a summary. *)

(* A number is read as it was written, in 32 bits if it fits. *)
LEMMA NumbersRead ==
    ASSUME NEW n \in Nat
    PROVE  /\ U64(n) \in Seq(Int) /\ Len(U64(n)) = 2
           /\ U64(n)[1] + U64(n)[2] * NarrowLimit = n
           /\ U32(n) \in Seq(Int) /\ Len(U32(n)) = 1
           /\ n < NarrowLimit => U32(n)[1] = n
<1>1. NarrowLimit \in Nat \ {0}
  BY NarrowLimitAssumption DEF Positive
<1> DEFINE low == n % NarrowLimit
           high == n \div NarrowLimit
<1>2. high * NarrowLimit + low = n /\ high \in Nat /\ low \in 0..(NarrowLimit - 1)
  BY <1>1, Rejoin
<1>3. n < NarrowLimit => low = n
  <2>1. ASSUME n < NarrowLimit PROVE low = n
    <3>1. n < 1 * NarrowLimit /\ 1 \in Nat
      BY <1>1, <2>1
    <3>2. high < 1
      BY <1>1, <3>1, QuotientBelow
    <3>3. high = 0
      BY <1>2, <3>2
    <3>4. 0 * NarrowLimit + low = low
      BY <1>1, <1>2
    <3> QED BY <1>2, <3>3, <3>4
  <2> QED BY <2>1
<1>4. U64(n) = <<low, high>> /\ U32(n) = <<low>>
  BY DEF U64, U32
<1>5. low \in Int /\ high \in Int /\ high * NarrowLimit \in Int
  BY <1>1, <1>2
<1> HIDE DEF low, high
<1>6. <<low, high>>[1] + <<low, high>>[2] * NarrowLimit = n
  BY <1>2, <1>5
<1> QED BY <1>3, <1>4, <1>5, <1>6

LEMMA FieldStands ==
    ASSUME NEW p \in {1, 2, 3, 4, 6}, NEW n \in Nat, NEW fields \in [1..n -> Seq(Int)],
           \A i \in 1..n : Len(fields[i]) = p,
           NEW words, NEW at \in Nat, StandsAt(words, at, Seqs!FlattenSeq(fields)),
           NEW k \in 1..n, NEW i, i = at + (k - 1) * p
    PROVE  i \in Nat /\ StandsAt(words, i, fields[k])
<1> DEFINE flat == Seqs!FlattenSeq(fields)
<1>1. FieldsFollow(flat, fields, n, p)
  BY FlattenFields
<1> HIDE DEF flat
<1>2. StandsAt(words, at, flat)
  BY DEF flat
<1>3. \A m : m = at + (k - 1) * p => m \in Nat /\ StandsAt(words, m, fields[k])
  BY <1>1, <1>2, FieldIsAt
<1> QED BY <1>3

(* Where the parts of what is finalized are. *)
LEMMA Layout ==
    ASSUME NEW capacity \in Seq(Int), Len(capacity) = 2,
           NEW sessions \in Seq(Int), Len(sessions) = 2,
           NEW ids \in Seq(Int), NEW n, n = Len(ids),
           NEW clusters \in Seq(Int), Len(clusters) = 2,
           NEW fields \in Seq(Int), NEW words, NEW i \in Nat,
           StandsAt(words, i, capacity \o sessions \o ids \o clusters \o fields)
    PROVE  /\ StandsAt(words, i, capacity)
           /\ StandsAt(words, i + 2, sessions)
           /\ StandsAt(words, i + 4, ids)
           /\ StandsAt(words, i + 4 + n, clusters)
           /\ StandsAt(words, i + 6 + n, fields)
<1> DEFINE a == capacity \o sessions
           b == a \o ids
           c == b \o clusters
           d == c \o fields
           atSessions == i + 2
           atIds == i + 4
           atClusters == i + 4 + n
           atFields == i + 6 + n
<1>0. /\ capacity \in Seq(Int) /\ sessions \in Seq(Int) /\ ids \in Seq(Int)
      /\ clusters \in Seq(Int) /\ fields \in Seq(Int) /\ i \in Nat
  OBVIOUS
<1>1. n \in Nat
  OBVIOUS
<1>2. a \in Seq(Int) /\ Len(a) = 4
  <2>1. a \in Seq(Int) /\ Len(a) = Len(capacity) + Len(sessions)
    BY ONLY <1>0, JoinedWords
  <2> QED BY <2>1
<1>3. b \in Seq(Int) /\ Len(b) = 4 + n
  <2> HIDE DEF a
  <2>1. b \in Seq(Int) /\ Len(b) = Len(a) + Len(ids)
    BY ONLY <1>0, <1>2, JoinedWords
  <2> QED BY <1>2, <2>1
<1>4. c \in Seq(Int) /\ Len(c) = 6 + n
  <2> HIDE DEF b
  <2>1. c \in Seq(Int) /\ Len(c) = Len(b) + Len(clusters)
    BY ONLY <1>0, <1>3, JoinedWords
  <2>2. Len(c) = (4 + n) + 2
    BY <1>3, <2>1
  <2> QED BY <1>1, <2>1, <2>2
<1>5. StandsAt(words, i, c) /\ StandsAt(words, atFields, fields)
  <2>1. StandsAt(words, i, c \o fields)
    OBVIOUS
  <2> HIDE DEF c
  <2>2. atFields = i + Len(c)
    BY <1>1, <1>4
  <2> HIDE DEF atFields
  <2>3. c \in Seq(Int) /\ fields \in Seq(Int) /\ i \in Nat
    BY ONLY <1>0, <1>4
  <2> QED BY ONLY <2>1, <2>2, <2>3, PartsStand
<1>6. StandsAt(words, i, b) /\ StandsAt(words, atClusters, clusters)
  <2>1. StandsAt(words, i, b \o clusters)
    BY <1>5
  <2> HIDE DEF b, c
  <2>2. atClusters = i + Len(b)
    BY <1>1, <1>3
  <2> HIDE DEF atClusters
  <2>3. b \in Seq(Int) /\ clusters \in Seq(Int) /\ i \in Nat
    BY ONLY <1>0, <1>3
  <2> QED BY ONLY <2>1, <2>2, <2>3, PartsStand
<1>7. StandsAt(words, i, a) /\ StandsAt(words, atIds, ids)
  <2>1. StandsAt(words, i, a \o ids)
    BY <1>6
  <2> HIDE DEF a, b, c
  <2>2. atIds = i + Len(a)
    BY <1>2
  <2> HIDE DEF atIds
  <2>3. a \in Seq(Int) /\ ids \in Seq(Int) /\ i \in Nat
    BY ONLY <1>0, <1>2
  <2> QED BY ONLY <2>1, <2>2, <2>3, PartsStand
<1>8. StandsAt(words, i, capacity) /\ StandsAt(words, atSessions, sessions)
  <2>1. StandsAt(words, i, capacity \o sessions)
    BY <1>7
  <2>2. atSessions = i + Len(capacity)
    OBVIOUS
  <2> HIDE DEF a, b, c, atSessions
  <2>3. capacity \in Seq(Int) /\ sessions \in Seq(Int) /\ i \in Nat
    BY ONLY <1>0
  <2> QED BY ONLY <2>1, <2>2, <2>3, PartsStand
<1> QED BY <1>5, <1>6, <1>7, <1>8

LEMMA NumberStands ==
    ASSUME NEW n \in Nat, NEW words, NEW i \in Nat, NEW at, at = i + 1, StandsAt(words, i, U64(n))
    PROVE  TakeU64(words, at) = n
<1> DEFINE u == U64(n)
<1>1. Len(u) = 2 /\ u[1] + u[2] * NarrowLimit = n
  BY NumbersRead
<1>2. words[i + 1] = u[1] /\ words[i + 2] = u[2]
  BY <1>1 DEF StandsAt
<1>3. i + 1 = at /\ i + 2 = at + 1
  OBVIOUS
<1> HIDE DEF u
<1> QED BY <1>1, <1>2, <1>3 DEF TakeU64

LEMMA NarrowStands ==
    ASSUME NEW n \in Nat, n < NarrowLimit, NEW words, NEW i \in Nat, StandsAt(words, i, U32(n))
    PROVE  words[i + 1] = n
<1> DEFINE u == U32(n)
<1>1. Len(u) = 1 /\ u[1] = n
  BY NumbersRead
<1> HIDE DEF u
<1> QED BY <1>1 DEF StandsAt, u

(* Three fields of the same width p stand side by side. *)
LEMMA FieldsStand ==
    ASSUME NEW p \in Nat, NEW x \in Seq(Int), NEW y \in Seq(Int), NEW z \in Seq(Int),
           Len(x) = p, Len(y) = p, Len(z) = p,
           NEW words, NEW i \in Nat, NEW j, j = i + p, NEW k, k = i + p + p,
           StandsAt(words, i, x \o y \o z)
    PROVE  StandsAt(words, i, x) /\ StandsAt(words, j, y) /\ StandsAt(words, k, z)
<1> DEFINE u == x \o y
<1>1. u \in Seq(Int) /\ Len(u) = Len(x) + Len(y)
  BY JoinedWords
<1>2. k = i + Len(u)
  BY <1>1
<1>3. StandsAt(words, i, u \o z)
  OBVIOUS
<1>4. StandsAt(words, i, u) /\ StandsAt(words, k, z)
  <2> HIDE DEF u
  <2> QED BY ONLY <1>1, <1>2, <1>3, z \in Seq(Int), i \in Nat, PartsStand
<1>5. StandsAt(words, i, x) /\ StandsAt(words, j, y)
  <2>1. j = i + Len(x) /\ i \in Nat /\ x \in Seq(Int) /\ y \in Seq(Int)
    OBVIOUS
  <2> QED BY ONLY <1>4, <2>1, PartsStand DEF u
<1> QED BY <1>4, <1>5

(* The three numbers of a cluster, in 32 bits or in 64. *)
LEMMA NarrowFields ==
    ASSUME NEW x \in Nat, NEW y \in Nat, NEW z \in Nat,
           x < NarrowLimit, y < NarrowLimit, z < NarrowLimit,
           NEW words, NEW i \in Nat, StandsAt(words, i, U32(x) \o U32(y) \o U32(z))
    PROVE  words[i + 1] = x /\ words[i + 2] = y /\ words[i + 3] = z
<1> DEFINE p == 1
           j == i + 1
           k == i + 2
<1>1. /\ U32(x) \in Seq(Int) /\ Len(U32(x)) = p
      /\ U32(y) \in Seq(Int) /\ Len(U32(y)) = p
      /\ U32(z) \in Seq(Int) /\ Len(U32(z)) = p
  BY NumbersRead
<1>2. p \in Nat /\ j \in Nat /\ k \in Nat /\ j = i + p /\ k = i + p + p
      /\ j + 1 = i + 2 /\ k + 1 = i + 3
  OBVIOUS
<1>3. StandsAt(words, i, U32(x)) /\ StandsAt(words, j, U32(y)) /\ StandsAt(words, k, U32(z))
  <2> HIDE DEF p, j, k
  <2> QED BY <1>1, <1>2, FieldsStand
<1>4. words[j + 1] = y /\ words[k + 1] = z
  <2> HIDE DEF j, k
  <2> QED BY <1>2, <1>3, NarrowStands
<1> QED BY <1>2, <1>3, <1>4, NarrowStands

LEMMA WideFields ==
    ASSUME NEW x \in Nat, NEW y \in Nat, NEW z \in Nat,
           NEW words, NEW i \in Nat, StandsAt(words, i, U64(x) \o U64(y) \o U64(z))
    PROVE  /\ TakeU64(words, i + 1) = x
           /\ TakeU64(words, i + 3) = y
           /\ TakeU64(words, i + 5) = z
<1> DEFINE p == 2
           j == i + 2
           k == i + 4
<1>1. /\ U64(x) \in Seq(Int) /\ Len(U64(x)) = p
      /\ U64(y) \in Seq(Int) /\ Len(U64(y)) = p
      /\ U64(z) \in Seq(Int) /\ Len(U64(z)) = p
  BY NumbersRead
<1>2. p \in Nat /\ j \in Nat /\ k \in Nat /\ j = i + p /\ k = i + p + p
      /\ i + 3 = j + 1 /\ i + 5 = k + 1
  OBVIOUS
<1>3. StandsAt(words, i, U64(x)) /\ StandsAt(words, j, U64(y)) /\ StandsAt(words, k, U64(z))
  <2> HIDE DEF p, j, k
  <2> QED BY <1>1, <1>2, FieldsStand
<1>4. TakeU64(words, i + 1) = x
  BY <1>3, NumberStands
<1>5. TakeU64(words, i + 3) = y
  <2> HIDE DEF j
  <2> QED BY <1>2, <1>3, NumberStands
<1>6. TakeU64(words, i + 5) = z
  <2> HIDE DEF k
  <2> QED BY <1>2, <1>3, NumberStands
<1> QED BY <1>4, <1>5, <1>6

-----------------------------------------------------------------------------
(* The sessions that are written: all but the local one while that has no ID,
   and in any case all that have a cluster.                                *)

Written(w) == SubSeq(w.sessions, 1 + SessionCountDelta(w), Len(w.sessions))

PlaceOf(w, s) == Token(w, s) - SessionCountDelta(w)

LEMMA WrittenExactly ==
    ASSUME NEW w, w.sessions \in Seq(Sessions), w.sessions # <<>>
    PROVE  LET d == SessionCountDelta(w)
           IN  /\ d \in {0, 1}
               /\ Written(w) \in Seq(Sessions)
               /\ Len(Written(w)) = Len(w.sessions) - d
               /\ \A k \in 1..(Len(w.sessions) - d) : Written(w)[k] = w.sessions[k + d]
<1> DEFINE d == SessionCountDelta(w)
           all == w.sessions
           m == Len(all) - d
           f == [k \in 1..m |-> all[k + d]]
<1>1. d \in {0, 1}
  BY DEF SessionCountDelta
<1>2. Len(all) \in Nat /\ Len(all) >= 1 /\ m \in Nat
      /\ \A k \in 1..Len(all) : all[k] \in Sessions
  BY <1>1
<1>3. Written(w) = f
  <2> HIDE DEF d
  <2>1. SubSeq(all, 1 + d, Len(all)) = f
    BY <1>1, <1>2
  <2> QED BY <2>1 DEF Written, d
<1>4. f \in [1..m -> Sessions] /\ \A k \in 1..m : f[k] = all[k + d]
  <2> HIDE DEF d, all
  <2>1. \A k \in 1..m : k + d \in 1..Len(all)
    BY <1>1, <1>2
  <2> QED BY <1>2, <2>1
<1> HIDE DEF d, all, f, m
<1>5. f \in Seq(Sessions) /\ Len(f) = m
  BY <1>2, <1>4
<1> QED BY <1>1, <1>3, <1>4, <1>5 DEF d, all, m

LEMMA WrittenSessions ==
    ASSUME NEW w, CompressorInv(w)
    PROVE  /\ Written(w) \in Seq(Sessions)
           /\ Len(Written(w)) \in Nat /\ Len(Written(w)) <= Len(w.sessions)
           /\ DOMAIN Written(w) = 1..Len(Written(w))
           /\ Elements(Written(w)) \subseteq Known(w)
           /\ \A i \in DOMAIN w.clusters :
                 LET s == w.clusters[i].session
                 IN  /\ PlaceOf(w, s) \in Nat
                     /\ PlaceOf(w, s) < Len(Written(w))
                     /\ Written(w)[PlaceOf(w, s) + 1] = s
<1> DEFINE delta == SessionCountDelta(w)
           all == w.sessions
           t == w.clusters
<1>1. /\ all \in Seq(Sessions) /\ Len(all) \in Nat /\ Len(all) >= 1
      /\ all[1] = w.sessionId
      /\ DOMAIN all = 1..Len(all)
      /\ w.generatedIdCount \in Nat
      /\ TableInv(t) /\ t \in Seq(Cluster) /\ w.sessionId \in Sessions
  BY CompressorTypes DEF CompressorInv, TableInv
<1>2. delta \in {0, 1} /\ (delta = 1 <=> w.generatedIdCount = 0)
  BY DEF SessionCountDelta
<1>3. /\ Written(w) \in Seq(Sessions)
      /\ Len(Written(w)) = Len(all) - delta
      /\ \A k \in 1..(Len(all) - delta) : Written(w)[k] = all[k + delta]
  BY <1>1, WrittenExactly
<1> HIDE DEF delta, all
<1>4. Len(Written(w)) \in Nat /\ Len(Written(w)) <= Len(all)
  BY <1>1, <1>2, <1>3
<1>5. Elements(Written(w)) \subseteq Known(w)
  <2>1. ASSUME NEW k \in DOMAIN Written(w) PROVE Written(w)[k] \in Known(w)
    <3>1. k \in 1..(Len(all) - delta) /\ k + delta \in DOMAIN all
      BY <1>1, <1>2, <1>3
    <3> QED BY <1>3, <3>1 DEF Known, Elements, all
  <2> QED BY <2>1 DEF Elements
<1>6. ASSUME NEW i \in DOMAIN t
      PROVE  LET s == t[i].session
             IN  /\ PlaceOf(w, s) \in Nat
                 /\ PlaceOf(w, s) < Len(Written(w))
                 /\ Written(w)[PlaceOf(w, s) + 1] = s
  <2> DEFINE s == t[i].session
             j == CHOOSE k \in DOMAIN all : all[k] = s
  <2>1. s \in Known(w)
    BY DEF CompressorInv
  <2>2. j \in DOMAIN all /\ all[j] = s
    BY <2>1 DEF Known, Elements, all
  <2>3. Token(w, s) = j - 1
    BY <2>1 DEF Token, all
  <2>4. delta = 1 => s # w.sessionId
    <3> SUFFICES ASSUME delta = 1, s = w.sessionId PROVE FALSE
      OBVIOUS
    <3>1. i \in Chain(t, w.sessionId)
      BY DEF Chain
    <3>2. GenCount(MaxLocal(t[i])) \in Int /\ GenCount(MaxLocal(t[i])) < NextBase(t, w.sessionId)
      BY <1>1, <3>1, FinalizedBelowNext
    <3>3. NextBase(t, w.sessionId) <= w.generatedIdCount + 1 /\ w.generatedIdCount = 0
      BY <1>2 DEF CompressorInv
    <3>4. GenCount(MaxLocal(t[i])) >= 1
      <4>1. t[i].baseLocal \in Int /\ t[i].baseLocal < 0 /\ t[i].count \in Nat /\ t[i].count > 0
        BY <1>1, TableTypes
      <4> QED BY <4>1 DEF GenCount, MaxLocal
    <3>5. NextBase(t, w.sessionId) \in Nat
      BY <1>1, NextBaseType
    <3> QED BY <3>2, <3>3, <3>4, <3>5
  <2>5. delta = 1 => j # 1
    BY <1>1, <2>2, <2>4
  <2>6. j \in Nat /\ j >= 1 /\ j <= Len(all) /\ PlaceOf(w, s) = (j - 1) - delta
    BY <1>1, <2>2, <2>3 DEF PlaceOf, delta
  <2> HIDE DEF j, s
  <2>7. /\ PlaceOf(w, s) \in Nat /\ PlaceOf(w, s) < Len(all) - delta
        /\ PlaceOf(w, s) + 1 \in 1..(Len(all) - delta)
        /\ (PlaceOf(w, s) + 1) + delta = j
    BY <1>1, <1>2, <2>5, <2>6
  <2> QED BY <1>3, <2>2, <2>7 DEF s
<1> QED BY <1>3, <1>4, <1>5, <1>6 DEF all

-----------------------------------------------------------------------------
(* A summary as its reader finds it. *)

(* An index of 32 bits is wide enough, as the final IDs' width is chosen
   without regard to the number of sessions.                               *)
IndexFits(w) == Is32Bit(w) => Len(w.sessions) <= NarrowLimit

(* Each session has one place in a list of sessions. *)
LEMMA SessionsCounted ==
    ASSUME IsFiniteSet(Sessions), NEW c, CompressorInv(c)
    PROVE  Len(c.sessions) <= Cardinality(Sessions)
<1> DEFINE n == Len(c.sessions)
<1>1. c.sessions \in Seq(Sessions) /\ Distinct(c.sessions)
  BY CompressorTypes DEF CompressorInv
<1>2. n \in Nat /\ c.sessions \in [1..n -> Sessions] /\ DOMAIN c.sessions = 1..n
  BY <1>1
<1>3. c.sessions \in Injection(1..n, Sessions)
  BY <1>1, <1>2 DEF Injection, IsInjective, Distinct
<1>4. Cardinality(1..n) <= Cardinality(Sessions)
  BY <1>3, FS_Injection
<1>5. Cardinality(1..n) = n
  BY <1>2, FS_Interval
<1> QED BY <1>4, <1>5

LEMMA IndicesFit ==
    ASSUME SessionsFit, NEW c, CompressorInv(c)
    PROVE  IndexFits(c)
<1>1. Len(c.sessions) <= Cardinality(Sessions) /\ Len(c.sessions) \in Nat
  BY SessionsCounted, CompressorTypes DEF SessionsFit
<1>2. Cardinality(Sessions) \in Nat /\ NarrowLimit \in Nat
  BY FS_CardinalityType, NarrowLimitAssumption DEF SessionsFit, Positive
<1> QED BY <1>1, <1>2 DEF IndexFits, SessionsFit

(* A cluster is three numbers, in either width. *)
LEMMA ClusterWords ==
    ASSUME NEW w, CompressorInv(w), IndexFits(w), NEW i \in DOMAIN w.clusters,
           NEW x, x = PlaceOf(w, w.clusters[i].session),
           NEW y, y = w.clusters[i].capacity, NEW z, z = w.clusters[i].count
    PROVE  /\ x \in Nat /\ y \in Nat /\ z \in Nat
           /\ Is32Bit(w) => /\ x < NarrowLimit /\ y < NarrowLimit /\ z < NarrowLimit
                            /\ WriteCluster(w, w.clusters[i]) = U32(x) \o U32(y) \o U32(z)
           /\ ~Is32Bit(w) => WriteCluster(w, w.clusters[i]) = U64(x) \o U64(y) \o U64(z)
<1> DEFINE t == w.clusters
           n == Len(t)
<1>1. TableInv(t) /\ t \in Seq(Cluster) /\ n \in Nat /\ DOMAIN t = 1..n
  BY DEF CompressorInv, TableInv
<1>2. x \in Nat /\ x < Len(Written(w)) /\ Len(Written(w)) \in Nat /\ Len(Written(w)) <= Len(w.sessions)
  BY WrittenSessions
<1>3. /\ y \in Nat /\ z \in Nat /\ z <= y
  BY <1>1, TableTypes DEF TableInv, LocalsTile
<1>4. NarrowLimit \in Nat /\ Len(w.sessions) \in Nat
  BY NarrowLimitAssumption, CompressorTypes DEF CompressorInv, Positive
<1>5. ASSUME Is32Bit(w) PROVE x < NarrowLimit /\ y < NarrowLimit /\ z < NarrowLimit
  <2>1. x < NarrowLimit
    BY <1>2, <1>4, <1>5 DEF IndexFits
  <2>2. t # <<>> /\ n \in DOMAIN t /\ i <= n /\ i \in Nat
    BY <1>1
  <2>3. t[n].baseFinal + (t[n].capacity - 1) < NarrowLimit - 1
    BY <1>5, <2>2 DEF Is32Bit, MaxFinal, MaxAllocatedFinal
  <2>4. /\ t[i].baseFinal \in Nat /\ t[n].baseFinal \in Nat
        /\ t[n].capacity \in Nat /\ t[n].capacity > 0
    BY <1>1, <2>2, TableTypes
  <2>5. i < n => t[i].baseFinal + y <= t[n].baseFinal
    BY <1>1, <2>2 DEF TableInv, FinalsOrdered
  <2>6. y < NarrowLimit
    <3> DEFINE base == t[n].baseFinal
               reserved == t[n].capacity
               first == t[i].baseFinal
    <3>1. /\ base \in Int /\ reserved \in Int /\ first \in Int /\ y \in Int /\ NarrowLimit \in Int
          /\ base >= 0 /\ reserved > 0 /\ first >= 0
          /\ base + (reserved - 1) < NarrowLimit - 1
      <4>1. y \in Int /\ NarrowLimit \in Int
        BY <1>3, <1>4
      <4>2. base \in Nat /\ first \in Nat /\ reserved \in Nat /\ reserved > 0
        BY <2>4
      <4>3. base + (reserved - 1) < NarrowLimit - 1
        BY <2>3
      <4> HIDE DEF base, reserved, first
      <4> QED BY <4>1, <4>2, <4>3
    <3>2. CASE i = n
      <4>1. y = reserved
        BY <3>2
      <4> HIDE DEF base, reserved, first
      <4> QED BY <3>1, <4>1
    <3>3. CASE i # n
      <4>1. first + y <= base
        BY <2>2, <2>5, <3>3, <1>1
      <4> HIDE DEF base, reserved, first
      <4> QED BY <3>1, <4>1
    <3> QED BY <3>2, <3>3
  <2> QED BY <1>3, <1>4, <2>1, <2>6
<1>6. /\ Is32Bit(w) => WriteCluster(w, t[i]) = U32(x) \o U32(y) \o U32(z)
      /\ ~Is32Bit(w) => WriteCluster(w, t[i]) = U64(x) \o U64(y) \o U64(z)
  BY DEF WriteCluster, PlaceOf
<1> QED BY <1>2, <1>3, <1>5, <1>6

SessionFields(sessions) == [i \in DOMAIN sessions |-> U128(sessions[i])]

LEMMA IdsRead ==
    ASSUME NEW sessions \in Seq(Sessions)
    PROVE  LET ids == Seqs!FlattenSeq(SessionFields(sessions))
           IN  /\ ids \in Seq(Int) /\ Len(ids) = Len(sessions)
               /\ \A k \in 1..Len(sessions) : ids[k] = sessions[k]
<1> DEFINE n == Len(sessions)
           p == 1
           fields == SessionFields(sessions)
           ids == Seqs!FlattenSeq(fields)
<1>1. n \in Nat /\ DOMAIN sessions = 1..n /\ \A i \in 1..n : sessions[i] \in Sessions
  OBVIOUS
<1>2. /\ fields \in [1..n -> Seq(Int)]
      /\ \A i \in 1..n : Len(fields[i]) = p
      /\ \A i \in 1..n : fields[i][1] = sessions[i]
  <2>1. Sessions \subseteq Int
    BY SessionsAssumption
  <2>2. \A i \in 1..n : sessions[i] \in Int
    BY <1>1, <2>1
  <2> QED BY <1>1, <2>2 DEF U128, SessionFields
<1>3. p \in {1, 2, 3, 4, 6} /\ 1 \in 1..p /\ n * p = n /\ \A k \in 1..n : (k - 1) * p + 1 = k
  <2>1. \A m \in Int : m * 1 = m /\ (m - 1) * 1 + 1 = m
    OBVIOUS
  <2>2. n \in Int /\ \A k \in 1..n : k \in Int
    BY <1>1
  <2> HIDE DEF n
  <2>3. n * p = n /\ \A k \in 1..n : (k - 1) * p + 1 = k
    BY <2>1, <2>2
  <2> QED BY <2>3
<1>4. /\ Seqs!FlattenSeq(fields) \in Seq(Int) /\ Len(Seqs!FlattenSeq(fields)) = n * p
      /\ \A k \in 1..n : \A j \in 1..p : Seqs!FlattenSeq(fields)[(k - 1) * p + j] = fields[k][j]
  <2>1. n \in Nat /\ p \in {1, 2, 3, 4, 6} /\ fields \in [1..n -> Seq(Int)] /\ \A i \in 1..n : Len(fields[i]) = p
    BY <1>1, <1>2, <1>3
  <2> HIDE DEF n, p, fields
  <2>2. /\ Seqs!FlattenSeq(fields) \in Seq(Int)
        /\ FieldsFollow(Seqs!FlattenSeq(fields), fields, n, p)
    BY ONLY <2>1, FlattenFields
  <2> QED BY ONLY <2>2 DEF FieldsFollow
<1> HIDE DEF n, p, fields
<1>5. ASSUME NEW k \in 1..n PROVE ids[k] = sessions[k]
  <2>1. ids[(k - 1) * p + 1] = fields[k][1]
    BY <1>3, <1>4
  <2>2. (k - 1) * p + 1 = k /\ fields[k][1] = sessions[k]
    BY <1>2, <1>3
  <2> QED BY <2>1, <2>2
<1> QED BY <1>3, <1>4, <1>5 DEF n, fields

LEMMA FieldsJoined ==
    ASSUME NEW p \in Nat, NEW x \in Seq(Int), NEW y \in Seq(Int), NEW z \in Seq(Int),
           Len(x) = p, Len(y) = p, Len(z) = p
    PROVE  x \o y \o z \in Seq(Int) /\ Len(x \o y \o z) = p + p + p
<1> DEFINE u == x \o y
<1>1. u \in Seq(Int) /\ Len(u) = Len(x) + Len(y)
  BY Joined
<1>2. u \o z \in Seq(Int) /\ Len(u \o z) = Len(u) + Len(z)
  <2> HIDE DEF u
  <2> QED BY <1>1, Joined
<1> QED BY <1>1, <1>2

FieldWidth(w) == IF Is32Bit(w) THEN 3 ELSE 6

LEMMA ClusterLength ==
    ASSUME NEW w, CompressorInv(w), IndexFits(w), NEW i \in DOMAIN w.clusters
    PROVE  LET field == WriteCluster(w, w.clusters[i])
           IN  field \in Seq(Int) /\ Len(field) = FieldWidth(w)
<1> DEFINE x == PlaceOf(w, w.clusters[i].session)
           y == w.clusters[i].capacity
           z == w.clusters[i].count
           field == WriteCluster(w, w.clusters[i])
<1>1. /\ x \in Nat /\ y \in Nat /\ z \in Nat
      /\ Is32Bit(w) => field = U32(x) \o U32(y) \o U32(z)
      /\ ~Is32Bit(w) => field = U64(x) \o U64(y) \o U64(z)
  BY ClusterWords
<1> HIDE DEF x, y, z, field
<1>2. CASE Is32Bit(w)
  <2> DEFINE p == 1
             a == U32(x)
             b == U32(y)
             c == U32(z)
  <2>1. p \in Nat /\ a \in Seq(Int) /\ b \in Seq(Int) /\ c \in Seq(Int)
        /\ Len(a) = p /\ Len(b) = p /\ Len(c) = p
    BY <1>1, NumbersRead
  <2>2. a \o b \o c \in Seq(Int) /\ Len(a \o b \o c) = p + p + p
    <3> HIDE DEF a, b, c, p
    <3> QED BY <2>1, FieldsJoined
  <2>3. p + p + p = 3
    OBVIOUS
  <2>4. field = a \o b \o c
    BY <1>1, <1>2
  <2> HIDE DEF a, b, c, p
  <2> QED BY <1>2, <2>2, <2>3, <2>4 DEF FieldWidth, field
<1>3. CASE ~Is32Bit(w)
  <2> DEFINE p == 2
             a == U64(x)
             b == U64(y)
             c == U64(z)
  <2>1. p \in Nat /\ a \in Seq(Int) /\ b \in Seq(Int) /\ c \in Seq(Int)
        /\ Len(a) = p /\ Len(b) = p /\ Len(c) = p
    BY <1>1, NumbersRead
  <2>2. a \o b \o c \in Seq(Int) /\ Len(a \o b \o c) = p + p + p
    <3> HIDE DEF a, b, c, p
    <3> QED BY <2>1, FieldsJoined
  <2>3. p + p + p = 6
    OBVIOUS
  <2>4. field = a \o b \o c
    BY <1>1, <1>3
  <2> HIDE DEF a, b, c, p
  <2> QED BY <1>3, <2>2, <2>3, <2>4 DEF FieldWidth, field
<1> QED BY <1>2, <1>3

(* All clusters as they are written. *)
ClusterFields(w) == [i \in DOMAIN w.clusters |-> WriteCluster(w, w.clusters[i])]

LEMMA ClustersWritten ==
    ASSUME NEW w, CompressorInv(w), IndexFits(w)
    PROVE  LET flat == Seqs!FlattenSeq(ClusterFields(w))
               p == FieldWidth(w)
           IN  /\ flat \in Seq(Int)
               /\ Len(flat) = Len(w.clusters) * p
               /\ \A k \in 1..Len(w.clusters) : \A j \in 1..p :
                     flat[(k - 1) * p + j] = WriteCluster(w, w.clusters[k])[j]
<1> DEFINE n == Len(w.clusters)
           p == FieldWidth(w)
           fields == ClusterFields(w)
<1>1. n \in Nat /\ DOMAIN w.clusters = 1..n /\ p \in {1, 2, 3, 4, 6}
  BY DEF CompressorInv, TableInv, FieldWidth
<1>2. \A i \in 1..n : /\ fields[i] = WriteCluster(w, w.clusters[i])
                      /\ fields[i] \in Seq(Int) /\ Len(fields[i]) = p
  BY <1>1, ClusterLength DEF ClusterFields
<1>3. fields \in [1..n -> Seq(Int)]
  BY <1>1, <1>2 DEF ClusterFields
<1> HIDE DEF fields, p, n
<1>4. /\ Seqs!FlattenSeq(fields) \in Seq(Int) /\ Len(Seqs!FlattenSeq(fields)) = n * p
      /\ \A k \in 1..n : \A j \in 1..p : Seqs!FlattenSeq(fields)[(k - 1) * p + j] = fields[k][j]
  <2>1. n \in Nat /\ p \in {1, 2, 3, 4, 6} /\ \A i \in 1..n : Len(fields[i]) = p
    BY ONLY <1>1, <1>2
  <2>2. /\ Seqs!FlattenSeq(fields) \in Seq(Int)
        /\ FieldsFollow(Seqs!FlattenSeq(fields), fields, n, p)
    BY ONLY <1>3, <2>1, FlattenFields
  <2> QED BY ONLY <2>2 DEF FieldsFollow
<1> QED BY <1>2, <1>4 DEF fields, p, n

(* Where the clusters stand, each stands at a multiple of its width. *)
LEMMA ClusterStands ==
    ASSUME NEW w, CompressorInv(w), IndexFits(w), NEW words, NEW at \in Nat,
           StandsAt(words, at, Seqs!FlattenSeq(ClusterFields(w))),
           NEW k \in 1..Len(w.clusters), NEW i, i = at + (k - 1) * FieldWidth(w)
    PROVE  i \in Nat /\ StandsAt(words, i, WriteCluster(w, w.clusters[k]))
<1> DEFINE n == Len(w.clusters)
           p == FieldWidth(w)
           fields == ClusterFields(w)
<1>1. n \in Nat /\ DOMAIN w.clusters = 1..n /\ p \in {1, 2, 3, 4, 6}
  BY DEF CompressorInv, TableInv, FieldWidth
<1>2. ASSUME NEW j \in 1..n
      PROVE  /\ fields[j] = WriteCluster(w, w.clusters[j])
             /\ fields[j] \in Seq(Int) /\ Len(fields[j]) = p
  BY <1>1, ClusterLength DEF ClusterFields
<1>3. fields \in [1..n -> Seq(Int)]
  BY <1>1, <1>2 DEF ClusterFields
<1>4. i = at + (k - 1) * p /\ k \in 1..n /\ StandsAt(words, at, Seqs!FlattenSeq(fields))
  OBVIOUS
<1> HIDE DEF n, p, fields
<1>5. \A j \in 1..n : Len(fields[j]) = p
  BY <1>2
<1>6. i \in Nat /\ StandsAt(words, i, fields[k])
  BY ONLY <1>1, <1>3, <1>4, <1>5, at \in Nat, FieldStands
<1> QED BY <1>2, <1>4, <1>6

LEMMA ClustersRead ==
    ASSUME NEW w, CompressorInv(w), IndexFits(w), NEW words, words[3] # 0 <=> Is32Bit(w),
           NEW at \in Nat, NEW from, from = at + 1,
           StandsAt(words, from, Seqs!FlattenSeq(ClusterFields(w))),
           TakeU64(words, at) = Len(w.clusters)
    PROVE  LET read == DeserializeClusters(words, at)
           IN  /\ Len(read) = Len(w.clusters)
               /\ \A k \in 1..Len(w.clusters) :
                     /\ read[k].index = PlaceOf(w, w.clusters[k].session)
                     /\ read[k].capacity = w.clusters[k].capacity
                     /\ read[k].count = w.clusters[k].count
<1> DEFINE n == Len(w.clusters)
           read == DeserializeClusters(words, at)
<1>1. n \in Nat /\ DOMAIN w.clusters = 1..n /\ from \in Nat
  BY DEF CompressorInv, TableInv
<1>2. ASSUME NEW k \in 1..n
      PROVE  /\ read[k].index = PlaceOf(w, w.clusters[k].session)
             /\ read[k].capacity = w.clusters[k].capacity
             /\ read[k].count = w.clusters[k].count
  <2> DEFINE x == PlaceOf(w, w.clusters[k].session)
             y == w.clusters[k].capacity
             z == w.clusters[k].count
             field == WriteCluster(w, w.clusters[k])
             i == from + (k - 1) * FieldWidth(w)
  <2>1. /\ x \in Nat /\ y \in Nat /\ z \in Nat
        /\ Is32Bit(w) => /\ x < NarrowLimit /\ y < NarrowLimit /\ z < NarrowLimit
                         /\ field = U32(x) \o U32(y) \o U32(z)
        /\ ~Is32Bit(w) => field = U64(x) \o U64(y) \o U64(z)
    BY <1>1, ClusterWords
  <2>2. i \in Nat /\ StandsAt(words, i, field)
    <3> DEFINE j == i
    <3>1. j = from + (k - 1) * FieldWidth(w)
      OBVIOUS
    <3> HIDE DEF j, n
    <3>2. j \in Nat /\ StandsAt(words, j, WriteCluster(w, w.clusters[k]))
      BY <1>1, <3>1, ClusterStands DEF n
    <3> QED BY <3>2 DEF j
  <2>3. CASE Is32Bit(w)
    <3>1. words[i + 1] = x /\ words[i + 2] = y /\ words[i + 3] = z
      <4>1. StandsAt(words, i, U32(x) \o U32(y) \o U32(z))
        BY <2>1, <2>2, <2>3
      <4> HIDE DEF x, y, z, i, field
      <4> QED BY <2>1, <2>2, <2>3, <4>1, NarrowFields
    <3>2. /\ at + 2 + (k - 1) * 3 * 1 = i + 1
          /\ (i + 1) + 1 = i + 2 /\ (i + 1) + 2 * 1 = i + 3
      <4>1. i = (at + 1) + (k - 1) * 3
        BY <2>3 DEF FieldWidth
      <4>2. at \in Int /\ k \in Int
        BY <1>1
      <4> HIDE DEF i
      <4> QED BY <4>1, <4>2
    <3>3. read[k] = [index |-> words[i + 1], capacity |-> words[i + 2], count |-> words[i + 3]]
      <4> HIDE DEF i
      <4> QED BY <2>3, <3>2 DEF DeserializeClusters, Reads32Bit
    <3> QED BY <3>1, <3>3
  <2>4. CASE ~Is32Bit(w)
    <3>1. /\ TakeU64(words, i + 1) = x
          /\ TakeU64(words, i + 3) = y
          /\ TakeU64(words, i + 5) = z
      <4>1. StandsAt(words, i, U64(x) \o U64(y) \o U64(z))
        BY <2>1, <2>2, <2>4
      <4> HIDE DEF x, y, z, i, field
      <4> QED BY <2>1, <2>2, <2>4, <4>1, WideFields
    <3>2. /\ at + 2 + (k - 1) * 3 * 2 = i + 1
          /\ (i + 1) + 2 = i + 3 /\ (i + 1) + 2 * 2 = i + 5
      <4>1. i = (at + 1) + (k - 1) * 6
        BY <2>4 DEF FieldWidth
      <4>2. at \in Int /\ k \in Int
        BY <1>1
      <4> HIDE DEF i
      <4> QED BY <4>1, <4>2
    <3>3. read[k] = [index |-> TakeU64(words, i + 1), capacity |-> TakeU64(words, i + 3),
                     count |-> TakeU64(words, i + 5)]
      <4> HIDE DEF i
      <4> QED BY <2>4, <3>2 DEF DeserializeClusters, Reads32Bit
    <3> QED BY <3>1, <3>3
  <2> QED BY <2>3, <2>4
<1>3. Len(read) = n
  BY <1>1 DEF DeserializeClusters
<1> QED BY <1>2, <1>3

LEMMA HeaderLength ==
    ASSUME NEW w, NEW isLocal
    PROVE  SerializeHeader(w, isLocal) \in Seq(Int) /\ Len(SerializeHeader(w, isLocal)) = 3
<1> DEFINE p == 1
           a == U32(1)
           b == U32(IF isLocal THEN 1 ELSE 0)
           c == U32(IF Is32Bit(w) THEN 1 ELSE 0)
<1>1. SerializeHeader(w, isLocal) = a \o b \o c
  BY DEF SerializeHeader, Flag
<1>2. /\ a \in Seq(Int) /\ b \in Seq(Int) /\ c \in Seq(Int) /\ p \in Nat
      /\ Len(a) = p /\ Len(b) = p /\ Len(c) = p
  BY NumbersRead
<1>3. a \o b \o c \in Seq(Int) /\ Len(a \o b \o c) = p + p + p
  <2> HIDE DEF a, b, c, p
  <2> QED BY <1>2, FieldsJoined
<1>4. p + p + p = 3
  OBVIOUS
<1> HIDE DEF a, b, c, p
<1> QED BY <1>1, <1>3, <1>4

LEMMA HeaderRead ==
    ASSUME NEW w, NEW isLocal \in BOOLEAN, NEW words,
           StandsAt(words, 0, SerializeHeader(w, isLocal))
    PROVE  words[1] = 1 /\ (HasLocal(words) <=> isLocal) /\ (words[3] # 0 <=> Is32Bit(w))
<1> DEFINE i == 0
           x == 1
           y == IF isLocal THEN 1 ELSE 0
           z == IF Is32Bit(w) THEN 1 ELSE 0
<1>1. x \in Nat /\ y \in Nat /\ z \in Nat /\ i \in Nat
  OBVIOUS
<1>2. x < NarrowLimit /\ y < NarrowLimit /\ z < NarrowLimit
  BY NarrowLimitAssumption DEF Positive
<1>3. StandsAt(words, i, U32(x) \o U32(y) \o U32(z))
  BY DEF SerializeHeader, Flag
<1>4. words[i + 1] = x /\ words[i + 2] = y /\ words[i + 3] = z
  <2> HIDE DEF i, x, y, z
  <2> QED BY <1>1, <1>2, <1>3, NarrowFields
<1>5. words[1] = x /\ words[2] = y /\ words[3] = z
  <2>1. i + 1 = 1 /\ i + 2 = 2 /\ i + 3 = 3
    OBVIOUS
  <2> QED BY <1>4, <2>1
<1> QED BY <1>5 DEF HasLocal

LEMMA NumbersOf ==
    ASSUME NEW w, CompressorInv(w)
    PROVE  /\ w.clusterCapacity \in Nat /\ Len(w.clusters) \in Nat
           /\ Len(Written(w)) \in Nat
           /\ Written(w) \in Seq(Sessions) /\ DOMAIN Written(w) = 1..Len(Written(w))
<1>1. w.clusterCapacity \in Nat
  BY CompressorTypes DEF CompressorInv, Positive
<1>2. Len(w.clusters) \in Nat
  BY DEF CompressorInv, TableInv
<1> QED BY <1>1, <1>2, WrittenSessions

(* Where the parts of the finalized state of w are. *)
PartsOfFinalized(words, i, w) ==
    LET n == Len(Written(w))
    IN  /\ StandsAt(words, i, U64(w.clusterCapacity))
        /\ StandsAt(words, i + 2, U64(n))
        /\ StandsAt(words, i + 4, Seqs!FlattenSeq(SessionFields(Written(w))))
        /\ StandsAt(words, i + 4 + n, U64(Len(w.clusters)))
        /\ StandsAt(words, i + 6 + n, Seqs!FlattenSeq(ClusterFields(w)))

LEMMA FinalizedStands ==
    ASSUME NEW w, CompressorInv(w), IndexFits(w), NEW words, NEW i \in Nat,
           StandsAt(words, i, SerializeFinalized(w))
    PROVE  PartsOfFinalized(words, i, w)
<1> DEFINE capacity == U64(w.clusterCapacity)
           n == Len(Written(w))
           sessions == U64(n)
           ids == Seqs!FlattenSeq(SessionFields(Written(w)))
           clusters == U64(Len(w.clusters))
           fields == Seqs!FlattenSeq(ClusterFields(w))
<1>1. StandsAt(words, i, capacity \o sessions \o ids \o clusters \o fields)
  BY DEF SerializeFinalized, Written, SessionFields, ClusterFields
<1>2. w.clusterCapacity \in Nat /\ n \in Nat /\ Len(w.clusters) \in Nat
  BY NumbersOf
<1>3. /\ capacity \in Seq(Int) /\ Len(capacity) = 2
      /\ sessions \in Seq(Int) /\ Len(sessions) = 2
      /\ clusters \in Seq(Int) /\ Len(clusters) = 2
  BY <1>2, NumbersRead
<1>4. ids \in Seq(Int) /\ Len(ids) = n
  BY WrittenSessions, IdsRead
<1>5. fields \in Seq(Int)
  BY ClustersWritten
<1> HIDE DEF capacity, n, sessions, ids, clusters, fields
<1>6. /\ StandsAt(words, i, capacity)
      /\ StandsAt(words, i + 2, sessions)
      /\ StandsAt(words, i + 4, ids)
      /\ StandsAt(words, i + 4 + n, clusters)
      /\ StandsAt(words, i + 6 + n, fields)
  BY <1>1, <1>3, <1>4, <1>5, Layout
<1> QED BY <1>6 DEF PartsOfFinalized, capacity, n, sessions, ids, clusters, fields

(* What the reader finds who starts where the finalized part begins: the
   capacity, the sessions and the clusters as their writer has them.       *)
ReadsFinalized(words, at, w) ==
    LET sessions == DeserializeSessions(words, at + 2)
        read == DeserializeClusters(words, at + 4 + Len(sessions))
    IN  /\ TakeU64(words, at) = w.clusterCapacity
        /\ sessions = Written(w)
        /\ Len(read) = Len(w.clusters)
        /\ \A k \in 1..Len(w.clusters) :
              /\ read[k].index = PlaceOf(w, w.clusters[k].session)
              /\ read[k].capacity = w.clusters[k].capacity
              /\ read[k].count = w.clusters[k].count

LEMMA FinalizedRead ==
    ASSUME NEW w, CompressorInv(w), IndexFits(w), NEW words, words[3] # 0 <=> Is32Bit(w),
           NEW i \in Nat, StandsAt(words, i, SerializeFinalized(w)), NEW at, at = i + 1
    PROVE  ReadsFinalized(words, at, w)
<1> DEFINE n == Len(Written(w))
           sessions == DeserializeSessions(words, at + 2)
           read == DeserializeClusters(words, at + 4 + n)
<1>1. /\ StandsAt(words, i, U64(w.clusterCapacity))
      /\ StandsAt(words, i + 2, U64(n))
      /\ StandsAt(words, i + 4, Seqs!FlattenSeq(SessionFields(Written(w))))
      /\ StandsAt(words, i + 4 + n, U64(Len(w.clusters)))
      /\ StandsAt(words, i + 6 + n, Seqs!FlattenSeq(ClusterFields(w)))
  <2>1. PartsOfFinalized(words, i, w)
    BY FinalizedStands
  <2> QED BY <2>1 DEF PartsOfFinalized
<1>2. /\ w.clusterCapacity \in Nat /\ n \in Nat /\ Len(w.clusters) \in Nat
      /\ Written(w) \in Seq(Sessions) /\ DOMAIN Written(w) = 1..n
  BY NumbersOf
<1>3. TakeU64(words, at) = w.clusterCapacity
  <2> DEFINE x == w.clusterCapacity
  <2>1. x \in Nat /\ StandsAt(words, i, U64(x))
    BY <1>1, <1>2
  <2> HIDE DEF x
  <2>2. TakeU64(words, at) = x
    BY <2>1, NumberStands
  <2> QED BY <2>2 DEF x
<1>4. TakeU64(words, at + 2) = n
  <2> DEFINE j == i + 2
             place == at + 2
  <2>1. j \in Nat /\ place = j + 1 /\ StandsAt(words, j, U64(n))
    BY <1>1
  <2>2. TakeU64(words, place) = n
    <3> HIDE DEF j, place, n
    <3> QED BY <1>2, <2>1, NumberStands
  <2> QED BY <2>2
<1>5. TakeU64(words, at + 4 + n) = Len(w.clusters)
  <2> DEFINE j == i + 4 + n
             place == at + 4 + n
             x == Len(w.clusters)
  <2>1. j \in Nat /\ place = j + 1 /\ x \in Nat /\ StandsAt(words, j, U64(x))
    <3> HIDE DEF n
    <3> QED BY <1>1, <1>2
  <2>2. TakeU64(words, place) = x
    <3> HIDE DEF j, place, x
    <3> QED BY <2>1, NumberStands
  <2> QED BY <2>2
<1>6. sessions = Written(w)
  <2> DEFINE ids == Seqs!FlattenSeq(SessionFields(Written(w)))
  <2>1. Len(ids) = n /\ \A k \in 1..n : ids[k] = Written(w)[k]
    BY <1>2, IdsRead
  <2> HIDE DEF n, ids
  <2>2. \A k \in 1..n : words[(i + 4) + k] = Written(w)[k]
    BY <1>1, <2>1 DEF StandsAt, ids
  <2>3. \A k \in 1..n : (at + 2) + 1 + k = (i + 4) + k
    BY <1>2
  <2>4. sessions = [k \in 1..n |-> words[(at + 2) + 1 + k]]
    BY <1>4 DEF DeserializeSessions
  <2>5. [k \in 1..n |-> words[(at + 2) + 1 + k]] = [k \in 1..n |-> Written(w)[k]]
    BY <2>2, <2>3
  <2>6. [k \in 1..n |-> Written(w)[k]] = Written(w)
    BY <1>2
  <2> QED BY <2>4, <2>5, <2>6
<1>7. /\ Len(read) = Len(w.clusters)
      /\ \A k \in 1..Len(w.clusters) :
            /\ read[k].index = PlaceOf(w, w.clusters[k].session)
            /\ read[k].capacity = w.clusters[k].capacity
            /\ read[k].count = w.clusters[k].count
  <2> DEFINE place == at + 4 + n
             from == i + 6 + n
  <2>1. place \in Nat /\ from = place + 1
    <3> HIDE DEF n
    <3> QED BY <1>2
  <2>2. /\ TakeU64(words, place) = Len(w.clusters)
        /\ StandsAt(words, from, Seqs!FlattenSeq(ClusterFields(w)))
    BY <1>1, <1>5
  <2> HIDE DEF place, from
  <2>3. read = DeserializeClusters(words, place)
    BY DEF place
  <2> HIDE DEF read
  <2> QED BY <2>1, <2>2, <2>3, ClustersRead
<1> HIDE DEF read, sessions
<1>8. Len(sessions) = n
  BY <1>6
<1> QED BY <1>3, <1>6, <1>7, <1>8 DEF ReadsFinalized, read, sessions

LEMMA FinalizedLength ==
    ASSUME NEW w, CompressorInv(w), IndexFits(w)
    PROVE  SerializeFinalized(w) \in Seq(Int)
<1> DEFINE capacity == U64(w.clusterCapacity)
           sessions == U64(Len(Written(w)))
           ids == Seqs!FlattenSeq(SessionFields(Written(w)))
           clusters == U64(Len(w.clusters))
           fields == Seqs!FlattenSeq(ClusterFields(w))
           a == capacity \o sessions
           b == a \o ids
           c == b \o clusters
<1>1. SerializeFinalized(w) = c \o fields
  BY DEF SerializeFinalized, Written, SessionFields, ClusterFields
<1>2. w.clusterCapacity \in Nat /\ Len(Written(w)) \in Nat /\ Len(w.clusters) \in Nat
  BY NumbersOf
<1>3. /\ capacity \in Seq(Int) /\ sessions \in Seq(Int) /\ clusters \in Seq(Int)
      /\ ids \in Seq(Int) /\ fields \in Seq(Int)
  BY <1>2, NumbersRead, WrittenSessions, IdsRead, ClustersWritten
<1> HIDE DEF capacity, sessions, ids, clusters, fields
<1>4. a \in Seq(Int)
  BY <1>3, Joined
<1>5. b \in Seq(Int)
  <2> HIDE DEF a
  <2> QED BY <1>3, <1>4, Joined
<1>6. c \in Seq(Int)
  <2> HIDE DEF b
  <2> QED BY <1>3, <1>5, Joined
<1>7. c \o fields \in Seq(Int)
  <2> HIDE DEF c
  <2> QED BY <1>3, <1>6, Joined
<1> QED BY <1>1, <1>7

(* What the reader of a summary finds. *)
LEMMA SummaryRead ==
    ASSUME NEW w, CompressorInv(w), IndexFits(w), NEW words, words = Serialize(w)
    PROVE  /\ words[1] = 1 /\ ~HasLocal(words) /\ FinalizedStart(words) = 4
           /\ ReadsFinalized(words, 4, w)
<1> DEFINE header == SerializeHeader(w, FALSE)
           rest == SerializeFinalized(w)
           i == 3
           at == 4
<1>1. /\ header \in Seq(Int) /\ Len(header) = i /\ rest \in Seq(Int)
      /\ words = header \o rest
  BY HeaderLength, FinalizedLength DEF Serialize
<1>2. i \in Nat /\ at = i + 1 /\ 0 \in Nat /\ i = 0 + i
  OBVIOUS
<1>3. StandsAt(words, 0, header) /\ StandsAt(words, i, rest)
  <2> HIDE DEF header, rest, i
  <2>1. words \in Seq(Int)
    BY <1>1, Joined
  <2>2. StandsAt(words, 0, header \o rest)
    BY <1>1, <2>1, AllStands
  <2> QED BY ONLY <1>1, <1>2, <2>2, PartsStand
<1>4. words[1] = 1 /\ ~HasLocal(words) /\ (words[3] # 0 <=> Is32Bit(w))
  BY <1>3, HeaderRead
<1>5. FinalizedStart(words) = 4
  BY <1>4 DEF FinalizedStart
<1>6. ReadsFinalized(words, at, w)
  <2> HIDE DEF i, at
  <2> QED BY <1>2, <1>3, <1>4, FinalizedRead DEF rest
<1> QED BY <1>4, <1>5, <1>6

-----------------------------------------------------------------------------
(* The compressor of a new session s with the clusters of w. *)
LoadedFrom(w, s, sessions) ==
    [NewCompressor(s) EXCEPT !.clusterCapacity = w.clusterCapacity,
                             !.sessions = sessions,
                             !.clusters = w.clusters,
                             !.finalIdLimit = w.finalIdLimit]

LEMMA LoadedRecord ==
    ASSUME NEW w, NEW s, NEW sessions
    PROVE  LoadedFrom(w, s, sessions)
             = [sessionId |-> s, generatedIdCount |-> 0, nextRangeBase |-> 1,
                finalIdLimit |-> w.finalIdLimit, clusterCapacity |-> w.clusterCapacity,
                sessions |-> sessions, clusters |-> w.clusters, normalizer |-> {}]
<1> DEFINE a == LoadedFrom(w, s, sessions)
           r == [sessionId |-> s, generatedIdCount |-> 0, nextRangeBase |-> 1,
                 finalIdLimit |-> w.finalIdLimit, clusterCapacity |-> w.clusterCapacity,
                 sessions |-> sessions, clusters |-> w.clusters, normalizer |-> {}]
           names == {"sessionId", "generatedIdCount", "nextRangeBase", "finalIdLimit",
                     "clusterCapacity", "sessions", "clusters", "normalizer"}
<1>1. DOMAIN a = names /\ a = [f \in DOMAIN a |-> a[f]]
  BY DEF LoadedFrom, NewCompressor
<1>2. DOMAIN r = names /\ r = [f \in DOMAIN r |-> r[f]]
  OBVIOUS
<1>3. /\ a.sessionId = s /\ a.generatedIdCount = 0 /\ a.nextRangeBase = 1
      /\ a.finalIdLimit = w.finalIdLimit /\ a.clusterCapacity = w.clusterCapacity
      /\ a.sessions = sessions /\ a.clusters = w.clusters /\ a.normalizer = {}
  BY DEF LoadedFrom, NewCompressor
<1>4. /\ r.sessionId = s /\ r.generatedIdCount = 0 /\ r.nextRangeBase = 1
      /\ r.finalIdLimit = w.finalIdLimit /\ r.clusterCapacity = w.clusterCapacity
      /\ r.sessions = sessions /\ r.clusters = w.clusters /\ r.normalizer = {}
  OBVIOUS
<1> HIDE DEF a, r
<1>5. \A f \in DOMAIN r : a[f] = r[f]
  BY <1>2, <1>3, <1>4
<1>6. a = r
  BY <1>1, <1>2, <1>5
<1> QED BY <1>6 DEF a, r

(* A new session that loads the summary of a document takes over the clusters
   of its writer and the capacity of the next cluster, and nothing of the
   writer's own state; it is one that the writer does not know, and it begins
   with no IDs (deserialize in persistence.rs, resume in the wrapper).     *)
THEOREM SummaryLoads ==
    ASSUME NEW w, CompressorInv(w), IndexFits(w), NEW s \in Sessions,
           NEW c \in Deserialize(Serialize(w), s)
    PROVE  /\ CompressorInv(c)
           /\ c = LoadedFrom(w, s, c.sessions)
           /\ Chain(w.clusters, s) = {}
<1> DEFINE words == Serialize(w)
           t == w.clusters
           i == 4
           sessions == DeserializeSessions(words, i + 2)
           read == DeserializeClusters(words, i + 4 + Len(sessions))
           loaded == LoadSessions(<<s>>, sessions)
           shell == NewCompressor(s)
           made == LoadedFrom(w, s, loaded)
<1>1. /\ words[1] = 1 /\ ~HasLocal(words) /\ FinalizedStart(words) = i
      /\ TakeU64(words, i) = w.clusterCapacity
      /\ sessions = Written(w)
      /\ Len(read) = Len(t)
      /\ \A k \in 1..Len(t) : /\ read[k].index = PlaceOf(w, t[k].session)
                              /\ read[k].capacity = t[k].capacity
                              /\ read[k].count = t[k].count
  BY SummaryRead DEF ReadsFinalized
<1>2. /\ TableInv(t) /\ DOMAIN t = 1..Len(t)
      /\ w.clusterCapacity \in Positive
      /\ w.finalIdLimit = FinalLimit(t) /\ w.finalIdLimit \in Nat
      /\ t \in Seq(Cluster)
  BY CompressorTypes DEF CompressorInv, TableInv
<1>3. /\ sessions \in Seq(Sessions) /\ Len(sessions) \in Nat /\ DOMAIN sessions = 1..Len(sessions)
      /\ \A k \in 1..Len(t) : /\ PlaceOf(w, t[k].session) \in Nat
                              /\ PlaceOf(w, t[k].session) < Len(sessions)
                              /\ sessions[PlaceOf(w, t[k].session) + 1] = t[k].session
  BY <1>1, <1>2, WrittenSessions
<1>4. LoadClusters(sessions, read) = t
  <2> HIDE DEF words, sessions, read, t
  <2>1. \A k \in 1..Len(t) : sessions[read[k].index + 1] = t[k].session
    BY <1>1, <1>3
  <2>2. /\ TableInv(t) /\ Len(read) = Len(t)
        /\ \A k \in 1..Len(t) : read[k].capacity = t[k].capacity /\ read[k].count = t[k].count
    BY <1>1, <1>2
  <2> QED BY <2>1, <2>2, ClustersLoad
<1>5. /\ loaded \in Seq(Sessions)
      /\ loaded # <<>> /\ loaded[1] = s
      /\ Distinct(loaded)
      /\ Elements(loaded) = {s} \cup Elements(sessions)
  <2> HIDE DEF sessions
  <2> QED BY <1>3, SessionsLoad
<1>6. s \notin Elements(sessions) /\ c = made
  <2>1. /\ shell.sessions = <<s>>
        /\ DOMAIN shell = {"sessionId", "generatedIdCount", "nextRangeBase", "finalIdLimit",
                           "clusterCapacity", "sessions", "clusters", "normalizer"}
    BY DEF NewCompressor
  <2> DEFINE filled == [shell EXCEPT !.clusterCapacity = TakeU64(words, i),
                                     !.sessions = LoadSessions(@, sessions),
                                     !.clusters = LoadClusters(sessions, read)]
  <2>2. Deserialize(words, s) = IF s \in Elements(sessions) THEN {} ELSE {WithLimit(filled)}
    <3> HIDE DEF words, shell, i
    <3> QED BY <1>1 DEF Deserialize, shell
  <2>3. s \notin Elements(sessions) /\ c = WithLimit(filled)
    BY <2>2
  <2>4. filled = [shell EXCEPT !.clusterCapacity = w.clusterCapacity, !.sessions = loaded,
                               !.clusters = t]
    BY <1>1, <1>4, <2>1
  <2>5. filled.clusters = t
    <3> HIDE DEF shell, t, loaded
    <3> QED BY <2>1, <2>4
  <2>6. WithLimit(filled) = made
    <3>1. made = [shell EXCEPT !.clusterCapacity = w.clusterCapacity, !.sessions = loaded,
                               !.clusters = t, !.finalIdLimit = FinalLimit(t)]
      BY <1>2 DEF LoadedFrom
    <3> HIDE DEF shell, t, loaded, filled, made
    <3> QED BY <2>4, <2>5, <3>1 DEF WithLimit
  <2> QED BY <2>3, <2>6
<1>7. \A k \in DOMAIN t : t[k].session \in Elements(sessions)
  <2> HIDE DEF sessions, t
  <2>1. ASSUME NEW k \in DOMAIN t PROVE t[k].session \in Elements(sessions)
    <3>1. PlaceOf(w, t[k].session) + 1 \in 1..Len(sessions)
      BY <1>2, <1>3
    <3> QED BY <1>2, <1>3, <3>1 DEF Elements
  <2> QED BY <2>1
<1>8. Chain(t, s) = {}
  BY <1>6, <1>7 DEF Chain
<1>9. /\ made.sessionId = s /\ made.generatedIdCount = 0 /\ made.nextRangeBase = 1
      /\ made.finalIdLimit = w.finalIdLimit /\ made.clusterCapacity = w.clusterCapacity
      /\ made.sessions = loaded /\ made.clusters = t /\ made.normalizer = {}
      /\ made = [sessionId |-> s, generatedIdCount |-> 0, nextRangeBase |-> 1,
                 finalIdLimit |-> w.finalIdLimit, clusterCapacity |-> w.clusterCapacity,
                 sessions |-> loaded, clusters |-> t, normalizer |-> {}]
  <2>1. made = [sessionId |-> s, generatedIdCount |-> 0, nextRangeBase |-> 1,
                finalIdLimit |-> w.finalIdLimit, clusterCapacity |-> w.clusterCapacity,
                sessions |-> loaded, clusters |-> t, normalizer |-> {}]
    BY LoadedRecord
  <2> HIDE DEF made, words, t, sessions, read, loaded
  <2> QED BY <2>1
<1>10. CompressorInv(made)
  <2> HIDE DEF words, t, sessions, read, loaded, made
  <2>1. made \in Compressors
    BY <1>2, <1>5, <1>9 DEF Compressors, Positive
  <2>2. NextBase(t, s) = 1
    BY <1>8 DEF NextBase
  <2>3. \A k \in DOMAIN t : t[k].session \in Known(made)
    BY <1>5, <1>7, <1>9 DEF Known
  <2>4. 1..0 = {} /\ 1 <= 0 + 1
    OBVIOUS
  <2> QED BY <1>2, <1>5, <1>9, <2>1, <2>2, <2>3, <2>4 DEF CompressorInv
<1>11. made = LoadedFrom(w, s, made.sessions)
  BY <1>9
<1> HIDE DEF words, sessions, read, loaded, shell, made
<1> QED BY <1>6, <1>8, <1>10, <1>11
-----------------------------------------------------------------------------
(* The local state: the ranges of the normalizer. *)

IdRange == [base : LocalIds, count : Nat]

(* The local IDs of a range, and those of a list of ranges. *)
IdsOf(range) ==
    {-g : g \in GenCount(range.base)..(GenCount(range.base) + range.count - 1)}

IdsIn(ranges) == UNION {IdsOf(ranges[i]) : i \in DOMAIN ranges}

LEMMA RangeAdded ==
    ASSUME NEW ranges \in Seq(IdRange), NEW g \in Nat, g > 0
    PROVE  /\ AddLocalRange(ranges, -g, 1) \in Seq(IdRange)
           /\ IdsIn(AddLocalRange(ranges, -g, 1)) = IdsIn(ranges) \cup {-g}
<1> DEFINE n == Len(ranges)
           added == AddLocalRange(ranges, -g, 1)
           last == ranges[n]
<1>1. n \in Nat /\ DOMAIN ranges = 1..n /\ \A i \in 1..n : ranges[i] \in IdRange
  OBVIOUS
<1>2. CASE ranges # <<>> /\ last.base - last.count = -g
  <2> DEFINE grown == [last EXCEPT !.count = @ + 1]
  <2>1. n \in 1..n /\ last \in IdRange /\ last.base \in LocalIds /\ last.count \in Nat
    <3>1. n \in 1..n
      BY <1>1, <1>2
    <3> QED BY <1>1, <3>1 DEF IdRange
  <2>2. added = [ranges EXCEPT ![n].count = last.count + 1]
    BY <1>2 DEF AddLocalRange
  <2>3. grown \in IdRange /\ grown.base = last.base /\ grown.count = last.count + 1
    <3>1. last.count + 1 \in Nat
      BY <2>1
    <3> HIDE DEF last
    <3> QED BY <2>1, <3>1 DEF IdRange
  <2>4. added = [ranges EXCEPT ![n] = grown]
    BY <2>1, <2>2
  <2> HIDE DEF grown, added
  <2>5. /\ added \in Seq(IdRange) /\ DOMAIN added = 1..n
        /\ added[n] = grown /\ \A i \in 1..n : i # n => added[i] = ranges[i]
    <3>1. ranges \in [1..n -> IdRange]
      BY <1>1
    <3> HIDE DEF n, last
    <3>2. /\ [ranges EXCEPT ![n] = grown] \in [1..n -> IdRange]
          /\ [ranges EXCEPT ![n] = grown][n] = grown
          /\ \A i \in 1..n : i # n => [ranges EXCEPT ![n] = grown][i] = ranges[i]
      BY <2>1, <2>3, <3>1
    <3>3. added \in [1..n -> IdRange] /\ added[n] = grown
          /\ \A i \in 1..n : i # n => added[i] = ranges[i]
      BY <2>4, <3>2
    <3> QED BY <1>1, <3>3
  <2>6. IdsOf(grown) = IdsOf(last) \cup {-g}
    <3> DEFINE first == GenCount(last.base)
               count == last.count
    <3>1. first \in Int /\ count \in Nat /\ first + count = g
      BY <1>2, <2>1 DEF GenCount, LocalIds
    <3>2. /\ IdsOf(last) = {-h : h \in first..(first + count - 1)}
          /\ IdsOf(grown) = {-h : h \in first..(first + (count + 1) - 1)}
      BY <2>3 DEF IdsOf
    <3> HIDE DEF first, count
    <3>3. first..(first + (count + 1) - 1) = (first..(first + count - 1)) \cup {g}
      BY <3>1
    <3> QED BY <3>2, <3>3
  <2>7. IdsIn(ranges) = UNION {IdsOf(ranges[i]) : i \in 1..n}
        /\ IdsIn(added) = UNION {IdsOf(added[i]) : i \in 1..n}
    BY <1>1, <2>5 DEF IdsIn
  <2>8. ASSUME NEW x
        PROVE  x \in IdsIn(added) <=> x \in IdsIn(ranges) \/ x = -g
    BY <2>1, <2>5, <2>6, <2>7
  <2> QED BY <2>5, <2>8 DEF added
<1>3. CASE ~(ranges # <<>> /\ last.base - last.count = -g)
  <2> DEFINE new == [base |-> -g, count |-> 1]
  <2>1. added = Append(ranges, new)
    BY <1>3 DEF AddLocalRange
  <2>2. new \in IdRange
    BY DEF IdRange, LocalIds
  <2>3. IdsOf(new) = {-g}
    <3>1. GenCount(new.base) = g /\ g..(g + 1 - 1) = {g}
      BY DEF GenCount
    <3> QED BY <3>1 DEF IdsOf
  <2> HIDE DEF new, added
  <2>4. /\ added \in Seq(IdRange) /\ DOMAIN added = 1..(n + 1)
        /\ added[n + 1] = new /\ \A i \in 1..n : added[i] = ranges[i]
    BY <1>1, <2>1, <2>2
  <2>5. IdsIn(ranges) = UNION {IdsOf(ranges[i]) : i \in 1..n}
        /\ IdsIn(added) = UNION {IdsOf(added[i]) : i \in 1..(n + 1)}
    BY <1>1, <2>4 DEF IdsIn
  <2>6. /\ n + 1 \in 1..(n + 1)
        /\ \A i \in 1..(n + 1) : i = n + 1 \/ i \in 1..n
        /\ \A i \in 1..n : i \in 1..(n + 1)
    BY <1>1
  <2>7. ASSUME NEW x
        PROVE  x \in IdsIn(added) <=> x \in IdsIn(ranges) \/ x = -g
    BY <2>3, <2>4, <2>5, <2>6
  <2> QED BY <2>4, <2>7 DEF added
<1> QED BY <1>2, <1>3

(* The ranges that are written hold the local IDs of the normalizer. *)
LEMMA LeadingLocalsExact ==
    ASSUME NEW w, w.generatedIdCount \in Nat,
           w.normalizer \subseteq {-g : g \in 1..w.generatedIdCount}
    PROVE  LeadingLocals(w) \in Seq(IdRange) /\ IdsIn(LeadingLocals(w)) = w.normalizer
<1> DEFINE n == w.generatedIdCount
           Adding(f, g) == IF -g \in w.normalizer THEN AddLocalRange(f[g - 1], -g, 1) ELSE f[g - 1]
           Added(f) == f = [g \in 0..n |->
                              IF g = 0 THEN <<>>
                              ELSE IF -g \in w.normalizer THEN AddLocalRange(f[g - 1], -g, 1)
                              ELSE f[g - 1]]
           ranges == CHOOSE f : Added(f)
<1>1. LeadingLocals(w) = ranges[n]
  BY DEF LeadingLocals
<1>2. \E f : Added(f)
  <2> DEFINE V == Seq(IdRange)
             step == [x \in Nat \X V |->
                        IF x[1] > 0 /\ -x[1] \in w.normalizer
                        THEN AddLocalRange(x[2], -x[1], 1) ELSE x[2]]
             none == <<>>
  <2>1. none \in V
    OBVIOUS
  <2>2. step \in [Nat \X V -> V]
    <3>1. ASSUME NEW g \in Nat, NEW v \in V
          PROVE  step[<<g, v>>] \in V
      <4>1. g > 0 => AddLocalRange(v, -g, 1) \in V
        BY RangeAdded
      <4> QED BY <4>1
    <3> QED BY <3>1
  <2>3. PICK f \in [0..n -> V] : IsRecursive(f, n, none, step)
    <3> HIDE DEF step, V, none
    <3> QED BY <2>1, <2>2, Recursion
  <2>4. ASSUME NEW g \in 0..n
        PROVE  f[g] = IF g = 0 THEN <<>>
                      ELSE IF -g \in w.normalizer THEN AddLocalRange(f[g - 1], -g, 1)
                      ELSE f[g - 1]
    <3>1. CASE g = 0
      BY <3>1, <2>3 DEF IsRecursive
    <3>2. CASE g # 0
      <4>1. g \in Nat /\ g > 0 /\ g - 1 \in 0..n
        BY <3>2
      <4>2. f[g] = step[<<g, f[g - 1]>>] /\ f[g - 1] \in V
        BY <3>2, <4>1, <2>3 DEF IsRecursive
      <4> QED BY <3>2, <4>1, <4>2
    <3> QED BY <3>1, <3>2
  <2>5. f = [g \in 0..n |->
               IF g = 0 THEN <<>>
               ELSE IF -g \in w.normalizer THEN AddLocalRange(f[g - 1], -g, 1)
               ELSE f[g - 1]]
    BY <2>3, <2>4
  <2> QED BY <2>5
<1>3. Added(ranges)
  <2> HIDE DEF Added
  <2> QED BY <1>2
<1> DEFINE Good(k) == /\ ranges[k] \in Seq(IdRange)
                      /\ IdsIn(ranges[k]) = w.normalizer \cap {-g : g \in 1..k}
           S == {k \in Nat : k \in 0..n => Good(k)}
<1> HIDE DEF ranges
<1>4. 0 \in S
  <2>1. 0 \in 0..n
    OBVIOUS
  <2>2. ranges[0] = <<>>
    BY <1>3, <2>1
  <2>3. IdsIn(<<>>) = {} /\ <<>> \in Seq(IdRange) /\ {-g : g \in 1..0} = {}
    BY DEF IdsIn
  <2> QED BY <2>2, <2>3
<1>5. ASSUME NEW k \in S PROVE k + 1 \in S
  <2> SUFFICES ASSUME k + 1 \in 0..n PROVE Good(k + 1)
    OBVIOUS
  <2>1. k \in Nat /\ k \in 0..n /\ k + 1 # 0 /\ k + 1 > 0 /\ (k + 1) - 1 = k /\ k + 1 \in Nat
    OBVIOUS
  <2>2. Good(k)
    BY <2>1
  <2>3. ranges[k + 1] = IF -(k + 1) \in w.normalizer THEN AddLocalRange(ranges[k], -(k + 1), 1)
                        ELSE ranges[k]
    BY <1>3, <2>1
  <2>4. {-g : g \in 1..(k + 1)} = {-g : g \in 1..k} \cup {-(k + 1)}
    <3>1. 1..(k + 1) = (1..k) \cup {k + 1}
      BY <2>1
    <3> QED BY <3>1
  <2>5. CASE -(k + 1) \in w.normalizer
    <3> DEFINE g == k + 1
    <3>1. g \in Nat /\ g > 0 /\ ranges[k] \in Seq(IdRange)
      BY <2>1, <2>2
    <3> HIDE DEF g
    <3>2. /\ AddLocalRange(ranges[k], -g, 1) \in Seq(IdRange)
          /\ IdsIn(AddLocalRange(ranges[k], -g, 1)) = IdsIn(ranges[k]) \cup {-g}
      BY <3>1, RangeAdded
    <3> QED BY <2>2, <2>3, <2>4, <2>5, <3>2 DEF g
  <2>6. CASE -(k + 1) \notin w.normalizer
    BY <2>2, <2>3, <2>4, <2>6
  <2> QED BY <2>5, <2>6
<1>6. Good(n)
  <2> HIDE DEF S
  <2>1. S \in SUBSET Nat
    BY DEF S
  <2>2. n \in S
    BY <1>4, <1>5, <2>1, SetInduction
  <2>3. n \in 0..n
    OBVIOUS
  <2> QED BY <2>2, <2>3 DEF S
<1> QED BY <1>1, <1>6

(* Two numbers of 64 bits side by side. *)
LEMMA WidePair ==
    ASSUME NEW x \in Nat, NEW y \in Nat
    PROVE  /\ U64(x) \o U64(y) \in Seq(Int) /\ Len(U64(x) \o U64(y)) = 4
           /\ \A words : \A i \in Nat :
                 StandsAt(words, i, U64(x) \o U64(y)) =>
                    TakeU64(words, i + 1) = x /\ TakeU64(words, i + 3) = y
<1> DEFINE a == U64(x)
           b == U64(y)
<1>1. a \in Seq(Int) /\ Len(a) = 2 /\ b \in Seq(Int) /\ Len(b) = 2
  BY NumbersRead
<1>2. a \o b \in Seq(Int) /\ Len(a \o b) = Len(a) + Len(b)
  <2> HIDE DEF a, b
  <2> QED BY <1>1, Joined
<1>3. ASSUME NEW words, NEW i \in Nat, StandsAt(words, i, a \o b)
      PROVE  TakeU64(words, i + 1) = x /\ TakeU64(words, i + 3) = y
  <2> DEFINE j == i + 2
             at == i + 3
  <2>1. j \in Nat /\ j = i + Len(a) /\ at = j + 1
    BY <1>1
  <2>2. StandsAt(words, i, a) /\ StandsAt(words, j, b)
    <3> HIDE DEF a, b, j
    <3> QED BY ONLY <1>1, <1>3, <2>1, PartsStand
  <2>3. TakeU64(words, i + 1) = x
    BY <2>2, NumberStands
  <2>4. TakeU64(words, at) = y
    <3> HIDE DEF j, at
    <3> QED BY <2>1, <2>2, NumberStands DEF b
  <2> QED BY <2>3, <2>4
<1> QED BY <1>1, <1>2, <1>3

RangeFields(ranges) == [i \in DOMAIN ranges |-> WriteRange(ranges[i])]

LEMMA RangesWritten ==
    ASSUME NEW ranges \in Seq(IdRange), NEW n, n = Len(ranges)
    PROVE  /\ n \in Nat /\ RangeFields(ranges) \in [1..n -> Seq(Int)]
           /\ \A i \in 1..n : /\ GenCount(ranges[i].base) \in Nat /\ ranges[i].count \in Nat
                              /\ Len(RangeFields(ranges)[i]) = 4
                              /\ RangeFields(ranges)[i] = WriteRange(ranges[i])
<1>1. n \in Nat /\ DOMAIN ranges = 1..n /\ \A i \in 1..n : ranges[i] \in IdRange
  OBVIOUS
<1>2. ASSUME NEW i \in 1..n
      PROVE  /\ GenCount(ranges[i].base) \in Nat /\ ranges[i].count \in Nat
             /\ WriteRange(ranges[i]) \in Seq(Int) /\ Len(WriteRange(ranges[i])) = 4
  <2> DEFINE x == GenCount(ranges[i].base)
             y == ranges[i].count
  <2>1. x \in Nat /\ y \in Nat
    BY <1>1 DEF IdRange, LocalIds, GenCount
  <2> HIDE DEF x, y
  <2>2. U64(x) \o U64(y) \in Seq(Int) /\ Len(U64(x) \o U64(y)) = 4
    BY <2>1, WidePair
  <2> QED BY <2>1, <2>2 DEF WriteRange, x, y
<1> QED BY <1>1, <1>2 DEF RangeFields

LEMMA NormalizerLength ==
    ASSUME NEW w, NEW n, n = Len(LeadingLocals(w)), LeadingLocals(w) \in Seq(IdRange)
    PROVE  /\ SerializeNormalizer(w) \in Seq(Int)
           /\ Len(SerializeNormalizer(w)) = 2 + n * 4
           /\ n \in Nat
<1> DEFINE ranges == LeadingLocals(w)
           fields == RangeFields(ranges)
           p == 4
           flat == Seqs!FlattenSeq(fields)
           number == U64(n)
<1>1. n \in Nat /\ fields \in [1..n -> Seq(Int)] /\ (\A i \in 1..n : Len(fields[i]) = p)
      /\ p \in {1, 2, 3, 4, 6}
  BY RangesWritten
<1>2. SerializeNormalizer(w) = number \o flat
  BY DEF SerializeNormalizer, RangeFields
<1>3. number \in Seq(Int) /\ Len(number) = 2
  BY <1>1, NumbersRead
<1>4. flat \in Seq(Int) /\ Len(flat) = n * p
  <2> HIDE DEF fields, p
  <2>1. flat \in Seq(Int) /\ FieldsFollow(flat, fields, n, p)
    BY ONLY <1>1, FlattenFields
  <2> QED BY ONLY <2>1 DEF FieldsFollow
<1> HIDE DEF number, flat
<1>5. number \o flat \in Seq(Int) /\ Len(number \o flat) = Len(number) + Len(flat)
  BY <1>3, <1>4, Joined
<1> QED BY <1>1, <1>2, <1>3, <1>4, <1>5

(* The local IDs are read back from their ranges. *)
LEMMA NormalizerRead ==
    ASSUME NEW w, LeadingLocals(w) \in Seq(IdRange), NEW n, n = Len(LeadingLocals(w)),
           NEW words, NEW i \in Nat, StandsAt(words, i, SerializeNormalizer(w)),
           NEW at, at = i + 1
    PROVE  /\ TakeU64(words, at) = n
           /\ DeserializeNormalizer(words, at) = IdsIn(LeadingLocals(w))
<1> DEFINE ranges == LeadingLocals(w)
           fields == RangeFields(ranges)
           p == 4
           flat == Seqs!FlattenSeq(fields)
           number == U64(n)
           from == i + 2
<1>1. /\ n \in Nat /\ fields \in [1..n -> Seq(Int)] /\ (\A k \in 1..n : Len(fields[k]) = p)
      /\ p \in {1, 2, 3, 4, 6} /\ DOMAIN ranges = 1..n
      /\ \A k \in 1..n : /\ GenCount(ranges[k].base) \in Nat /\ ranges[k].count \in Nat
                         /\ fields[k] = WriteRange(ranges[k])
  BY RangesWritten
<1>2. number \in Seq(Int) /\ Len(number) = 2
  BY <1>1, NumbersRead
<1>3. flat \in Seq(Int)
  <2> HIDE DEF fields, p
  <2> QED BY <1>1, FlattenFields
<1>4. StandsAt(words, i, number) /\ StandsAt(words, from, flat)
  <2>1. StandsAt(words, i, number \o flat)
    BY DEF SerializeNormalizer, RangeFields
  <2>2. from = i + Len(number)
    BY <1>2
  <2> HIDE DEF number, flat, from
  <2> QED BY ONLY <1>2, <1>3, <2>1, <2>2, i \in Nat, PartsStand
<1>5. TakeU64(words, at) = n
  BY <1>1, <1>4, NumberStands
<1>6. ASSUME NEW k \in 1..n
      PROVE  /\ TakeU64(words, at + 4 * k - 2) = GenCount(ranges[k].base)
             /\ TakeU64(words, at + 4 * k) = ranges[k].count
  <2> DEFINE j == from + (k - 1) * p
             x == GenCount(ranges[k].base)
             y == ranges[k].count
  <2>1. j \in Nat /\ StandsAt(words, j, fields[k])
    <3> DEFINE m == j
    <3>1. m = from + (k - 1) * p /\ from \in Nat /\ k \in 1..n
      OBVIOUS
    <3> HIDE DEF m, from, p, fields
    <3>2. StandsAt(words, from, Seqs!FlattenSeq(fields))
      BY <1>4
    <3>3. m \in Nat /\ StandsAt(words, m, fields[k])
      BY <1>1, <3>1, <3>2, FieldStands
    <3> QED BY <3>3 DEF m
  <2>2. j + 1 = at + 4 * k - 2 /\ j + 3 = at + 4 * k
    OBVIOUS
  <2>3. x \in Nat /\ y \in Nat /\ fields[k] = U64(x) \o U64(y)
    BY <1>1 DEF WriteRange
  <2> HIDE DEF j, x, y, fields
  <2>4. TakeU64(words, j + 1) = x /\ TakeU64(words, j + 3) = y
    BY <2>1, <2>3, WidePair
  <2> QED BY <2>2, <2>4 DEF x, y
<1>7. \A k \in 1..n :
         LET base == TakeU64(words, at + 4 * k - 2)
             count == TakeU64(words, at + 4 * k)
         IN  {-g : g \in base..(base + count - 1)} = IdsOf(ranges[k])
  BY <1>6 DEF IdsOf
<1>8. DeserializeNormalizer(words, at) = UNION {IdsOf(ranges[k]) : k \in 1..n}
  <2> HIDE DEF ranges
  <2> QED BY ONLY <1>5, <1>7 DEF DeserializeNormalizer
<1>9. IdsIn(ranges) = UNION {IdsOf(ranges[k]) : k \in 1..n}
  BY <1>1 DEF IdsIn
<1> QED BY <1>5, <1>8, <1>9

-----------------------------------------------------------------------------
(* The local state: its sessions. *)

(* The first k sessions. *)
First(all, k) == [i \in 1..k |-> all[i]]

LEMMA FirstSessions ==
    ASSUME NEW all \in Seq(Sessions), Distinct(all), NEW k \in 1..Len(all)
    PROVE  /\ k < Len(all) => GetOrCreate(First(all, k), all[k + 1]) = First(all, k + 1)
           /\ all[1] \in Elements(First(all, k))
           /\ First(all, Len(all)) = all
<1> DEFINE n == Len(all)
           first == First(all, k)
<1>1. n \in Nat /\ DOMAIN all = 1..n /\ k \in Nat /\ 1 \in 1..k
      /\ \A i \in 1..n : all[i] \in Sessions
  OBVIOUS
<1>2. first \in Seq(Sessions) /\ Len(first) = k /\ DOMAIN first = 1..k
      /\ \A i \in 1..k : first[i] = all[i]
  <2>1. first \in [1..k -> Sessions] /\ \A i \in 1..k : first[i] = all[i]
    BY <1>1 DEF First
  <2> HIDE DEF first
  <2> QED BY <1>1, <2>1
<1>3. all[1] \in Elements(first)
  BY <1>1, <1>2 DEF Elements
<1>4. First(all, n) = all
  BY <1>1 DEF First
<1>5. ASSUME k < n PROVE GetOrCreate(first, all[k + 1]) = First(all, k + 1)
  <2> DEFINE next == all[k + 1]
             longer == Append(first, next)
  <2>1. k + 1 \in 1..n
    BY <1>1, <1>5
  <2>2. next \notin Elements(first)
    <3> SUFFICES ASSUME NEW i \in 1..k, all[i] = next PROVE FALSE
      BY <1>2 DEF Elements
    <3>1. i \in DOMAIN all /\ k + 1 \in DOMAIN all
      BY <1>1, <2>1
    <3>2. i = k + 1
      BY <3>1 DEF Distinct
    <3> QED BY <1>1, <3>2
  <2>3. /\ longer \in Seq(Sessions) /\ Len(longer) = k + 1
        /\ longer[k + 1] = next /\ \A i \in 1..k : longer[i] = all[i]
    <3>1. next \in Sessions
      BY <1>1, <2>1
    <3> HIDE DEF first, next
    <3> QED BY <1>1, <1>2, <3>1
  <2> HIDE DEF longer
  <2>4. longer = [i \in 1..(k + 1) |-> all[i]]
    <3>1. longer \in [1..(k + 1) -> Sessions]
      BY <1>1, <2>3
    <3>2. \A i \in 1..(k + 1) : i \in 1..k \/ i = k + 1
      BY <1>1
    <3>3. \A i \in 1..(k + 1) : longer[i] = all[i]
      BY <2>3, <3>2
    <3> QED BY <3>1, <3>3
  <2> QED BY <2>2, <2>4 DEF GetOrCreate, First, longer
<1> QED BY <1>3, <1>4, <1>5

(* The own session is known before the written ones are loaded, whether it is
   one of them or not.                                                     *)
LEMMA ExactSessionsLoad ==
    ASSUME NEW all \in Seq(Sessions), Distinct(all), all # <<>>, NEW d \in {0, 1},
           NEW sessions, Len(sessions) = Len(all) - d,
           \A k \in 1..(Len(all) - d) : sessions[k] = all[k + d]
    PROVE  LoadSessions(<<all[1]>>, sessions) = all
<1> DEFINE n == Len(all) - d
           own == <<all[1]>>
           length(k) == IF k + d = 0 THEN 1 ELSE k + d
           Loaded(f) == f = [k \in 0..n |->
                               IF k = 0 THEN own ELSE GetOrCreate(f[k - 1], sessions[k])]
           loading == CHOOSE f : Loaded(f)
<1>1. /\ Len(all) \in Nat /\ Len(all) >= 1 /\ DOMAIN all = 1..Len(all) /\ n \in Nat
      /\ 1 \in 1..Len(all) /\ Len(all) \in 1..Len(all)
  OBVIOUS
<1>2. LoadSessions(own, sessions) = loading[n]
  BY DEF LoadSessions
<1>3. First(all, 1) = own
  BY <1>1 DEF First
<1>4. ASSUME NEW k \in 1..n
      PROVE  GetOrCreate(First(all, length(k - 1)), sessions[k]) = First(all, length(k))
  <2>1. sessions[k] = all[k + d] /\ k \in Nat
    BY <1>1
  <2>2. CASE k = 1 /\ d = 0
    <3>1. length(k - 1) = 1 /\ length(k) = 1 /\ k + d = 1
      BY <2>2
    <3>2. all[1] \in Elements(First(all, 1))
      BY <1>1, FirstSessions
    <3>3. GetOrCreate(First(all, 1), all[1]) = First(all, 1)
      BY <3>2 DEF GetOrCreate
    <3> HIDE DEF length
    <3> QED BY <2>1, <3>1, <3>3
  <2>3. CASE ~(k = 1 /\ d = 0)
    <3> DEFINE m == k - 1 + d
    <3>1. m \in 1..Len(all) /\ m < Len(all) /\ k + d = m + 1
      BY <1>1, <2>1, <2>3
    <3>2. length(k - 1) = m /\ length(k) = m + 1
      BY <1>1, <2>1, <2>3
    <3> HIDE DEF m, length
    <3>3. GetOrCreate(First(all, m), all[m + 1]) = First(all, m + 1)
      BY <3>1, FirstSessions
    <3> QED BY <2>1, <3>1, <3>2, <3>3
  <2> QED BY <2>2, <2>3
<1>5. First(all, length(0)) = own
  <2>1. length(0) = 1
    OBVIOUS
  <2> HIDE DEF length
  <2> QED BY <1>3, <2>1
<1>6. Loaded(loading)
  <2> DEFINE f == [k \in 0..n |-> First(all, length(k))]
  <2>1. ASSUME NEW k \in 0..n
        PROVE  f[k] = IF k = 0 THEN own ELSE GetOrCreate(f[k - 1], sessions[k])
    <3>1. CASE k = 0
      <4>1. f[k] = First(all, length(k))
        OBVIOUS
      <4> HIDE DEF f, length
      <4> QED BY <1>5, <3>1, <4>1
    <3>2. CASE k # 0
      <4>1. k \in 1..n /\ k - 1 \in 0..n
        BY <1>1, <3>2
      <4>2. f[k] = First(all, length(k)) /\ f[k - 1] = First(all, length(k - 1))
        BY <4>1
      <4> HIDE DEF f, length
      <4> QED BY <1>4, <3>2, <4>1, <4>2
    <3> QED BY <3>1, <3>2
  <2>2. Loaded(f)
    <3> HIDE DEF length
    <3> QED BY <2>1
  <2> HIDE DEF Loaded
  <2> QED BY <2>2
<1> DEFINE S == {k \in Nat : k \in 0..n => loading[k] = First(all, length(k))}
<1> HIDE DEF loading, length
<1>7. 0 \in S
  <2>1. 0 \in 0..n
    BY <1>1
  <2>2. loading[0] = own
    BY <1>6, <2>1
  <2> QED BY <1>5, <2>2
<1>8. ASSUME NEW k \in S PROVE k + 1 \in S
  <2> SUFFICES ASSUME k + 1 \in 0..n PROVE loading[k + 1] = First(all, length(k + 1))
    OBVIOUS
  <2>1. k \in Nat /\ k \in 0..n /\ k + 1 \in 1..n /\ k + 1 # 0 /\ (k + 1) - 1 = k
    BY <1>1
  <2>2. loading[k + 1] = GetOrCreate(loading[k], sessions[k + 1])
    BY <1>6, <2>1
  <2>3. loading[k] = First(all, length(k))
    BY <2>1
  <2>4. GetOrCreate(First(all, length((k + 1) - 1)), sessions[k + 1]) = First(all, length(k + 1))
    BY <1>4, <2>1
  <2> QED BY <2>1, <2>2, <2>3, <2>4
<1>9. loading[n] = First(all, length(n))
  <2>1. S \in SUBSET Nat
    OBVIOUS
  <2>2. n \in S
    <3> HIDE DEF S
    <3> QED BY <1>1, <1>7, <1>8, <2>1, SetInduction
  <2> QED BY <1>1, <2>2
<1>10. length(n) = Len(all)
  BY <1>1 DEF length
<1>11. First(all, Len(all)) = all
  BY <1>1, FirstSessions
<1> QED BY <1>2, <1>9, <1>10, <1>11

-----------------------------------------------------------------------------
(* The local state as its reader finds it. *)

LEMMA UuidIsNumber ==
    ASSUME NEW s \in Nat
    PROVE  ToUuid(s) \in Nat
<1> DEFINE fromMiddle == s \div LowerSize
           upper == (fromMiddle \div MiddleSize) % UpperSize
           middle == fromMiddle % MiddleSize
           lower == s % LowerSize
           a == (upper * 16 + 4) * MiddleSize
           b == (a + middle) * 4 + 2
<1>1. upper \in Nat /\ middle \in Nat /\ lower \in Nat /\ MiddleSize \in Nat /\ LowerSize \in Nat
  BY FieldSizesAssumption, FieldsOfStable
<1>2. ToUuid(s) = b * LowerSize + lower
  BY DEF ToUuid, UuidOf
<1> HIDE DEF upper, middle, lower
<1>3. a \in Nat
  BY <1>1
<1> HIDE DEF a
<1>4. b \in Nat
  BY <1>1, <1>3
<1> HIDE DEF b
<1> QED BY <1>1, <1>2, <1>4

(* Where the parts of the local state are. *)
LEMMA LocalLayout ==
    ASSUME NEW header \in Seq(Int), Len(header) = 3, NEW uuid \in Seq(Int), Len(uuid) = 1,
           NEW count \in Seq(Int), Len(count) = 2, NEW next \in Seq(Int), Len(next) = 2,
           NEW normalizer \in Seq(Int), NEW finalized \in Seq(Int),
           NEW words, words = header \o uuid \o count \o next \o normalizer \o finalized
    PROVE  /\ StandsAt(words, 0, header)
           /\ StandsAt(words, 3, uuid)
           /\ StandsAt(words, 4, count)
           /\ StandsAt(words, 6, next)
           /\ StandsAt(words, 8, normalizer)
           /\ StandsAt(words, 8 + Len(normalizer), finalized)
<1> DEFINE i == 0
           atUuid == 3
           atCount == 4
           atNext == 6
           atNormalizer == 8
           atFinalized == 8 + Len(normalizer)
           a == header \o uuid
           b == a \o count
           c == b \o next
           d == c \o normalizer
<1>0. /\ header \in Seq(Int) /\ uuid \in Seq(Int) /\ count \in Seq(Int)
      /\ next \in Seq(Int) /\ normalizer \in Seq(Int) /\ finalized \in Seq(Int)
  OBVIOUS
<1>1. a \in Seq(Int) /\ Len(a) = 4
  <2>1. a \in Seq(Int) /\ Len(a) = Len(header) + Len(uuid)
    BY ONLY <1>0, JoinedWords
  <2> QED BY <2>1
<1>2. b \in Seq(Int) /\ Len(b) = 6
  <2> HIDE DEF a
  <2>1. b \in Seq(Int) /\ Len(b) = Len(a) + Len(count)
    BY ONLY <1>0, <1>1, JoinedWords
  <2> QED BY <1>1, <2>1
<1>3. c \in Seq(Int) /\ Len(c) = 8
  <2> HIDE DEF b
  <2>1. c \in Seq(Int) /\ Len(c) = Len(b) + Len(next)
    BY ONLY <1>0, <1>2, JoinedWords
  <2> QED BY <1>2, <2>1
<1>4. d \in Seq(Int) /\ Len(d) = 8 + Len(normalizer)
  <2> HIDE DEF c
  <2>1. d \in Seq(Int) /\ Len(d) = Len(c) + Len(normalizer)
    BY ONLY <1>0, <1>3, JoinedWords
  <2> QED BY <1>3, <2>1
<1>5. StandsAt(words, i, d) /\ StandsAt(words, atFinalized, finalized)
  <2> HIDE DEF d
  <2>1. words \in Seq(Int)
    BY <1>0, <1>4, JoinedWords DEF d
  <2>2. StandsAt(words, i, d \o finalized)
    BY <2>1, AllStands DEF d
  <2>3. i \in Nat /\ atFinalized = i + Len(d)
    BY <1>4
  <2> HIDE DEF i, atFinalized
  <2>4. d \in Seq(Int) /\ finalized \in Seq(Int)
    BY ONLY <1>0, <1>4
  <2> QED BY ONLY <2>2, <2>3, <2>4, PartsStand
<1>6. StandsAt(words, i, c) /\ StandsAt(words, atNormalizer, normalizer)
  <2>1. StandsAt(words, i, c \o normalizer)
    BY <1>5
  <2> HIDE DEF c, d
  <2>2. i \in Nat /\ atNormalizer = i + Len(c)
    BY <1>3
  <2> HIDE DEF i, atNormalizer
  <2>3. c \in Seq(Int) /\ normalizer \in Seq(Int)
    BY ONLY <1>0, <1>3
  <2> QED BY ONLY <2>1, <2>2, <2>3, PartsStand
<1>7. StandsAt(words, i, b) /\ StandsAt(words, atNext, next)
  <2>1. StandsAt(words, i, b \o next)
    BY <1>6
  <2> HIDE DEF b, c, d
  <2>2. i \in Nat /\ atNext = i + Len(b)
    BY <1>2
  <2> HIDE DEF i, atNext
  <2>3. b \in Seq(Int) /\ next \in Seq(Int)
    BY ONLY <1>0, <1>2
  <2> QED BY ONLY <2>1, <2>2, <2>3, PartsStand
<1>8. StandsAt(words, i, a) /\ StandsAt(words, atCount, count)
  <2>1. StandsAt(words, i, a \o count)
    BY <1>7
  <2> HIDE DEF a, b, c, d
  <2>2. i \in Nat /\ atCount = i + Len(a)
    BY <1>1
  <2> HIDE DEF i, atCount
  <2>3. a \in Seq(Int) /\ count \in Seq(Int)
    BY ONLY <1>0, <1>1
  <2> QED BY ONLY <2>1, <2>2, <2>3, PartsStand
<1>9. StandsAt(words, i, header) /\ StandsAt(words, atUuid, uuid)
  <2> DEFINE x == header
             y == uuid
  <2>1. StandsAt(words, i, x \o y)
    BY <1>8
  <2>2. i \in Nat /\ atUuid = i + Len(x) /\ x \in Seq(Int) /\ y \in Seq(Int)
    OBVIOUS
  <2> HIDE DEF x, y, i, atUuid
  <2>3. StandsAt(words, i, x) /\ StandsAt(words, atUuid, y)
    BY ONLY <2>1, <2>2, PartsStand
  <2> QED BY <2>3 DEF x, y
<1> QED BY <1>5, <1>6, <1>7, <1>8, <1>9

LEMMA LocalRead ==
    ASSUME NEW w, CompressorInv(w), IndexFits(w), NEW words, words = SerializeWithLocal(w)
    PROVE  /\ words[1] = 1 /\ HasLocal(words)
           /\ words[4] = ToUuid(w.sessionId)
           /\ TakeU64(words, 5) = w.generatedIdCount
           /\ TakeU64(words, 7) = w.nextRangeBase
           /\ DeserializeNormalizer(words, 9) = w.normalizer
           /\ ReadsFinalized(words, FinalizedStart(words), w)
<1> DEFINE header == SerializeHeader(w, TRUE)
           uuid == U128(ToUuid(w.sessionId))
           count == U64(w.generatedIdCount)
           next == U64(w.nextRangeBase)
           normalizer == SerializeNormalizer(w)
           finalized == SerializeFinalized(w)
           ranges == LeadingLocals(w)
           n == Len(ranges)
<1>1. /\ w.sessionId \in Nat /\ w.generatedIdCount \in Nat /\ w.nextRangeBase \in Nat
      /\ w.normalizer \subseteq {-g : g \in 1..w.generatedIdCount}
  BY CompressorTypes, SessionsAssumption DEF CompressorInv, Positive
<1>2. ranges \in Seq(IdRange) /\ IdsIn(ranges) = w.normalizer
  BY <1>1, LeadingLocalsExact
<1>3. normalizer \in Seq(Int) /\ Len(normalizer) = 2 + n * 4 /\ n \in Nat
  BY <1>2, NormalizerLength
<1>4. /\ header \in Seq(Int) /\ Len(header) = 3
      /\ count \in Seq(Int) /\ Len(count) = 2
      /\ next \in Seq(Int) /\ Len(next) = 2
      /\ finalized \in Seq(Int)
  BY <1>1, HeaderLength, NumbersRead, FinalizedLength
<1>5. uuid \in Seq(Int) /\ Len(uuid) = 1 /\ uuid[1] = ToUuid(w.sessionId)
  BY <1>1, UuidIsNumber DEF U128
<1>6. /\ StandsAt(words, 0, header)
      /\ StandsAt(words, 3, uuid)
      /\ StandsAt(words, 4, count)
      /\ StandsAt(words, 6, next)
      /\ StandsAt(words, 8, normalizer)
      /\ StandsAt(words, 8 + Len(normalizer), finalized)
  <2>1. words = header \o uuid \o count \o next \o normalizer \o finalized
    BY DEF SerializeWithLocal
  <2> HIDE DEF header, uuid, count, next, normalizer, finalized
  <2> QED BY <1>3, <1>4, <1>5, <2>1, LocalLayout
<1>7. words[1] = 1 /\ HasLocal(words) /\ (words[3] # 0 <=> Is32Bit(w))
  <2>1. TRUE \in BOOLEAN
    OBVIOUS
  <2> QED BY <1>6, <2>1, HeaderRead
<1>8. words[4] = ToUuid(w.sessionId)
  <2>1. words[3 + 1] = uuid[1]
    <3> HIDE DEF uuid
    <3> QED BY <1>5, <1>6 DEF StandsAt
  <2> QED BY <1>5, <2>1
<1>9. TakeU64(words, 5) = w.generatedIdCount /\ TakeU64(words, 7) = w.nextRangeBase
  <2> DEFINE i == 4
             j == 6
             atCount == 5
             atNext == 7
             x == w.generatedIdCount
             y == w.nextRangeBase
  <2>1. /\ i \in Nat /\ j \in Nat /\ atCount = i + 1 /\ atNext = j + 1
        /\ x \in Nat /\ y \in Nat
        /\ StandsAt(words, i, U64(x)) /\ StandsAt(words, j, U64(y))
    BY <1>1, <1>6
  <2>2. TakeU64(words, atCount) = x /\ TakeU64(words, atNext) = y
    <3> HIDE DEF i, j, atCount, atNext, x, y
    <3> QED BY <2>1, NumberStands
  <2> QED BY <2>2
<1>10. TakeU64(words, 9) = n /\ DeserializeNormalizer(words, 9) = w.normalizer
  <2> DEFINE i == 8
             at == 9
  <2>1. i \in Nat /\ at = i + 1 /\ StandsAt(words, i, SerializeNormalizer(w))
    BY <1>6
  <2>2. TakeU64(words, at) = n /\ DeserializeNormalizer(words, at) = IdsIn(ranges)
    <3> HIDE DEF i, at
    <3> QED BY <1>2, <2>1, NormalizerRead
  <2> QED BY <1>2, <2>2
<1>11. ReadsFinalized(words, FinalizedStart(words), w)
  <2> DEFINE i == 8 + Len(normalizer)
             at == FinalizedStart(words)
  <2> HIDE DEF n, normalizer
  <2>1. i \in Nat /\ at = i + 1
    BY <1>3, <1>7, <1>10 DEF FinalizedStart
  <2>2. StandsAt(words, i, SerializeFinalized(w))
    BY <1>6
  <2> HIDE DEF i, at
  <2>3. ReadsFinalized(words, at, w)
    BY <1>7, <2>1, <2>2, FinalizedRead
  <2> QED BY <2>3 DEF at
<1> QED BY <1>7, <1>8, <1>9, <1>10, <1>11

LEMMA SameCompressor ==
    ASSUME NEW w \in Compressors, NEW s, s = w.sessionId,
           NEW c, c = [NewCompressor(s) EXCEPT !.generatedIdCount = w.generatedIdCount,
                                               !.nextRangeBase = w.nextRangeBase,
                                               !.normalizer = w.normalizer,
                                               !.clusterCapacity = w.clusterCapacity,
                                               !.sessions = w.sessions,
                                               !.clusters = w.clusters,
                                               !.finalIdLimit = w.finalIdLimit]
    PROVE  c = w
<1> DEFINE names == {"sessionId", "generatedIdCount", "nextRangeBase", "finalIdLimit",
                     "clusterCapacity", "sessions", "clusters", "normalizer"}
<1>1. DOMAIN c = names /\ c = [f \in DOMAIN c |-> c[f]]
  BY DEF NewCompressor
<1>2. DOMAIN w = names /\ w = [f \in DOMAIN w |-> w[f]]
  BY DEF Compressors
<1>3. /\ c.sessionId = w.sessionId /\ c.generatedIdCount = w.generatedIdCount
      /\ c.nextRangeBase = w.nextRangeBase /\ c.finalIdLimit = w.finalIdLimit
      /\ c.clusterCapacity = w.clusterCapacity /\ c.sessions = w.sessions
      /\ c.clusters = w.clusters /\ c.normalizer = w.normalizer
  BY DEF NewCompressor
<1>4. \A f \in names : c[f] = w[f]
  BY <1>3
<1> QED BY <1>1, <1>2, <1>4

(* What a session loads from its own serialized state is the compressor it
   wrote, field by field (serialize_with_local, deserialize in
   persistence.rs), if session IDs are stable IDs of a UUID.               *)
THEOREM LocalStateLoads ==
    ASSUME NEW w, CompressorInv(w), IndexFits(w), w.sessionId < StableLimit, NEW s
    PROVE  Deserialize(SerializeWithLocal(w), s) = {w}
<1> DEFINE words == SerializeWithLocal(w)
           t == w.clusters
           own == w.sessionId
           i == FinalizedStart(words)
           sessions == DeserializeSessions(words, i + 2)
           read == DeserializeClusters(words, i + 4 + Len(sessions))
           shell == DeserializeLocal(words)
<1>1. /\ words[1] = 1 /\ HasLocal(words)
      /\ words[4] = ToUuid(own)
      /\ TakeU64(words, 5) = w.generatedIdCount
      /\ TakeU64(words, 7) = w.nextRangeBase
      /\ DeserializeNormalizer(words, 9) = w.normalizer
      /\ ReadsFinalized(words, i, w)
  BY LocalRead
<1>2. /\ TakeU64(words, i) = w.clusterCapacity
      /\ sessions = Written(w)
      /\ Len(read) = Len(t)
      /\ \A k \in 1..Len(t) : /\ read[k].index = PlaceOf(w, t[k].session)
                              /\ read[k].capacity = t[k].capacity
                              /\ read[k].count = t[k].count
  BY <1>1 DEF ReadsFinalized
<1> HIDE DEF words, i, sessions, read
<1>3. /\ w \in Compressors /\ TableInv(t) /\ DOMAIN t = 1..Len(t)
      /\ w.finalIdLimit = FinalLimit(t)
      /\ w.sessions \in Seq(Sessions) /\ w.sessions # <<>> /\ w.sessions[1] = own
      /\ Distinct(w.sessions) /\ own \in Nat
  BY CompressorTypes, SessionsAssumption DEF CompressorInv, TableInv
<1>4. LoadClusters(sessions, read) = t
  <2>1. \A k \in 1..Len(t) : sessions[read[k].index + 1] = t[k].session
    BY <1>2, <1>3, WrittenSessions
  <2> HIDE DEF t
  <2> QED BY <1>2, <1>3, <2>1, ClustersLoad
<1>5. LoadSessions(<<own>>, sessions) = w.sessions
  <2> DEFINE all == w.sessions
             d == SessionCountDelta(w)
  <2>1. /\ d \in {0, 1} /\ Len(sessions) = Len(all) - d
        /\ \A k \in 1..(Len(all) - d) : sessions[k] = all[k + d]
    BY <1>2, <1>3, WrittenExactly
  <2>2. all \in Seq(Sessions) /\ Distinct(all) /\ all # <<>> /\ all[1] = own
    BY <1>3
  <2> HIDE DEF all, d, own
  <2>3. LoadSessions(<<all[1]>>, sessions) = all
    BY <2>1, <2>2, ExactSessionsLoad
  <2> QED BY <2>2, <2>3 DEF all
<1>6. FromUuid(ToUuid(own)) = own
  <2>1. own \in 0..(StableLimit - 1)
    <3>1. StableLimit \in Int
      BY FieldSizesAssumption DEF StableLimit
    <3> QED BY <1>3, <3>1
  <2>2. FromUuidString(ToUuid(own)) = {own}
    BY <2>1, StableIdsRoundTrip
  <2> QED BY <2>2 DEF FromUuidString
<1>7. shell = [NewCompressor(own) EXCEPT !.generatedIdCount = w.generatedIdCount,
                                         !.nextRangeBase = w.nextRangeBase,
                                         !.normalizer = w.normalizer]
  BY <1>1, <1>6 DEF DeserializeLocal
<1>8. shell.sessions = <<own>>
  BY <1>7 DEF NewCompressor
<1> DEFINE filled == [shell EXCEPT !.clusterCapacity = w.clusterCapacity,
                                   !.sessions = w.sessions,
                                   !.clusters = t]
<1>9. Deserialize(words, s) = {WithLimit(filled)}
  <2>1. Deserialize(words, s)
          = {WithLimit([shell EXCEPT !.clusterCapacity = TakeU64(words, i),
                                     !.sessions = LoadSessions(@, sessions),
                                     !.clusters = LoadClusters(sessions, read)])}
    <3> HIDE DEF shell
    <3> QED BY <1>1 DEF Deserialize, shell, i, sessions, read
  <2> HIDE DEF shell, t
  <2> QED BY <1>2, <1>4, <1>5, <1>8, <2>1
<1>10. WithLimit(filled) = w
  <2>1. filled.clusters = t
    BY <1>7 DEF NewCompressor
  <2>2. WithLimit(filled) = [NewCompressor(own) EXCEPT
                                !.generatedIdCount = w.generatedIdCount,
                                !.nextRangeBase = w.nextRangeBase,
                                !.normalizer = w.normalizer,
                                !.clusterCapacity = w.clusterCapacity,
                                !.sessions = w.sessions,
                                !.clusters = w.clusters,
                                !.finalIdLimit = w.finalIdLimit]
    <3>1. WithLimit(filled) = [filled EXCEPT !.finalIdLimit = w.finalIdLimit]
      BY <1>3, <2>1 DEF WithLimit
    <3> QED BY <1>7, <3>1
  <2> HIDE DEF filled
  <2> QED BY <1>3, <2>2, SameCompressor
<1> QED BY <1>9, <1>10 DEF words
=============================================================================
