-------------------------- MODULE NormalizerProofs --------------------------
(***************************************************************************)
(* The range list of a normalizer holds exactly the local IDs given, its   *)
(* search is ordered, and the sorted map of the rewrite finds the same,    *)
(* for any number and pattern of IDs.                                      *)
(*                                                                         *)
(* Neither is inductive by itself: an ID is added to the last range only,  *)
(* which is right because ranges descend with a gap between any two, and   *)
(* none reaches beyond the IDs generated.                                  *)
(***************************************************************************)
EXTENDS RewriteNormalizer, SequenceTheorems, WellFoundedInduction, TLAPS

LocalRange == [base : Int, count : Nat]

Last(range) == range.base - range.count + 1

(* A range is not empty and lies within the first n IDs. *)
Within(range, n) ==
    range.count > 0 /\ range.base <= -1 /\ Last(range) >= -n

WithinGenerated ==
    \A i \in DOMAIN leadingLocals : Within(leadingLocals[i], generated)

(* Between two ranges there is at least one eager final ID. *)
Separated ==
    \A i, j \in DOMAIN leadingLocals :
        i < j => leadingLocals[j].base < Last(leadingLocals[i]) - 1

GivenIsContained ==
    \A query \in Int : Contains(leadingLocals, query) <=> query \in given

IInv == TypeOK /\ WithinGenerated /\ Separated /\ GivenIsContained

-----------------------------------------------------------------------------
(* The numbers of a range. *)
LEMMA RangeTypes ==
    ASSUME NEW range \in LocalRange
    PROVE  /\ range.base \in Int /\ range.count \in Nat
           /\ Last(range) = range.base - range.count + 1 /\ Last(range) \in Int
  BY DEF LocalRange, Last

(* A range holds the IDs from its base down to its last one. *)
LEMMA CompareEqual ==
    ASSUME NEW range \in LocalRange, NEW query \in Int
    PROVE  Compare(range, query) = "Equal" <=> Last(range) <= query /\ query <= range.base
  BY DEF Compare, Last, LocalRange

(* An ID is contained if it lies within one of the ranges. *)
LEMMA ContainsMeans ==
    ASSUME NEW ranges \in Seq(LocalRange), NEW query \in Int
    PROVE  Contains(ranges, query) <=>
              \E i \in DOMAIN ranges : Last(ranges[i]) <= query /\ query <= ranges[i].base
  <1>1. ASSUME NEW i \in DOMAIN ranges
        PROVE  Compare(ranges[i], query) = "Equal" <=>
                  Last(ranges[i]) <= query /\ query <= ranges[i].base
    <2>1. ranges[i] \in LocalRange
      OBVIOUS
    <2> QED BY <2>1, CompareEqual
  <1> QED BY <1>1 DEF Contains

(* A new list contains nothing. *)
LEMMA InitEstablishes == Init => IInv
  BY DEF Init, IInv, TypeOK, WithinGenerated, Separated, GivenIsContained, Contains

(* The next local ID extends the last range or begins a new one. *)
LEMMA GenerateLocalKeeps ==
    ASSUME IInv, GenerateLocal
    PROVE  IInv'
  <1> DEFINE n == Len(leadingLocals)
             new == -(generated + 1)
  <1>1. /\ leadingLocals \in Seq(LocalRange) /\ generated \in Nat /\ given \subseteq Int
        /\ n \in Nat /\ DOMAIN leadingLocals = 1..n
        /\ \A i \in 1..n : leadingLocals[i] \in LocalRange
    <2>1. leadingLocals \in Seq(LocalRange) /\ generated \in Nat /\ given \subseteq Int
      BY DEF IInv, TypeOK, LocalRange
    <2> QED BY <2>1
  <1> HIDE DEF n
  <1>2. /\ generated' = generated + 1 /\ given' = given \cup {new}
        /\ leadingLocals' = AddLocalRange(leadingLocals, new, 1)
        /\ new \in Int
    BY <1>1 DEF GenerateLocal
  <1>3. \A i \in 1..n : /\ leadingLocals[i].count > 0 /\ leadingLocals[i].base <= -1
                        /\ Last(leadingLocals[i]) >= new + 1
    <2>1. ASSUME NEW i \in 1..n PROVE Within(leadingLocals[i], generated)
      BY <1>1 DEF IInv, WithinGenerated
    <2> QED BY <1>1, <2>1 DEF Within
  <1>4. \A i, j \in 1..n : i < j => leadingLocals[j].base < Last(leadingLocals[i]) - 1
    BY <1>1 DEF IInv, Separated
  <1>5. \A query \in Int :
           query \in given <=> \E i \in 1..n : Last(leadingLocals[i]) <= query
                                               /\ query <= leadingLocals[i].base
    BY <1>1, ContainsMeans DEF IInv, GivenIsContained
  <1>6. CASE leadingLocals # <<>> /\ leadingLocals[n].base - leadingLocals[n].count = new
    <2> DEFINE longer == [base |-> leadingLocals[n].base, count |-> leadingLocals[n].count + 1]
    <2>1. n \in 1..n /\ leadingLocals[n] \in LocalRange
      BY <1>1, <1>6
    <2>2. longer \in LocalRange /\ Last(longer) = new /\ longer.base = leadingLocals[n].base
          /\ longer.count > 0 /\ Last(leadingLocals[n]) = new + 1
      BY <1>2, <1>6, <2>1 DEF LocalRange, Last
    <2>3. leadingLocals' = [leadingLocals EXCEPT ![n] = longer]
      <3>1. [leadingLocals[n] EXCEPT !.count = leadingLocals[n].count + 1] = longer
        BY <2>1 DEF LocalRange
      <3>2. leadingLocals' = [leadingLocals EXCEPT
                                 ![n] = [@ EXCEPT !.count = leadingLocals[n].count + 1]]
        BY <1>2, <1>6 DEF AddLocalRange, n
      <3> QED BY <3>1, <3>2
    <2> HIDE DEF longer
    <2>4. /\ leadingLocals' \in Seq(LocalRange) /\ DOMAIN leadingLocals' = 1..n
          /\ leadingLocals'[n] = longer
          /\ \A i \in 1..n : i # n => leadingLocals'[i] = leadingLocals[i]
      <3>1. leadingLocals \in Seq(LocalRange) /\ longer \in LocalRange
            /\ DOMAIN leadingLocals = 1..n /\ n \in 1..n
        BY <1>1, <2>1, <2>2
      <3> QED BY <2>3, <3>1
    <2>5. TypeOK'
      <3>1. leadingLocals' \in Seq(LocalRange) /\ generated' \in Nat /\ given' \subseteq Int
        <4>1. leadingLocals' \in Seq(LocalRange)
          BY <2>4
        <4>2. generated' \in Nat /\ given' \subseteq Int
          BY <1>1, <1>2
        <4> QED BY <4>1, <4>2
      <3> QED BY <3>1 DEF TypeOK, LocalRange
    <2>6. WithinGenerated'
      <3>1. ASSUME NEW i \in 1..n PROVE Within(leadingLocals'[i], generated + 1)
        <4>1. CASE i = n
          <5>1. leadingLocals'[i] = longer /\ leadingLocals[n].base <= -1 /\ generated \in Nat
            BY <1>1, <1>3, <2>1, <2>4, <4>1
          <5> QED BY <2>2, <5>1 DEF Within
        <4>2. CASE i # n
          <5>1. leadingLocals'[i] = leadingLocals[i] /\ leadingLocals[i] \in LocalRange
            BY <1>1, <2>4, <4>2
          <5> QED BY <1>1, <1>3, <5>1, RangeTypes DEF Within
        <4> QED BY <4>1, <4>2
      <3> QED BY <1>2, <2>4, <3>1 DEF WithinGenerated
    <2>7. Separated'
      <3>1. ASSUME NEW i \in 1..n, NEW j \in 1..n, i < j
            PROVE  leadingLocals'[j].base < Last(leadingLocals'[i]) - 1
        <4>1. leadingLocals'[i] = leadingLocals[i]
          <5>1. i # n
            BY <1>1, <3>1
          <5> QED BY <2>4, <5>1
        <4>2. leadingLocals'[j].base = leadingLocals[j].base
          BY <2>2, <2>4
        <4> QED BY <1>4, <3>1, <4>1, <4>2
      <3> QED BY <2>4, <3>1 DEF Separated
    <2>8. GivenIsContained'
      <3>1. ASSUME NEW query \in Int
            PROVE  Contains(leadingLocals', query) <=> query \in given'
        <4>1. Contains(leadingLocals', query) <=>
                 \E i \in 1..n : Last(leadingLocals'[i]) <= query
                                 /\ query <= leadingLocals'[i].base
          BY <2>4, ContainsMeans
        <4>2. (Last(longer) <= query /\ query <= longer.base) <=>
                 \/ Last(leadingLocals[n]) <= query /\ query <= leadingLocals[n].base
                 \/ query = new
          <5>1. leadingLocals[n].base \in Int /\ leadingLocals[n].base >= new
            BY <1>1, <1>2, <1>3, <2>1, <2>2, RangeTypes
          <5> QED BY <1>2, <2>2, <5>1
        <4>3. (\E i \in 1..n : Last(leadingLocals'[i]) <= query /\ query <= leadingLocals'[i].base)
                 <=> \/ \E i \in 1..n : Last(leadingLocals[i]) <= query
                                        /\ query <= leadingLocals[i].base
                     \/ query = new
          BY <2>1, <2>4, <4>2
        <4> QED BY <1>2, <1>5, <4>1, <4>3
      <3> QED BY <3>1 DEF GivenIsContained
    <2> QED BY <2>5, <2>6, <2>7, <2>8 DEF IInv
  <1>7. CASE ~(leadingLocals # <<>> /\ leadingLocals[n].base - leadingLocals[n].count = new)
    <2> DEFINE fresh == [base |-> new, count |-> 1]
    <2>1. leadingLocals' = Append(leadingLocals, fresh)
      BY <1>2, <1>7 DEF AddLocalRange, n
    <2>2. fresh \in LocalRange /\ Last(fresh) = new /\ fresh.base = new /\ fresh.count = 1
      BY <1>2 DEF LocalRange, Last
    <2> HIDE DEF fresh
    <2>3. /\ leadingLocals' \in Seq(LocalRange) /\ DOMAIN leadingLocals' = 1..(n + 1)
          /\ leadingLocals'[n + 1] = fresh
          /\ \A i \in 1..n : leadingLocals'[i] = leadingLocals[i]
      BY <1>1, <2>1, <2>2 DEF n
    <2>4. TypeOK'
      <3>1. leadingLocals' \in Seq(LocalRange) /\ generated' \in Nat /\ given' \subseteq Int
        <4>1. leadingLocals' \in Seq(LocalRange)
          BY <2>3
        <4>2. generated' \in Nat /\ given' \subseteq Int
          BY <1>1, <1>2
        <4> QED BY <4>1, <4>2
      <3> QED BY <3>1 DEF TypeOK, LocalRange
    <2>5. WithinGenerated'
      <3>1. ASSUME NEW i \in 1..(n + 1) PROVE Within(leadingLocals'[i], generated + 1)
        <4>1. CASE i = n + 1
          BY <1>1, <2>2, <2>3, <4>1 DEF Within
        <4>2. CASE i # n + 1
          <5>1. leadingLocals'[i] = leadingLocals[i] /\ leadingLocals[i] \in LocalRange /\ i \in 1..n
            BY <1>1, <2>3, <4>2
          <5> QED BY <1>1, <1>3, <5>1, RangeTypes DEF Within
        <4> QED BY <4>1, <4>2
      <3> QED BY <1>2, <2>3, <3>1 DEF WithinGenerated
    <2>6. \A i \in 1..n : new < Last(leadingLocals[i]) - 1
      <3>1. ASSUME NEW i \in 1..n PROVE Last(leadingLocals[i]) - 1 # new
        <4>1. n \in 1..n /\ leadingLocals # <<>>
          BY <1>1
        <4>2. CASE i = n
          BY <1>1, <1>7, <4>1, <4>2, RangeTypes
        <4>3. CASE i < n
          <5>1. leadingLocals[n].base < Last(leadingLocals[i]) - 1
            BY <1>4, <4>1, <4>3
          <5>2. leadingLocals[n].base >= new
            <6>1. leadingLocals[n] \in LocalRange
              BY <1>1, <4>1
            <6>2. leadingLocals[n].count > 0 /\ Last(leadingLocals[n]) >= new + 1
              BY <1>3, <4>1
            <6> HIDE DEF new
            <6> QED BY <1>2, <6>1, <6>2, RangeTypes
          <5> QED BY <1>1, <1>2, <4>1, <5>1, <5>2, RangeTypes
        <4> QED BY <1>1, <4>2, <4>3
      <3> QED BY <1>1, <1>2, <1>3, <3>1, RangeTypes
    <2>7. Separated'
      <3>1. ASSUME NEW i \in 1..(n + 1), NEW j \in 1..(n + 1), i < j
            PROVE  leadingLocals'[j].base < Last(leadingLocals'[i]) - 1
        <4>1. i \in 1..n /\ leadingLocals'[i] = leadingLocals[i]
          BY <1>1, <2>3, <3>1
        <4>2. CASE j = n + 1
          BY <2>2, <2>3, <2>6, <4>1, <4>2
        <4>3. CASE j # n + 1
          <5>1. j \in 1..n /\ leadingLocals'[j] = leadingLocals[j]
            BY <1>1, <2>3, <4>3
          <5> QED BY <1>4, <3>1, <4>1, <5>1
        <4> QED BY <4>2, <4>3
      <3> QED BY <2>3, <3>1 DEF Separated
    <2>8. GivenIsContained'
      <3>1. ASSUME NEW query \in Int
            PROVE  Contains(leadingLocals', query) <=> query \in given'
        <4>1. Contains(leadingLocals', query) <=>
                 \E i \in 1..(n + 1) : Last(leadingLocals'[i]) <= query
                                       /\ query <= leadingLocals'[i].base
          BY <2>3, ContainsMeans
        <4>2. (\E i \in 1..(n + 1) : Last(leadingLocals'[i]) <= query
                                     /\ query <= leadingLocals'[i].base)
                 <=> \/ \E i \in 1..n : Last(leadingLocals[i]) <= query
                                        /\ query <= leadingLocals[i].base
                     \/ query = new
          <5>1. (Last(fresh) <= query /\ query <= fresh.base) <=> query = new
            BY <1>2, <2>2
          <5> QED BY <1>1, <2>3, <5>1
        <4> QED BY <1>2, <1>5, <4>1, <4>2
      <3> QED BY <3>1 DEF GivenIsContained
    <2> QED BY <2>4, <2>5, <2>7, <2>8 DEF IInv
  <1> QED BY <1>6, <1>7

(* An eager final ID leaves a gap after the last range. *)
LEMMA GenerateEagerFinalKeeps ==
    ASSUME IInv, GenerateEagerFinal
    PROVE  IInv'
  <1>1. /\ generated' = generated + 1 /\ leadingLocals' = leadingLocals /\ given' = given
        /\ generated \in Nat /\ leadingLocals \in Seq(LocalRange)
    BY DEF GenerateEagerFinal, IInv, TypeOK, LocalRange
  <1>2. WithinGenerated'
    <2>1. ASSUME NEW i \in DOMAIN leadingLocals
          PROVE  Within(leadingLocals[i], generated + 1)
      <3>1. Within(leadingLocals[i], generated) /\ leadingLocals[i] \in LocalRange
        BY <1>1 DEF IInv, WithinGenerated
      <3> QED BY <1>1, <3>1, RangeTypes DEF Within
    <2> QED BY <1>1, <2>1 DEF WithinGenerated
  <1>3. TypeOK'
    BY <1>1 DEF IInv, TypeOK
  <1>4. Separated' /\ GivenIsContained'
    BY <1>1 DEF IInv, Separated, GivenIsContained
  <1> QED BY <1>2, <1>3, <1>4 DEF IInv

(* The list contains the IDs given and no other, and every query finds the
   ranges in the order a binary search needs.                              *)
LEMMA InvariantSuffices ==
    ASSUME IInv
    PROVE  TypeOK /\ ContainsIsExact /\ SearchIsOrdered
  <1>1. /\ leadingLocals \in Seq(LocalRange)
        /\ \A query \in Locals : query \in Int
    BY MaxGeneratedAssumption DEF IInv, TypeOK, LocalRange, Locals
  <1>2. ContainsIsExact
    BY <1>1 DEF IInv, ContainsIsExact, GivenIsContained
  <1>3. ASSUME NEW query \in Locals,
               NEW i \in DOMAIN leadingLocals, NEW j \in DOMAIN leadingLocals, i < j
        PROVE  \/ Compare(leadingLocals[i], query) = "Less"
               \/ Compare(leadingLocals[j], query) = "Greater"
    <2>1. leadingLocals[i] \in LocalRange /\ leadingLocals[j] \in LocalRange /\ query \in Int
      BY <1>1
    <2>2. leadingLocals[j].base < Last(leadingLocals[i]) - 1 /\ leadingLocals[i].count > 0
      BY <1>3 DEF IInv, Separated, WithinGenerated, Within
    <2> QED BY <2>1, <2>2, RangeTypes DEF Compare
  <1> QED BY <1>2, <1>3 DEF IInv, SearchIsOrdered

(* The ranges descend with a gap between any two, within the IDs generated,
   and cover the local IDs given.                                          *)
LEMMA IInvHolds == Spec => []IInv
  <1>1. Init => IInv
    BY InitEstablishes
  <1>2. IInv /\ [Next]_vars => IInv'
    <2>1. SUFFICES ASSUME IInv, [Next]_vars
                   PROVE  IInv'
      OBVIOUS
    <2>2. CASE GenerateLocal
      BY <2>1, <2>2, GenerateLocalKeeps
    <2>3. CASE GenerateEagerFinal
      BY <2>1, <2>3, GenerateEagerFinalKeeps
    <2>4. CASE UNCHANGED vars
      BY <2>1, <2>4 DEF vars, IInv, TypeOK, WithinGenerated, Separated, GivenIsContained
    <2> QED BY <2>1, <2>2, <2>3, <2>4 DEF Next
  <1> QED BY <1>1, <1>2, PTL DEF Spec

(* The list holds ranges of numbers and the counter counts up, whatever
   pattern of IDs is generated.                                            *)
THEOREM TypesHold == Spec => []TypeOK
  <1>1. IInv => TypeOK
    BY DEF IInv
  <1> QED BY <1>1, IInvHolds, PTL

(* The normalizer stands for exactly the local IDs that were given, in
   whatever pattern they alternate with eager final IDs
   (session_space_normalizer.rs:17-39).                                    *)
THEOREM ContainsIsExactHolds == Spec => []ContainsIsExact
  <1>1. IInv => ContainsIsExact
    BY InvariantSuffices
  <1> QED BY <1>1, IInvHolds, PTL

(* Every query finds the ranges in the order that its binary search needs
   to find the one that holds it (session_space_normalizer.rs:29-37).      *)
THEOREM SearchIsOrderedHolds == Spec => []SearchIsOrdered
  <1>1. IInv => SearchIsOrdered
    BY InvariantSuffices
  <1> QED BY <1>1, IInvHolds, PTL

-----------------------------------------------------------------------------
(* The map and its binary search, which compares keys in descending order. *)
MapPair == [key : Int, value : Nat]

Descending(m) == \A i, j \in DOMAIN m : i < j => m[i].key > m[j].key

(* What a search for a key answers: where its pair is, or which pairs come
   before it and which after.                                              *)
IsAnswer(m, search, at) ==
    /\ at.found \in BOOLEAN
    /\ at.index \in 0..Len(m)
    /\ at.found => at.index # Len(m) /\ m[at.index + 1].key = search
    /\ ~at.found => /\ \A i \in 1..at.index : m[i].key > search
                    /\ \A i \in (at.index + 1)..Len(m) : m[i].key < search

(* One round of the search, in the part of the map from low up to high, with
   answers for smaller parts.                                              *)
Round(m, search, find, low, high) ==
    LET mid == (low + high) \div 2
        c == Order(search, m[mid + 1].key)
    IN  IF low >= high THEN [found |-> FALSE, index |-> mid]
        ELSE IF c > 0 THEN find[<<mid + 1, high>>]
        ELSE IF c < 0 THEN find[<<low, mid>>]
        ELSE [found |-> TRUE, index |-> mid]

Parts(m) == (0..Len(m)) \X (0..Len(m))

IsSearch(m, search, find) ==
    find = [part \in Parts(m) |-> Round(m, search, find, part[1], part[2])]

LEMMA SetInduction ==
    ASSUME NEW S \in SUBSET Nat, 0 \in S, \A k \in S : k + 1 \in S
    PROVE  \A k \in Nat : k \in S
<1> DEFINE R == {pair \in Nat \X Nat : pair[1] < pair[2]}
<1> SUFFICES ASSUME Nat \ S # {} PROVE FALSE
  OBVIOUS
<1>1. IsWellFoundedOn(R, Nat)
  BY NatLessThanWellFounded DEF OpToRel
<1>2. PICK k \in Nat \ S : \A y \in Nat \ S : ~(<<y, k>> \in R)
  BY <1>1, WFMin
<1>3. \A y \in Nat \ S : ~(y < k)
  BY <1>2
<1>5. k # 0 /\ k - 1 \in Nat /\ k - 1 < k
  BY <1>2
<1>4. (k - 1) + 1 = k
  BY <1>2
<1> QED BY <1>2, <1>3, <1>4, <1>5

(* A round that goes on does so in a smaller part. *)
LEMMA RoundNarrows ==
    ASSUME NEW n \in Nat, NEW low \in 0..n, NEW high \in 0..n, low < high
    PROVE  LET mid == (low + high) \div 2
           IN  /\ mid \in 0..n /\ mid + 1 \in 1..n /\ mid + 1 \in 0..n
               /\ low <= mid /\ mid + 1 <= high
               /\ high - (mid + 1) < high - low /\ mid - low < high - low
  OBVIOUS

(* Two searches give the same answers for parts smaller than k. *)
AgreeBelow(f, g, m, k) ==
    \A a, b \in 0..Len(m) : b - a < k => f[<<a, b>>] = g[<<a, b>>]

(* So a round looks only at the answers for smaller parts. *)
LEMMA RoundReads ==
    ASSUME NEW m \in Seq(MapPair), NEW search \in Int, NEW f, NEW g,
           NEW low \in 0..Len(m), NEW high \in 0..Len(m),
           AgreeBelow(f, g, m, high - low)
    PROVE  Round(m, search, f, low, high) = Round(m, search, g, low, high)
<1> DEFINE n == Len(m)
           mid == (low + high) \div 2
<1>1. n \in Nat
  OBVIOUS
<1>2. CASE low >= high
  BY <1>2 DEF Round
<1>3. CASE low < high
  <2>1. mid \in 0..n /\ mid + 1 \in 0..n
        /\ high - (mid + 1) < high - low /\ mid - low < high - low
    BY <1>1, <1>3, RoundNarrows
  <2>2. f[<<mid + 1, high>>] = g[<<mid + 1, high>>] /\ f[<<low, mid>>] = g[<<low, mid>>]
    <3> HIDE DEF mid
    <3> QED BY <2>1 DEF AgreeBelow
  <2> HIDE DEF mid
  <2>3. /\ Round(m, search, f, low, high) =
              IF low >= high THEN [found |-> FALSE, index |-> mid]
              ELSE IF Order(search, m[mid + 1].key) > 0 THEN f[<<mid + 1, high>>]
              ELSE IF Order(search, m[mid + 1].key) < 0 THEN f[<<low, mid>>]
              ELSE [found |-> TRUE, index |-> mid]
        /\ Round(m, search, g, low, high) =
              IF low >= high THEN [found |-> FALSE, index |-> mid]
              ELSE IF Order(search, m[mid + 1].key) > 0 THEN g[<<mid + 1, high>>]
              ELSE IF Order(search, m[mid + 1].key) < 0 THEN g[<<low, mid>>]
              ELSE [found |-> TRUE, index |-> mid]
    BY DEF Round, mid
  <2> QED BY <2>2, <2>3
<1> QED BY <1>1, <1>2, <1>3

(* The recursion of the search is well founded: it defines a function. *)
LEMMA SearchExists ==
    ASSUME NEW m \in Seq(MapPair), NEW search \in Int
    PROVE  \E find : IsSearch(m, search, find)
<1> DEFINE n == Len(m)
           SolvedBelow(f, k) ==
               \A a, b \in 0..n : b - a < k => f[<<a, b>>] = Round(m, search, f, a, b)
           S == {k \in Nat : \E f : SolvedBelow(f, k)}
           Next1(f) == [part \in Parts(m) |-> Round(m, search, f, part[1], part[2])]
<1>1. n \in Nat /\ Parts(m) = (0..n) \X (0..n)
  BY DEF Parts
<1>2. \A f : \A a, b \in 0..n : Next1(f)[<<a, b>>] = Round(m, search, f, a, b)
  BY <1>1
<1> HIDE DEF Next1
<1>3. ASSUME NEW f, NEW k \in Nat, SolvedBelow(f, k)
      PROVE  SolvedBelow(Next1(f), k + 1)
  <2> SUFFICES ASSUME NEW a \in 0..n, NEW b \in 0..n, b - a < k + 1
               PROVE  Next1(f)[<<a, b>>] = Round(m, search, Next1(f), a, b)
    OBVIOUS
  <2>1. ASSUME NEW a1 \in 0..n, NEW b1 \in 0..n, b1 - a1 < b - a
        PROVE  f[<<a1, b1>>] = Next1(f)[<<a1, b1>>]
    <3>1. b1 - a1 < k
      BY <2>1, <1>1
    <3> QED BY <3>1, <1>2, <1>3
  <2>2. Round(m, search, f, a, b) = Round(m, search, Next1(f), a, b)
    <3>1. AgreeBelow(f, Next1(f), m, b - a)
      BY ONLY <2>1 DEF n, AgreeBelow
    <3>2. m \in Seq(MapPair) /\ search \in Int /\ a \in 0..Len(m) /\ b \in 0..Len(m)
      OBVIOUS
    <3> HIDE DEF n, S, SolvedBelow
    <3> QED BY ONLY <3>1, <3>2, RoundReads
  <2> QED BY <1>2, <2>2
<1>4. 0 \in S
  <2> DEFINE empty == [part \in Parts(m) |-> [found |-> FALSE, index |-> (part[1] + part[2]) \div 2]]
  <2>1. ASSUME NEW a \in 0..n, NEW b \in 0..n, b - a < 0
        PROVE  empty[<<a, b>>] = Round(m, search, empty, a, b)
    <3>1. a >= b
      BY <2>1, <1>1
    <3>2. empty[<<a, b>>] = [found |-> FALSE, index |-> (a + b) \div 2]
      BY <1>1
    <3> QED BY <3>1, <3>2 DEF Round
  <2> HIDE DEF empty
  <2>2. SolvedBelow(empty, 0)
    BY <2>1
  <2> QED BY <2>2
<1>5. ASSUME NEW k \in S PROVE k + 1 \in S
  <2>1. PICK f : SolvedBelow(f, k)
    OBVIOUS
  <2>2. SolvedBelow(Next1(f), k + 1)
    <3> HIDE DEF SolvedBelow
    <3> QED BY <1>3, <2>1
  <2>3. k + 1 \in Nat
    OBVIOUS
  <2> HIDE DEF SolvedBelow
  <2> QED BY <2>2, <2>3
<1>6. n + 1 \in S
  <2> HIDE DEF S
  <2>1. S \in SUBSET Nat
    BY DEF S
  <2>2. n + 1 \in Nat
    BY <1>1
  <2> QED BY <1>4, <1>5, <2>1, <2>2, SetInduction
<1>7. PICK f : SolvedBelow(f, n + 1)
  BY <1>6
<1>8. \A a, b \in 0..n : b - a < n + 1
  BY <1>1
<1>9. \A a, b \in 0..n : f[<<a, b>>] = Next1(f)[<<a, b>>]
  BY <1>2, <1>7, <1>8
<1>10. \A a, b \in 0..n : Round(m, search, f, a, b) = Round(m, search, Next1(f), a, b)
  <2>1. ASSUME NEW a \in 0..n, NEW b \in 0..n
        PROVE  Round(m, search, f, a, b) = Round(m, search, Next1(f), a, b)
    <3>1. AgreeBelow(f, Next1(f), m, b - a)
      BY ONLY <1>9 DEF n, AgreeBelow
    <3>2. m \in Seq(MapPair) /\ search \in Int /\ a \in 0..Len(m) /\ b \in 0..Len(m)
      OBVIOUS
    <3> HIDE DEF n, S, SolvedBelow
    <3> QED BY ONLY <3>1, <3>2, RoundReads
  <2> QED BY <2>1
<1>11. ASSUME NEW part \in Parts(m)
       PROVE  Round(m, search, f, part[1], part[2])
                 = Round(m, search, Next1(f), part[1], part[2])
  BY <1>1, <1>10
<1>12. Next1(f) = [part \in Parts(m) |-> Round(m, search, Next1(f), part[1], part[2])]
  BY <1>11 DEF Next1
<1> QED BY <1>12 DEF IsSearch

(* In a map whose keys descend a search finds the pair of its key, or where
   it would be.                                                            *)
LEMMA SearchFinds ==
    ASSUME NEW m \in Seq(MapPair), Descending(m), NEW search \in Int
    PROVE  IsAnswer(m, search, KeyIndexOf(m, search))
<1> DEFINE n == Len(m)
           find == CHOOSE f : IsSearch(m, search, f)
           Bounds(a, b) ==
               /\ \A i \in 1..a : m[i].key > search
               /\ \A i \in (b + 1)..n : m[i].key < search
           Answered(k) ==
               \A a, b \in 0..n : a <= b /\ b - a < k /\ Bounds(a, b)
                                      => IsAnswer(m, search, find[<<a, b>>])
           S == {k \in Nat : Answered(k)}
<1>1. n \in Nat /\ DOMAIN m = 1..n
      /\ \A i \in 1..n : m[i] \in MapPair /\ m[i].key \in Int
  <2>1. n \in Nat /\ DOMAIN m = 1..n /\ \A i \in 1..n : m[i] \in MapPair
    OBVIOUS
  <2> QED BY <2>1 DEF MapPair
<1>2. KeyIndexOf(m, search) = find[<<0, n>>]
  BY DEF KeyIndexOf, IsSearch, Round, Parts
<1>3. IsSearch(m, search, find)
  BY SearchExists
<1>4. \A a, b \in 0..n : find[<<a, b>>] = Round(m, search, find, a, b)
  <2> HIDE DEF find
  <2>1. ASSUME NEW a \in 0..n, NEW b \in 0..n
        PROVE  find[<<a, b>>] = Round(m, search, find, a, b)
    <3>1. <<a, b>> \in Parts(m) /\ <<a, b>>[1] = a /\ <<a, b>>[2] = b
      BY DEF Parts
    <3> QED BY <1>3, <3>1 DEF IsSearch
  <2> QED BY <2>1
<1> HIDE DEF find, n
<1>5. 0 \in S
  BY <1>1
<1>6. ASSUME NEW k \in S PROVE k + 1 \in S
  <2> SUFFICES ASSUME NEW a \in 0..n, NEW b \in 0..n, a <= b, b - a < k + 1, Bounds(a, b)
               PROVE  IsAnswer(m, search, find[<<a, b>>])
    OBVIOUS
  <2> DEFINE mid == (a + b) \div 2
  <2>1. find[<<a, b>>] = Round(m, search, find, a, b)
    BY <1>4
  <2>2. CASE a = b
    <3>1. mid = a
      BY <1>1, <2>2
    <3>2. find[<<a, b>>] = [found |-> FALSE, index |-> a]
      BY <1>1, <2>1, <2>2, <3>1 DEF Round
    <3> QED BY <2>2, <3>2 DEF IsAnswer, n
  <2>3. CASE a < b
    <3>1. /\ mid \in 0..n /\ mid + 1 \in 1..n /\ mid + 1 \in 0..n
          /\ a <= mid /\ mid + 1 <= b
          /\ b - (mid + 1) < b - a /\ mid - a < b - a
      BY <1>1, <2>3, RoundNarrows
    <3> DEFINE key == m[mid + 1].key
    <3>2. find[<<a, b>>] = IF Order(search, key) > 0 THEN find[<<mid + 1, b>>]
                           ELSE IF Order(search, key) < 0 THEN find[<<a, mid>>]
                           ELSE [found |-> TRUE, index |-> mid]
      BY <1>1, <2>1, <2>3 DEF Round
    <3> HIDE DEF mid
    <3>3. key \in Int /\ Order(search, key) = key - search
      BY <1>1, <3>1 DEF Order
    <3>4. \A i \in 1..(mid + 1) : m[i].key >= key
      <4>1. ASSUME NEW i \in 1..(mid + 1) PROVE m[i].key >= m[mid + 1].key
        <5>1. i \in 1..n /\ mid + 1 \in 1..n /\ (i = mid + 1 \/ i < mid + 1)
          BY <1>1, <3>1
        <5>2. m[i].key \in Int /\ m[mid + 1].key \in Int
          BY <1>1, <5>1
        <5> QED BY <1>1, <5>1, <5>2 DEF Descending
      <4> QED BY <4>1
    <3>5. \A i \in (mid + 1)..n : m[i].key <= key
      <4>1. ASSUME NEW i \in (mid + 1)..n PROVE m[i].key <= m[mid + 1].key
        <5>1. i \in 1..n /\ mid + 1 \in 1..n /\ (i = mid + 1 \/ mid + 1 < i)
          BY <1>1, <3>1
        <5>2. m[i].key \in Int /\ m[mid + 1].key \in Int
          BY <1>1, <5>1
        <5> QED BY <1>1, <5>1, <5>2 DEF Descending
      <4> QED BY <4>1
    <3> HIDE DEF key
    <3>6. CASE key > search
      <4>1. Bounds(mid + 1, b)
        <5>1. ASSUME NEW i \in 1..(mid + 1) PROVE m[i].key > search
          <6>1. i \in 1..n /\ m[i].key >= key
            BY <1>1, <3>1, <3>4
          <6>2. m[i].key \in Int
            BY <1>1, <6>1
          <6> QED BY <3>3, <3>6, <6>1, <6>2
        <5> QED BY <5>1
      <4>2. b - (mid + 1) < k
        BY <1>1, <3>1
      <4>3. IsAnswer(m, search, find[<<mid + 1, b>>])
        <5> HIDE DEF Bounds
        <5> QED BY <4>1, <4>2, <3>1
      <4> QED BY <3>2, <3>3, <3>6, <4>3
    <3>7. CASE key < search
      <4>1. Bounds(a, mid)
        <5>1. ASSUME NEW i \in (mid + 1)..n PROVE m[i].key < search
          <6>1. i \in 1..n /\ m[i].key <= key
            BY <1>1, <3>1, <3>5
          <6>2. m[i].key \in Int
            BY <1>1, <6>1
          <6> QED BY <3>3, <3>7, <6>1, <6>2
        <5> QED BY <5>1
      <4>2. mid - a < k
        BY <1>1, <3>1
      <4>3. IsAnswer(m, search, find[<<a, mid>>])
        <5> HIDE DEF Bounds
        <5> QED BY <4>1, <4>2, <3>1
      <4>4. find[<<a, b>>] = find[<<a, mid>>]
        BY <3>2, <3>3, <3>7
      <4> QED BY <4>3, <4>4
    <3>8. CASE key = search
      <4>1. find[<<a, b>>] = [found |-> TRUE, index |-> mid]
        BY <3>2, <3>3, <3>8
      <4>2. mid # n
        BY <1>1, <3>1
      <4> QED BY <3>1, <3>8, <4>1, <4>2 DEF IsAnswer, key, n
    <3> QED BY <3>3, <3>6, <3>7, <3>8
  <2> QED BY <1>1, <2>2, <2>3
<1>7. n + 1 \in S
  <2> HIDE DEF S
  <2>1. S \in SUBSET Nat
    BY DEF S
  <2>2. n + 1 \in Nat
    BY <1>1
  <2> QED BY <1>5, <1>6, <2>1, <2>2, SetInduction
<1>8. 0 \in 0..n /\ n \in 0..n /\ 0 <= n /\ n - 0 < n + 1 /\ Bounds(0, n)
  BY <1>1
<1>9. IsAnswer(m, search, find[<<0, n>>])
  <2> HIDE DEF Bounds
  <2> QED BY <1>7, <1>8
<1> QED BY <1>2, <1>9

(* The neighbours of any key: up to one index the keys are not below it, and
   from the next on they are not above it.                                 *)
LEMMA LowerNeighbour ==
    ASSUME NEW m \in Seq(MapPair), Descending(m), NEW key \in Int
    PROVE  \/ /\ KeyIndexOfOrNextLower(m, key) = {}
              /\ \A i \in 1..Len(m) : m[i].key < key
           \/ \E x \in Nat :
                /\ KeyIndexOfOrNextLower(m, key) = {x} /\ x + 1 \in 1..Len(m)
                /\ \A i \in 1..Len(m) : m[i].key >= key <=> i <= x + 1
<1> DEFINE n == Len(m)
           at == KeyIndexOf(m, key)
           x == IF at.found THEN at.index ELSE at.index - 1
<1>1. n \in Nat /\ DOMAIN m = 1..n /\ \A i \in 1..n : m[i].key \in Int
  <2>1. n \in Nat /\ DOMAIN m = 1..n /\ \A i \in 1..n : m[i] \in MapPair
    OBVIOUS
  <2> QED BY <2>1 DEF MapPair
<1>2. IsAnswer(m, key, at)
  BY SearchFinds
<1>3. KeyIndexOfOrNextLower(m, key) = {i \in {x} : i >= 0}
  BY DEF KeyIndexOfOrNextLower
<1> HIDE DEF at
<1>4. /\ at.found \in BOOLEAN /\ at.index \in 0..n
      /\ at.found => at.index # n /\ m[at.index + 1].key = key
      /\ ~at.found => /\ \A i \in 1..at.index : m[i].key > key
                      /\ \A i \in (at.index + 1)..n : m[i].key < key
  BY <1>2 DEF IsAnswer
<1>5. CASE at.found
  <2>1. x = at.index /\ x \in Nat /\ x + 1 \in 1..n /\ m[x + 1].key = key
    BY <1>1, <1>4, <1>5
  <2> HIDE DEF x
  <2>2. \A i \in 1..n : m[i].key >= key <=> i <= x + 1
    <3> SUFFICES ASSUME NEW i \in 1..n PROVE m[i].key >= key <=> i <= x + 1
      OBVIOUS
    <3>1. i < x + 1 \/ i = x + 1 \/ x + 1 < i
      BY <1>1, <2>1
    <3>2. i < x + 1 => m[i].key > key
      BY <1>1, <2>1 DEF Descending
    <3>3. x + 1 < i => key > m[i].key
      BY <1>1, <2>1 DEF Descending
    <3> QED BY <1>1, <2>1, <3>1, <3>2, <3>3
  <2>3. KeyIndexOfOrNextLower(m, key) = {x}
    BY <1>3, <2>1
  <2> QED BY <2>1, <2>2, <2>3
<1>6. CASE ~at.found /\ at.index = 0
  <2>1. ~(x >= 0)
    BY <1>6
  <2>2. \A i \in 1..n : m[i].key < key
    BY <1>1, <1>4, <1>6
  <2> QED BY <1>3, <2>1, <2>2
<1>7. CASE ~at.found /\ at.index # 0
  <2>1. x = at.index - 1 /\ x \in Nat /\ x + 1 = at.index /\ x + 1 \in 1..n
    BY <1>1, <1>4, <1>7
  <2> HIDE DEF x
  <2>2. \A i \in 1..n : m[i].key >= key <=> i <= x + 1
    <3> SUFFICES ASSUME NEW i \in 1..n PROVE m[i].key >= key <=> i <= x + 1
      OBVIOUS
    <3>1. i \in 1..(x + 1) \/ i \in (x + 2)..n
      BY <1>1, <2>1
    <3>2. i \in 1..(x + 1) => m[i].key > key
      BY <1>4, <1>7, <2>1
    <3>3. i \in (x + 2)..n => m[i].key < key
      BY <1>4, <1>7, <2>1
    <3> QED BY <1>1, <2>1, <3>1, <3>2, <3>3
  <2>3. KeyIndexOfOrNextLower(m, key) = {x}
    BY <1>3, <2>1
  <2> QED BY <2>1, <2>2, <2>3
<1> QED BY <1>4, <1>5, <1>6, <1>7

LEMMA HigherNeighbour ==
    ASSUME NEW m \in Seq(MapPair), Descending(m), NEW key \in Int
    PROVE  \/ /\ KeyIndexOfOrNextHigher(m, key) = {}
              /\ \A i \in 1..Len(m) : m[i].key > key
           \/ \E x \in Nat :
                /\ KeyIndexOfOrNextHigher(m, key) = {x} /\ x + 1 \in 1..Len(m)
                /\ \A i \in 1..Len(m) : m[i].key <= key <=> x + 1 <= i
<1> DEFINE n == Len(m)
           at == KeyIndexOf(m, key)
           x == at.index
<1>1. n \in Nat /\ DOMAIN m = 1..n /\ \A i \in 1..n : m[i].key \in Int
  <2>1. n \in Nat /\ DOMAIN m = 1..n /\ \A i \in 1..n : m[i] \in MapPair
    OBVIOUS
  <2> QED BY <2>1 DEF MapPair
<1>2. IsAnswer(m, key, at)
  BY SearchFinds
<1>3. KeyIndexOfOrNextHigher(m, key) = {i \in {x} : i < n}
  BY DEF KeyIndexOfOrNextHigher
<1> HIDE DEF at
<1>4. /\ at.found \in BOOLEAN /\ x \in 0..n
      /\ at.found => x # n /\ m[x + 1].key = key
      /\ ~at.found => /\ \A i \in 1..x : m[i].key > key
                      /\ \A i \in (x + 1)..n : m[i].key < key
  BY <1>2 DEF IsAnswer
<1> HIDE DEF x
<1>5. CASE at.found
  <2>1. x \in Nat /\ x + 1 \in 1..n /\ m[x + 1].key = key
    <3>1. n \in Nat /\ x \in 0..n /\ x # n /\ m[x + 1].key = key
      BY <1>1, <1>4, <1>5
    <3> HIDE DEF n
    <3> QED BY <3>1
  <2>2. \A i \in 1..n : m[i].key <= key <=> x + 1 <= i
    <3> SUFFICES ASSUME NEW i \in 1..n PROVE m[i].key <= key <=> x + 1 <= i
      OBVIOUS
    <3>1. i < x + 1 \/ i = x + 1 \/ x + 1 < i
      BY <1>1, <2>1
    <3>2. i < x + 1 => m[i].key > key
      BY <1>1, <2>1 DEF Descending
    <3>3. x + 1 < i => key > m[i].key
      BY <1>1, <2>1 DEF Descending
    <3> QED BY <1>1, <2>1, <3>1, <3>2, <3>3
  <2>3. KeyIndexOfOrNextHigher(m, key) = {x}
    BY <1>1, <1>3, <2>1
  <2> QED BY <2>1, <2>2, <2>3
<1>6. CASE ~at.found /\ x = n
  <2>1. \A i \in 1..n : m[i].key > key
    BY <1>4, <1>6
  <2> QED BY <1>1, <1>3, <1>6, <2>1
<1>7. CASE ~at.found /\ x # n
  <2>1. x \in Nat /\ x + 1 \in 1..n
    <3>1. n \in Nat /\ x \in 0..n /\ x # n
      BY <1>1, <1>4, <1>7
    <3> HIDE DEF n
    <3> QED BY <3>1
  <2>2. \A i \in 1..n : m[i].key <= key <=> x + 1 <= i
    <3> SUFFICES ASSUME NEW i \in 1..n PROVE m[i].key <= key <=> x + 1 <= i
      OBVIOUS
    <3>1. i \in 1..x \/ i \in (x + 1)..n
      BY <1>1, <2>1
    <3>2. i \in 1..x => m[i].key > key
      BY <1>4, <1>7
    <3>3. i \in (x + 1)..n => m[i].key < key
      BY <1>4, <1>7
    <3> QED BY <1>1, <2>1, <3>1, <3>2, <3>3
  <2>3. KeyIndexOfOrNextHigher(m, key) = {x}
    BY <1>1, <1>3, <2>1
  <2> QED BY <2>1, <2>2, <2>3
<1> QED BY <1>4, <1>5, <1>6, <1>7

(* So a lookup returns the nearest pair on its side. *)
PairsOf(m) == {m[i] : i \in DOMAIN m}

LEMMA LowerIsNearest ==
    ASSUME NEW m \in Seq(MapPair), Descending(m), NEW key \in Int
    PROVE  LET upTo == {p \in PairsOf(m) : p.key >= key}
           IN  PairOrNextLower(m, key) = {p \in upTo : \A q \in upTo : p.key <= q.key}
<1> DEFINE n == Len(m)
           upTo == {p \in PairsOf(m) : p.key >= key}
           nearest == {p \in upTo : \A q \in upTo : p.key <= q.key}
<1>1. n \in Nat /\ DOMAIN m = 1..n /\ \A i \in 1..n : m[i].key \in Int
  <2>1. n \in Nat /\ DOMAIN m = 1..n /\ \A i \in 1..n : m[i] \in MapPair
    OBVIOUS
  <2> QED BY <2>1 DEF MapPair
<1>2. CASE KeyIndexOfOrNextLower(m, key) = {} /\ \A i \in 1..n : m[i].key < key
  <2>1. upTo = {}
    BY <1>1, <1>2 DEF PairsOf
  <2> QED BY <1>2, <2>1 DEF PairOrNextLower
<1>3. ASSUME NEW x \in Nat, KeyIndexOfOrNextLower(m, key) = {x}, x + 1 \in 1..n,
             \A i \in 1..n : m[i].key >= key <=> i <= x + 1
      PROVE  PairOrNextLower(m, key) = nearest
  <2>1. PairOrNextLower(m, key) = {m[x + 1]}
    BY <1>3 DEF PairOrNextLower
  <2>2. m[x + 1] \in upTo
    BY <1>1, <1>3 DEF PairsOf
  <2>3. ASSUME NEW q \in upTo, q # m[x + 1] PROVE m[x + 1].key < q.key /\ q.key \in Int
    <3>1. PICK i \in 1..n : q = m[i] /\ m[i].key >= key
      BY <1>1 DEF PairsOf
    <3>2. i < x + 1
      BY <1>1, <1>3, <2>3, <3>1
    <3> QED BY <1>1, <1>3, <3>1, <3>2 DEF Descending
  <2>4. m[x + 1].key \in Int
    BY <1>1, <1>3
  <2> HIDE DEF upTo
  <2>5. \A q \in upTo : m[x + 1].key <= q.key
    BY <2>3, <2>4
  <2>6. \A q \in nearest : q = m[x + 1]
    BY <2>2, <2>3, <2>4
  <2> QED BY <2>1, <2>2, <2>5, <2>6
<1> QED BY <1>2, <1>3, LowerNeighbour

LEMMA HigherIsNearest ==
    ASSUME NEW m \in Seq(MapPair), Descending(m), NEW key \in Int
    PROVE  LET from == {p \in PairsOf(m) : p.key <= key}
           IN  PairOrNextHigher(m, key) = {p \in from : \A q \in from : q.key <= p.key}
<1> DEFINE n == Len(m)
           from == {p \in PairsOf(m) : p.key <= key}
           nearest == {p \in from : \A q \in from : q.key <= p.key}
<1>1. n \in Nat /\ DOMAIN m = 1..n /\ \A i \in 1..n : m[i].key \in Int
  <2>1. n \in Nat /\ DOMAIN m = 1..n /\ \A i \in 1..n : m[i] \in MapPair
    OBVIOUS
  <2> QED BY <2>1 DEF MapPair
<1>2. CASE KeyIndexOfOrNextHigher(m, key) = {} /\ \A i \in 1..n : m[i].key > key
  <2>1. from = {}
    BY <1>1, <1>2 DEF PairsOf
  <2> QED BY <1>2, <2>1 DEF PairOrNextHigher
<1>3. ASSUME NEW x \in Nat, KeyIndexOfOrNextHigher(m, key) = {x}, x + 1 \in 1..n,
             \A i \in 1..n : m[i].key <= key <=> x + 1 <= i
      PROVE  PairOrNextHigher(m, key) = nearest
  <2>1. PairOrNextHigher(m, key) = {m[x + 1]}
    BY <1>3 DEF PairOrNextHigher
  <2>2. m[x + 1] \in from
    BY <1>1, <1>3 DEF PairsOf
  <2>3. ASSUME NEW q \in from, q # m[x + 1] PROVE q.key < m[x + 1].key /\ q.key \in Int
    <3>1. PICK i \in 1..n : q = m[i] /\ m[i].key <= key
      BY <1>1 DEF PairsOf
    <3>2. x + 1 < i
      BY <1>1, <1>3, <2>3, <3>1
    <3> QED BY <1>1, <1>3, <3>1, <3>2 DEF Descending
  <2>4. m[x + 1].key \in Int
    BY <1>1, <1>3
  <2> HIDE DEF from
  <2>5. \A q \in from : q.key <= m[x + 1].key
    BY <2>3, <2>4
  <2>6. \A q \in nearest : q = m[x + 1]
    BY <2>2, <2>3, <2>4
  <2> QED BY <2>1, <2>2, <2>5, <2>6
<1> QED BY <1>2, <1>3, HigherNeighbour

(* A range query yields the pairs between two keys, in the order of the map. *)
LEMMA RangeIsExact ==
    ASSUME NEW m \in Seq(MapPair), Descending(m), NEW from \in Int, NEW to \in Int
    PROVE  LET within == {p \in PairsOf(m) : p.key <= from /\ p.key >= to}
           IN  /\ GetRange(m, from, to) = {} => within = {}
               /\ \A yielded \in GetRange(m, from, to) :
                     /\ {yielded[i] : i \in DOMAIN yielded} = within
                     /\ \A i, j \in DOMAIN yielded :
                           i < j => yielded[i].key > yielded[j].key
<1> DEFINE n == Len(m)
           within == {p \in PairsOf(m) : p.key <= from /\ p.key >= to}
<1>1. n \in Nat /\ DOMAIN m = 1..n /\ \A i \in 1..n : m[i] \in MapPair /\ m[i].key \in Int
  <2>1. n \in Nat /\ DOMAIN m = 1..n /\ \A i \in 1..n : m[i] \in MapPair
    OBVIOUS
  <2> QED BY <2>1 DEF MapPair
<1>2. CASE KeyIndexOfOrNextHigher(m, from) = {} /\ \A i \in 1..n : m[i].key > from
  <2>1. within = {}
    BY <1>1, <1>2 DEF PairsOf
  <2>2. GetRange(m, from, to) = {}
    BY <1>2 DEF GetRange
  <2> QED BY <2>1, <2>2
<1>3. CASE KeyIndexOfOrNextLower(m, to) = {} /\ \A i \in 1..n : m[i].key < to
  <2>1. within = {}
    BY <1>1, <1>3 DEF PairsOf
  <2>2. GetRange(m, from, to) = {}
    BY <1>3 DEF GetRange
  <2> QED BY <2>1, <2>2
<1>4. ASSUME NEW x \in Nat, KeyIndexOfOrNextHigher(m, from) = {x}, x + 1 \in 1..n,
             \A i \in 1..n : m[i].key <= from <=> x + 1 <= i,
             NEW y \in Nat, KeyIndexOfOrNextLower(m, to) = {y}, y + 1 \in 1..n,
             \A i \in 1..n : m[i].key >= to <=> i <= y + 1
      PROVE  /\ GetRange(m, from, to) # {}
             /\ \A yielded \in GetRange(m, from, to) :
                   /\ {yielded[i] : i \in DOMAIN yielded} = within
                   /\ \A i, j \in DOMAIN yielded :
                         i < j => yielded[i].key > yielded[j].key
  <2> DEFINE part == SubSeq(m, x + 1, y + 1)
             size == (y + 1) - (x + 1) + 1
  <2>1. GetRange(m, from, to) = {part}
    BY <1>4 DEF GetRange
  <2>2. /\ DOMAIN part = 1..size
        /\ \A i \in 1..size : part[i] = m[x + i] /\ x + i \in 1..n
    <3>1. /\ x + 1 \in Int /\ y + 1 \in Int
          /\ \A i \in (x + 1)..(y + 1) : m[i] \in MapPair
      BY <1>1, <1>4
    <3>2. /\ part \in Seq(MapPair)
          /\ Len(part) = IF x + 1 <= y + 1 THEN size ELSE 0
          /\ \A i \in 1..size : part[i] = m[(x + 1) + i - 1]
      BY <3>1, SubSeqProperties
    <3> HIDE DEF part
    <3>3. DOMAIN part = 1..size
      <4>1. DOMAIN part = 1..Len(part)
        BY <3>2
      <4>2. CASE x + 1 <= y + 1
        BY <3>2, <4>1, <4>2
      <4>3. CASE ~(x + 1 <= y + 1)
        <5>1. 1..size = {} /\ 1..0 = {}
          BY <4>3
        <5> QED BY <3>2, <4>1, <4>3, <5>1
      <4> QED BY <4>2, <4>3
    <3>4. \A i \in 1..size : (x + 1) + i - 1 = x + i /\ x + i \in 1..n
      BY <1>1, <1>4
    <3> QED BY <3>2, <3>3, <3>4
  <2> HIDE DEF part
  <2>3. ASSUME NEW i \in 1..size PROVE part[i] \in within
    <3>1. x + i \in 1..n /\ x + 1 <= x + i /\ x + i <= y + 1
      BY <1>1, <1>4, <2>2
    <3>2. m[x + i].key <= from /\ m[x + i].key >= to
      BY <1>4, <3>1
    <3> QED BY <1>1, <2>2, <3>1, <3>2 DEF PairsOf
  <2>4. ASSUME NEW p \in within PROVE \E i \in 1..size : part[i] = p
    <3>1. PICK k \in 1..n : p = m[k] /\ m[k].key <= from /\ m[k].key >= to
      BY <1>1 DEF PairsOf
    <3>2. x + 1 <= k /\ k <= y + 1
      BY <1>4, <3>1
    <3>3. k - x \in 1..size /\ x + (k - x) = k
      BY <1>1, <3>2
    <3> QED BY <2>2, <3>1, <3>3
  <2> HIDE DEF within
  <2>5. {part[i] : i \in DOMAIN part} = within
    BY <2>2, <2>3, <2>4
  <2>6. ASSUME NEW i \in DOMAIN part, NEW j \in DOMAIN part, i < j
        PROVE  part[i].key > part[j].key
    <3>1. /\ i \in 1..size /\ j \in 1..size /\ x + i < x + j
          /\ x + i \in DOMAIN m /\ x + j \in DOMAIN m
          /\ part[i] = m[x + i] /\ part[j] = m[x + j]
      BY <1>1, <2>2, <2>6
    <3> QED BY <3>1 DEF Descending
  <2> QED BY <2>1, <2>5, <2>6
<1>5. \/ KeyIndexOfOrNextHigher(m, from) = {} /\ \A i \in 1..n : m[i].key > from
      \/ \E x \in Nat :
           /\ KeyIndexOfOrNextHigher(m, from) = {x} /\ x + 1 \in 1..n
           /\ \A i \in 1..n : m[i].key <= from <=> x + 1 <= i
  BY HigherNeighbour
<1>6. \/ KeyIndexOfOrNextLower(m, to) = {} /\ \A i \in 1..n : m[i].key < to
      \/ \E y \in Nat :
           /\ KeyIndexOfOrNextLower(m, to) = {y} /\ y + 1 \in 1..n
           /\ \A i \in 1..n : m[i].key >= to <=> i <= y + 1
  BY LowerNeighbour
<1> HIDE DEF n, within
<1> QED BY <1>2, <1>3, <1>4, <1>5, <1>6 DEF within, n

-----------------------------------------------------------------------------
(* Both normalizers. *)

(* The map that has the ranges of a list. *)
MapOf(ranges) == [i \in DOMAIN ranges |-> Pair(ranges[i].base, ranges[i].count)]

BothInv == IInv /\ sortedMap = MapOf(leadingLocals)

LEMMA MapOfTypes ==
    ASSUME NEW ranges \in Seq(LocalRange)
    PROVE  /\ MapOf(ranges) \in Seq(MapPair)
           /\ Len(MapOf(ranges)) = Len(ranges) /\ DOMAIN MapOf(ranges) = 1..Len(ranges)
           /\ \A i \in 1..Len(ranges) :
                /\ MapOf(ranges)[i] = Pair(ranges[i].base, ranges[i].count)
                /\ MapOf(ranges)[i].key = ranges[i].base
                /\ MapOf(ranges)[i].value = ranges[i].count
<1> DEFINE n == Len(ranges)
<1>1. n \in Nat /\ DOMAIN ranges = 1..n /\ \A i \in 1..n : ranges[i] \in LocalRange
  OBVIOUS
<1>2. ASSUME NEW i \in 1..n
      PROVE  /\ Pair(ranges[i].base, ranges[i].count) \in MapPair
             /\ Pair(ranges[i].base, ranges[i].count).key = ranges[i].base
             /\ Pair(ranges[i].base, ranges[i].count).value = ranges[i].count
  BY <1>1, RangeTypes DEF Pair, MapPair
<1> HIDE DEF n
<1>3. MapOf(ranges) = [i \in 1..n |-> Pair(ranges[i].base, ranges[i].count)]
  BY <1>1 DEF MapOf
<1>4. MapOf(ranges) \in [1..n -> MapPair]
  BY <1>2, <1>3
<1>5. MapOf(ranges) \in Seq(MapPair) /\ Len(MapOf(ranges)) = n /\ DOMAIN MapOf(ranges) = 1..n
  BY <1>1, <1>4
<1> QED BY <1>2, <1>3, <1>5 DEF n

(* A map that has the ranges of a list still has them when an ID is added. *)
LEMMA AddingKeepsMap ==
    ASSUME NEW ranges \in Seq(LocalRange), NEW base \in Int
    PROVE  AddLocals(MapOf(ranges), base, 1) = MapOf(AddLocalRange(ranges, base, 1))
<1> DEFINE n == Len(ranges)
           m == MapOf(ranges)
<1>1. n \in Nat /\ DOMAIN ranges = 1..n /\ \A i \in 1..n : ranges[i] \in LocalRange
  OBVIOUS
<1>2. /\ m \in Seq(MapPair) /\ Len(m) = n /\ DOMAIN m = 1..n
      /\ \A i \in 1..n : /\ m[i] = Pair(ranges[i].base, ranges[i].count)
                         /\ m[i].key = ranges[i].base /\ m[i].value = ranges[i].count
  BY MapOfTypes
<1> HIDE DEF m
<1>3. /\ m # <<>> <=> ranges # <<>>
      /\ ranges # <<>> => n \in 1..n
  BY <1>1, <1>2
<1>4. CASE ranges # <<>> /\ ranges[n].base - ranges[n].count = base
  <2> DEFINE longer == Pair(ranges[n].base, ranges[n].count + 1)
             new == AddLocalRange(ranges, base, 1)
  <2>1. n \in 1..n /\ m # <<>> /\ m[Len(m)].key - m[Len(m)].value = base
        /\ m[Len(m)].key = ranges[n].base /\ m[Len(m)].value = ranges[n].count
    BY <1>2, <1>3, <1>4
  <2>2. AddLocals(m, base, 1) = Append(SubSeq(m, 1, n - 1), longer)
    BY <1>2, <2>1 DEF AddLocals, ReplaceLast, Seqs!Front
  <2>3. /\ DOMAIN new = 1..n
        /\ \A i \in 1..n : Pair(new[i].base, new[i].count) = IF i = n THEN longer ELSE m[i]
    <3>1. new = [ranges EXCEPT ![n] = [ranges[n] EXCEPT !.count = ranges[n].count + 1]]
      BY <1>4 DEF AddLocalRange
    <3>2. ranges[n] \in LocalRange /\ [ranges[n] EXCEPT !.count = ranges[n].count + 1].base = ranges[n].base
          /\ [ranges[n] EXCEPT !.count = ranges[n].count + 1].count = ranges[n].count + 1
      BY <1>1, <2>1 DEF LocalRange
    <3> HIDE DEF n
    <3>3. DOMAIN new = 1..n
          /\ \A i \in 1..n : new[i] = IF i = n THEN [ranges[n] EXCEPT !.count = ranges[n].count + 1]
                                      ELSE ranges[i]
      BY <1>1, <3>1
    <3> HIDE DEF new
    <3> QED BY <1>2, <3>2, <3>3
  <2>4. MapOf(new) = [i \in 1..n |-> IF i = n THEN longer ELSE m[i]]
    <3> HIDE DEF longer, new, n
    <3> QED BY <2>3 DEF MapOf
  <2>5. longer \in MapPair
    <3>1. ranges[n] \in LocalRange
      BY <1>1, <2>1
    <3> QED BY <3>1, RangeTypes DEF MapPair, Pair
  <2> HIDE DEF longer, new
  <2>6. /\ SubSeq(m, 1, n - 1) \in Seq(MapPair) /\ Len(SubSeq(m, 1, n - 1)) = n - 1
        /\ \A i \in 1..(n - 1) : SubSeq(m, 1, n - 1)[i] = m[i]
    <3>1. \A i \in 1..(n - 1) : m[i] \in MapPair
      BY <1>1, <1>2
    <3> HIDE DEF n
    <3>2. 1 \in Int /\ n - 1 \in Int /\ n \in Nat /\ n >= 1
      BY <1>1, <2>1
    <3>3. /\ SubSeq(m, 1, n - 1) \in Seq(MapPair)
          /\ Len(SubSeq(m, 1, n - 1)) = IF 1 <= n - 1 THEN (n - 1) - 1 + 1 ELSE 0
          /\ \A i \in 1..((n - 1) - 1 + 1) : SubSeq(m, 1, n - 1)[i] = m[1 + i - 1]
      BY <3>1, <3>2, SubSeqProperties
    <3> QED BY <3>2, <3>3
  <2> DEFINE front == SubSeq(m, 1, n - 1)
  <2> HIDE DEF front
  <2>7. /\ DOMAIN Append(front, longer) = 1..n
        /\ \A i \in 1..n : Append(front, longer)[i] = IF i = n THEN longer ELSE m[i]
    <3>1. front \in Seq(MapPair) /\ Len(front) = n - 1 /\ \A i \in 1..(n - 1) : front[i] = m[i]
      BY <2>6 DEF front
    <3> HIDE DEF n
    <3> QED BY <1>1, <2>1, <2>5, <3>1
  <2>8. Append(front, longer) = [i \in 1..n |-> IF i = n THEN longer ELSE m[i]]
    <3>1. Append(front, longer) \in Seq(MapPair)
      BY <2>5, <2>6 DEF front
    <3> DEFINE whole == Append(front, longer)
    <3> HIDE DEF n, whole
    <3>2. whole \in Seq(MapPair)
      BY <3>1 DEF whole
    <3>4. whole = [i \in DOMAIN whole |-> whole[i]]
      BY <3>2
    <3>3. DOMAIN whole = 1..n /\ \A i \in 1..n : whole[i] = IF i = n THEN longer ELSE m[i]
      BY <2>7 DEF whole
    <3> QED BY <3>3, <3>4 DEF whole
  <2> QED BY <2>2, <2>4, <2>8 DEF front, new, m
<1>5. CASE ~(ranges # <<>> /\ ranges[n].base - ranges[n].count = base)
  <2> DEFINE fresh == [base |-> base, count |-> 1]
             new == Append(ranges, fresh)
             last == Pair(base, 1)
  <2>1. AddLocalRange(ranges, base, 1) = new
    BY <1>5 DEF AddLocalRange
  <2>2. AddLocals(m, base, 1) = Append(m, last)
    <3>1. ~(m # <<>> /\ m[Len(m)].key - m[Len(m)].value = base)
      BY <1>2, <1>3, <1>5
    <3> QED BY <3>1 DEF AddLocals, AppendPair
  <2>3. fresh \in LocalRange /\ last \in MapPair /\ Pair(fresh.base, fresh.count) = last
    BY DEF LocalRange, MapPair, Pair
  <2> HIDE DEF fresh, last, n
  <2>4. /\ DOMAIN new = 1..(n + 1)
        /\ \A i \in 1..(n + 1) : new[i] = IF i = n + 1 THEN fresh ELSE ranges[i]
    BY <1>1, <2>3 DEF n
  <2> HIDE DEF new
  <2>5. MapOf(new) = [i \in 1..(n + 1) |-> IF i = n + 1 THEN last ELSE m[i]]
    <3>1. ASSUME NEW i \in 1..(n + 1)
          PROVE  Pair(new[i].base, new[i].count) = IF i = n + 1 THEN last ELSE m[i]
      <4>1. CASE i = n + 1
        BY <2>3, <2>4, <4>1
      <4>2. CASE i # n + 1
        BY <1>1, <1>2, <2>4, <4>2
      <4> QED BY <4>1, <4>2
    <3> QED BY <2>4, <3>1 DEF MapOf
  <2>6. Append(m, last) = [i \in 1..(n + 1) |-> IF i = n + 1 THEN last ELSE m[i]]
    <3>1. /\ Append(m, last) \in Seq(MapPair) /\ DOMAIN Append(m, last) = 1..(n + 1)
          /\ \A i \in 1..(n + 1) : Append(m, last)[i] = IF i = n + 1 THEN last ELSE m[i]
      BY <1>1, <1>2, <2>3
    <3> DEFINE whole == Append(m, last)
    <3> HIDE DEF whole
    <3>2. whole \in Seq(MapPair)
      BY <3>1 DEF whole
    <3>4. whole = [i \in DOMAIN whole |-> whole[i]]
      BY <3>2
    <3>3. /\ DOMAIN whole = 1..(n + 1)
          /\ \A i \in 1..(n + 1) : whole[i] = IF i = n + 1 THEN last ELSE m[i]
      BY <3>1 DEF whole
    <3> QED BY <3>3, <3>4 DEF whole
  <2> QED BY <2>1, <2>2, <2>5, <2>6 DEF m
<1> QED BY <1>4, <1>5

(* The ranges of the list descend, and with them the keys of the map. *)
LEMMA KeysDescend ==
    ASSUME IInv
    PROVE  /\ MapOf(leadingLocals) \in Seq(MapPair)
           /\ Descending(MapOf(leadingLocals))
<1>1. leadingLocals \in Seq(LocalRange)
  BY DEF IInv, TypeOK, LocalRange
<1> DEFINE n == Len(leadingLocals)
<1>2. /\ n \in Nat /\ DOMAIN leadingLocals = 1..n
      /\ MapOf(leadingLocals) \in Seq(MapPair) /\ DOMAIN MapOf(leadingLocals) = 1..n
      /\ \A i \in 1..n : MapOf(leadingLocals)[i].key = leadingLocals[i].base
  BY <1>1, MapOfTypes
<1>3. ASSUME NEW i \in 1..n, NEW j \in 1..n, i < j
      PROVE  leadingLocals[i].base > leadingLocals[j].base
  <2>1. leadingLocals[i] \in LocalRange /\ leadingLocals[j] \in LocalRange
    BY <1>1
  <2>2. leadingLocals[j].base < Last(leadingLocals[i]) - 1 /\ leadingLocals[i].count > 0
    BY <1>2, <1>3 DEF IInv, Separated, WithinGenerated, Within
  <2>3. /\ leadingLocals[i].base \in Int /\ leadingLocals[i].count \in Nat
        /\ Last(leadingLocals[i]) = leadingLocals[i].base - leadingLocals[i].count + 1
        /\ leadingLocals[j].base \in Int
    BY ONLY <2>1, RangeTypes
  <2> QED BY ONLY <2>2, <2>3
<1> QED BY <1>2, <1>3 DEF Descending

(* The nearest key is that of the only range that can hold a query. *)
LEMMA MapContains ==
    ASSUME IInv, NEW query \in Int
    PROVE  ContainsLocal(MapOf(leadingLocals), query) <=> Contains(leadingLocals, query)
<1> DEFINE n == Len(leadingLocals)
           m == MapOf(leadingLocals)
<1>1. leadingLocals \in Seq(LocalRange)
  BY DEF IInv, TypeOK, LocalRange
<1>2. /\ n \in Nat /\ DOMAIN leadingLocals = 1..n
      /\ Len(m) = n
      /\ \A i \in 1..n : /\ leadingLocals[i] \in LocalRange
                         /\ m[i].key = leadingLocals[i].base
                         /\ m[i].value = leadingLocals[i].count
  BY <1>1, MapOfTypes
<1>3. m \in Seq(MapPair) /\ Descending(m)
  BY KeysDescend
<1>4. Contains(leadingLocals, query) <=>
         \E i \in 1..n : Last(leadingLocals[i]) <= query /\ query <= leadingLocals[i].base
  BY <1>1, <1>2, ContainsMeans
<1>5. \A i, j \in 1..n : i < j => leadingLocals[j].base < Last(leadingLocals[i]) - 1
  BY <1>2 DEF IInv, Separated
<1> HIDE DEF m, n
<1>6. \/ /\ KeyIndexOfOrNextLower(m, query) = {}
         /\ \A i \in 1..n : m[i].key < query
      \/ \E x \in Nat :
           /\ KeyIndexOfOrNextLower(m, query) = {x} /\ x + 1 \in 1..n
           /\ \A i \in 1..n : m[i].key >= query <=> i <= x + 1
  BY <1>2, <1>3, LowerNeighbour
<1>7. CASE KeyIndexOfOrNextLower(m, query) = {} /\ \A i \in 1..n : m[i].key < query
  <2>1. ~ContainsLocal(m, query)
    BY <1>7 DEF ContainsLocal, PairOrNextLower
  <2>2. \A i \in 1..n : ~(query <= leadingLocals[i].base)
    BY <1>2, <1>7, RangeTypes
  <2> QED BY <1>4, <2>1, <2>2 DEF m
<1>8. ASSUME NEW x \in Nat, KeyIndexOfOrNextLower(m, query) = {x}, x + 1 \in 1..n,
             \A i \in 1..n : m[i].key >= query <=> i <= x + 1
      PROVE  ContainsLocal(m, query) <=> Contains(leadingLocals, query)
  <2>1. /\ leadingLocals[x + 1] \in LocalRange
        /\ m[x + 1].key = leadingLocals[x + 1].base /\ m[x + 1].value = leadingLocals[x + 1].count
        /\ query <= leadingLocals[x + 1].base
    BY <1>2, <1>8, RangeTypes
  <2>2. ContainsLocal(m, query) <=> Last(leadingLocals[x + 1]) <= query
    <3>1. PairOrNextLower(m, query) = {m[x + 1]}
      BY <1>8 DEF PairOrNextLower
    <3>2. ContainsLocal(m, query) <=> query >= m[x + 1].key - (m[x + 1].value - 1)
      BY <3>1 DEF ContainsLocal
    <3> QED BY <2>1, <3>2, RangeTypes
  <2>3. ASSUME NEW i \in 1..n,
               Last(leadingLocals[i]) <= query, query <= leadingLocals[i].base
        PROVE  i = x + 1
    <3>1. leadingLocals[i] \in LocalRange /\ m[i].key = leadingLocals[i].base
      BY <1>2
    <3>2. i <= x + 1
      BY <1>8, <2>3, <3>1, RangeTypes
    <3>3. CASE i < x + 1
      <4>1. leadingLocals[x + 1].base < Last(leadingLocals[i]) - 1
        BY <1>5, <1>8, <3>3
      <4> QED BY <2>1, <2>3, <3>1, <4>1, RangeTypes
    <3> QED BY <1>2, <1>8, <3>2, <3>3
  <2> QED BY <1>4, <1>8, <2>1, <2>2, <2>3
<1> QED BY <1>6, <1>7, <1>8 DEF m

(* The map has the ranges of the list at every step. *)
LEMMA BothInvHolds == BothSpec => []BothInv
<1>1. BothInit => BothInv
  <2>1. SUFFICES ASSUME BothInit PROVE BothInv
    OBVIOUS
  <2>2. IInv
    BY <2>1, InitEstablishes DEF BothInit
  <2>3. sortedMap = <<>> /\ leadingLocals = <<>> /\ leadingLocals \in Seq(LocalRange)
    BY <2>1 DEF BothInit, Init
  <2>4. MapOf(leadingLocals) \in Seq(MapPair) /\ Len(MapOf(leadingLocals)) = 0
    BY <2>3, MapOfTypes
  <2> QED BY <2>2, <2>3, <2>4 DEF BothInv
<1>2. BothInv /\ [BothNext]_<<vars, sortedMap>> => BothInv'
  <2>1. SUFFICES ASSUME BothInv, [BothNext]_<<vars, sortedMap>> PROVE BothInv'
    OBVIOUS
  <2>2. leadingLocals \in Seq(LocalRange) /\ generated \in Nat
    BY <2>1 DEF BothInv, IInv, TypeOK, LocalRange
  <2>3. CASE BothGenerateLocal
    <3>1. IInv'
      BY <2>1, <2>3, GenerateLocalKeeps DEF BothInv, BothGenerateLocal
    <3>2. sortedMap' = AddLocals(MapOf(leadingLocals), -(generated + 1), 1)
          /\ leadingLocals' = AddLocalRange(leadingLocals, -(generated + 1), 1)
      BY <2>1, <2>3 DEF BothInv, BothGenerateLocal, GenerateLocal
    <3>3. -(generated + 1) \in Int
      BY <2>2
    <3>4. sortedMap' = MapOf(leadingLocals')
      BY <2>2, <3>2, <3>3, AddingKeepsMap
    <3> QED BY <3>1, <3>4 DEF BothInv
  <2>4. CASE BothGenerateEagerFinal
    <3>1. IInv'
      BY <2>1, <2>4, GenerateEagerFinalKeeps DEF BothInv, BothGenerateEagerFinal
    <3>2. sortedMap' = sortedMap /\ leadingLocals' = leadingLocals
      BY <2>4 DEF BothGenerateEagerFinal, GenerateEagerFinal
    <3> QED BY <2>1, <3>1, <3>2 DEF BothInv
  <2>5. CASE UNCHANGED <<vars, sortedMap>>
    BY <2>1, <2>5 DEF BothInv, vars, IInv, TypeOK, WithinGenerated, Separated, GivenIsContained
  <2> QED BY <2>1, <2>3, <2>4, <2>5 DEF BothNext
<1> QED BY <1>1, <1>2, PTL DEF BothSpec

LEMMA QueriesAreIntegers == Queries \subseteq Int
BY MaxGeneratedAssumption DEF Queries

(* The rewrite's map has the ranges of the Rust list, and its search by key
   finds the local IDs that the search by range finds, whatever pattern of
   IDs is generated (sessionSpaceNormalizer.ts:17-38).                     *)
THEOREM MapImplementsListHolds == BothSpec => []MapImplementsList
<1>1. BothInv => MapImplementsList
  <2> SUFFICES ASSUME BothInv PROVE MapImplementsList
    OBVIOUS
  <2>1. sortedMap = MapOf(leadingLocals) /\ IInv
    BY DEF BothInv
  <2>2. \A query \in Queries :
           ContainsLocal(sortedMap, query) <=> Contains(leadingLocals, query)
    BY <2>1, QueriesAreIntegers, MapContains
  <2> QED BY <2>1, <2>2 DEF MapImplementsList, MapOf
<1> QED BY <1>1, BothInvHolds, PTL

(* The binary search returns the nearest pair on either side of any key, in
   maps of any size (appendOnlySortedMap.ts:276-361).                      *)
THEOREM NeighboursAreNearestHolds == BothSpec => []NeighboursAreNearest
<1>1. BothInv => NeighboursAreNearest
  <2> SUFFICES ASSUME BothInv, NEW key \in Queries
               PROVE  LET upTo == {p \in Pairs : p.key >= key}
                          from == {p \in Pairs : p.key <= key}
                      IN  /\ PairOrNextLower(sortedMap, key) =
                                {p \in upTo : \A q \in upTo : p.key <= q.key}
                          /\ PairOrNextHigher(sortedMap, key) =
                                {p \in from : \A q \in from : q.key <= p.key}
    BY DEF NeighboursAreNearest
  <2>1. sortedMap \in Seq(MapPair) /\ Descending(sortedMap) /\ key \in Int
    BY QueriesAreIntegers, KeysDescend DEF BothInv
  <2>2. Pairs = PairsOf(sortedMap)
    BY DEF Pairs, PairsOf
  <2> QED BY <2>1, <2>2, LowerIsNearest, HigherIsNearest
<1> QED BY <1>1, BothInvHolds, PTL

(* A range query yields the pairs between two keys and no other, in order, in
   maps of any size (appendOnlySortedMap.ts:248-262).                      *)
THEOREM RangesAreExactHolds == BothSpec => []RangesAreExact
<1>1. BothInv => RangesAreExact
  <2> SUFFICES ASSUME BothInv, NEW from \in Queries, NEW to \in Queries
               PROVE  LET within == {p \in Pairs : p.key <= from /\ p.key >= to}
                          found == GetRange(sortedMap, from, to)
                      IN  /\ found = {} => within = {}
                          /\ \A yielded \in found :
                                /\ {yielded[i] : i \in DOMAIN yielded} = within
                                /\ \A i, j \in DOMAIN yielded :
                                      i < j => yielded[i].key > yielded[j].key
    BY DEF RangesAreExact
  <2>1. sortedMap \in Seq(MapPair) /\ Descending(sortedMap) /\ from \in Int /\ to \in Int
    BY QueriesAreIntegers, KeysDescend DEF BothInv
  <2>2. Pairs = PairsOf(sortedMap)
    BY DEF Pairs, PairsOf
  <2> QED BY <2>1, <2>2, RangeIsExact
<1> QED BY <1>1, BothInvHolds, PTL
=============================================================================
