------------------------ MODULE AppendOnlySortedMap ------------------------
(***************************************************************************)
(* The sorted map of the TypeScript rewrite (appendOnlySortedMap.ts) and   *)
(* the normalizer it is used for (sessionSpaceNormalizer.ts): the first    *)
(* local ID of each run of local IDs is a key, the length of the run its   *)
(* value.  A map is the sequence of its pairs; a lookup returns a set of   *)
(* at most one pair.  Keys are compared in descending order; that a key is *)
(* only added below all others, which the code asserts, is left out here   *)
(* and follows from RangesAreExact.                                        *)
(***************************************************************************)
EXTENDS Integers, Sequences

Seqs == INSTANCE SequencesExt

Pair(key, value) == [key |-> key, value |-> value]

Order(a, b) == b - a

AppendPair(m, key, value) == Append(m, Pair(key, value))

ReplaceLast(m, key, value) == Append(Seqs!Front(m), Pair(key, value))

\* Mutant of KeyIndexOf: the search goes on above a key that is greater.
KeyIndexOfReversed(m, search) ==
    LET Find[part \in (0..Len(m)) \X (0..Len(m))] ==
            LET low == part[1]
                high == part[2]
                mid == (low + high) \div 2
                c == Order(search, m[mid + 1].key)
            IN  IF low >= high THEN [found |-> FALSE, index |-> mid]
                ELSE IF c < 0 THEN Find[<<mid + 1, high>>]
                ELSE IF c > 0 THEN Find[<<low, mid>>]
                ELSE [found |-> TRUE, index |-> mid]
    IN  Find[<<0, Len(m)>>]

(* The index of the pair with a key, counted from 0, or the one at which it
   would be inserted.                                                      *)
KeyIndexOf(m, search) ==
    LET Find[part \in (0..Len(m)) \X (0..Len(m))] ==
            LET low == part[1]
                high == part[2]
                mid == (low + high) \div 2
                c == Order(search, m[mid + 1].key)
            IN  IF low >= high THEN [found |-> FALSE, index |-> mid]
                ELSE IF c > 0 THEN Find[<<mid + 1, high>>]
                ELSE IF c < 0 THEN Find[<<low, mid>>]
                ELSE [found |-> TRUE, index |-> mid]
    IN  Find[<<0, Len(m)>>]

(* Indices, counted from 0, of the nearest pairs on either side. *)
KeyIndexOfOrNextLower(m, key) ==
    LET at == KeyIndexOf(m, key)
    IN  {i \in {IF at.found THEN at.index ELSE at.index - 1} : i >= 0}

\* Mutant of KeyIndexOfOrNextHigher: the pair after the insertion index.
KeyIndexBeyond(m, key) ==
    LET at == KeyIndexOf(m, key)
    IN  {i \in {IF at.found THEN at.index ELSE at.index + 1} : i < Len(m)}

KeyIndexOfOrNextHigher(m, key) ==
    LET at == KeyIndexOf(m, key) IN {i \in {at.index} : i < Len(m)}

PairOrNextLower(m, key) == {m[i + 1] : i \in KeyIndexOfOrNextLower(m, key)}
PairOrNextHigher(m, key) == {m[i + 1] : i \in KeyIndexOfOrNextHigher(m, key)}

GetRange(m, from, to) ==
    UNION {{SubSeq(m, i + 1, j + 1) : j \in KeyIndexOfOrNextLower(m, to)} :
              i \in KeyIndexOfOrNextHigher(m, from)}

-----------------------------------------------------------------------------
(* The normalizer. *)

\* Mutant of AddLocals: a run goes on although eager final IDs interrupt it.
AddLocalsMerging(m, baseLocal, count) ==
    IF m # <<>> /\ m[Len(m)].key - m[Len(m)].value >= baseLocal
    THEN ReplaceLast(m, m[Len(m)].key, m[Len(m)].value + count)
    ELSE AppendPair(m, baseLocal, count)

AddLocals(m, baseLocal, count) ==
    IF m # <<>> /\ m[Len(m)].key - m[Len(m)].value = baseLocal
    THEN ReplaceLast(m, m[Len(m)].key, m[Len(m)].value + count)
    ELSE AppendPair(m, baseLocal, count)

ContainsLocal(m, query) ==
    \E block \in PairOrNextLower(m, query) : query >= block.key - (block.value - 1)
=============================================================================
