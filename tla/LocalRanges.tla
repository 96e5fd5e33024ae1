---------------------------- MODULE LocalRanges ----------------------------
(***************************************************************************)
(* The list of ranges [base, count] of local IDs that a normalizer keeps   *)
(* (tables/session_space_normalizer.rs): how it grows and is searched.     *)
(***************************************************************************)
EXTENDS Integers, Sequences

\* Mutant of AddLocalRange: base and count are swapped.
AddSwappedRange(ranges, base, count) ==
    Append(ranges, [base |-> count, count |-> base])

AddLocalRange(ranges, base, count) ==
    LET n == Len(ranges)
    IN  IF ranges # <<>> /\ ranges[n].base - ranges[n].count = base
        THEN [ranges EXCEPT ![n].count = ranges[n].count + count]
        ELSE Append(ranges, [base |-> base, count |-> count])

\* Mutant of Compare: a range holds one ID more than its count.
CompareInclusive(range, query) ==
    IF query > range.base THEN "Greater"
    ELSE IF query < range.base - range.count THEN "Less"
    ELSE "Equal"

\* Mutant of Compare: the order of the search is reversed.
CompareReversed(range, query) ==
    IF query > range.base THEN "Less"
    ELSE IF query < range.base - (range.count - 1) THEN "Greater"
    ELSE "Equal"

(* How a range compares with a queried local ID in the binary search. *)
Compare(range, query) ==
    IF query > range.base THEN "Greater"
    ELSE IF query < range.base - (range.count - 1) THEN "Less"
    ELSE "Equal"

Contains(ranges, query) ==
    \E i \in DOMAIN ranges : Compare(ranges[i], query) = "Equal"
=============================================================================
