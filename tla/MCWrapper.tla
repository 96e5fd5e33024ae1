------------------------------ MODULE MCWrapper -----------------------------
(* A small client.  There are 32 stable IDs, 4 to a lower field and 16 to an
   upper one: the third ID of the local session carries across all fields. *)
EXTENDS Wrapper

ThreeSessions == {5, 14, 23}

(* Session 5 has two IDs, finalized at once or one by one; 23 has one, and a
   range that comes before its first one.  One range is empty.             *)
RangesOfOthers ==
    {[session |-> 5, first |-> 1, count |-> count] : count \in 0..2}
        \cup {[session |-> 5, first |-> 2, count |-> 1],
              [session |-> 23, first |-> 1, count |-> 1],
              [session |-> 23, first |-> 3, count |-> 1]}

Numbers == {-1, 0, 2, 3, NaN, WithFraction}

(* The premises of the theorems about Wrapper. *)
ASSUME MCCountsExact == CountsExact
ASSUME MCOwnIdsApart == OwnIdsApart
=============================================================================
