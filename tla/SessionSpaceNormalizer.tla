----------------------- MODULE SessionSpaceNormalizer -----------------------
(***************************************************************************)
(* The normalizer of a compressor (tables/session_space_normalizer.rs): a  *)
(* list of ranges [base, count] of the local IDs the session was given,    *)
(* for all others of its IDs it was given eager final IDs.  Compressor.tla *)
(* takes the normalizer for the set of local IDs that "given" records.     *)
(***************************************************************************)
EXTENDS LocalRanges

CONSTANT MaxGenerated       \* bound on the number of IDs generated

ASSUME MaxGeneratedAssumption == MaxGenerated \in Nat

VARIABLES leadingLocals,    \* the ranges, in the order they were begun
          generated,        \* generated_id_count
          given             \* history: the local IDs given

vars == <<leadingLocals, generated, given>>

Init ==
    /\ leadingLocals = <<>>
    /\ generated = 0
    /\ given = {}

GenerateLocal ==
    /\ generated < MaxGenerated
    /\ generated' = generated + 1
    /\ leadingLocals' = AddLocalRange(leadingLocals, -generated', 1)
    /\ given' = given \cup {-generated'}

GenerateEagerFinal ==
    /\ generated < MaxGenerated
    /\ generated' = generated + 1
    /\ UNCHANGED <<leadingLocals, given>>

Next == GenerateLocal \/ GenerateEagerFinal

Spec == Init /\ [][Next]_vars

-----------------------------------------------------------------------------
(* The types of the variables. *)
TypeOK ==
    /\ leadingLocals \in Seq([base : Int, count : Nat])
    /\ generated \in Nat
    /\ given \subseteq Int

Locals == {-g : g \in 1..MaxGenerated}

(* The list holds the local IDs that were given and no other, in whatever
   pattern they alternate with eager final IDs.                            *)
ContainsIsExact ==
    \A query \in Locals : Contains(leadingLocals, query) <=> query \in given

(* For each query the ranges that compare Less come first and those that
   compare Greater last, with at most one Equal between them: what the
   binary search needs in order to find that one.                          *)
SearchIsOrdered ==
    \A query \in Locals : \A i, j \in DOMAIN leadingLocals :
        i < j => \/ Compare(leadingLocals[i], query) = "Less"
                 \/ Compare(leadingLocals[j], query) = "Greater"
=============================================================================
