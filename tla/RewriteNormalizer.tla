------------------------- MODULE RewriteNormalizer -------------------------
(***************************************************************************)
(* The normalizer of the TypeScript rewrite beside that of Rust, both of   *)
(* which the same session uses, and the range queries of the rewrite's map *)
(* on the maps that come up.                                               *)
(***************************************************************************)
EXTENDS SessionSpaceNormalizer, AppendOnlySortedMap

VARIABLE sortedMap      \* leadingLocals of the rewrite

BothInit == Init /\ sortedMap = <<>>

BothGenerateLocal ==
    /\ GenerateLocal
    /\ sortedMap' = AddLocals(sortedMap, -generated', 1)

BothGenerateEagerFinal ==
    /\ GenerateEagerFinal
    /\ UNCHANGED sortedMap

BothNext == BothGenerateLocal \/ BothGenerateEagerFinal

BothSpec == BothInit /\ [][BothNext]_<<vars, sortedMap>>

-----------------------------------------------------------------------------
Pairs == {sortedMap[i] : i \in DOMAIN sortedMap}

Queries == -(MaxGenerated + 1)..0

(* The map has the ranges of the Rust list for its pairs, and its search, by
   key and not by range, finds the same local IDs
   (sessionSpaceNormalizer.ts:17-38).                                      *)
MapImplementsList ==
    /\ sortedMap = [i \in DOMAIN leadingLocals |->
                        Pair(leadingLocals[i].base, leadingLocals[i].count)]
    /\ \A query \in Queries :
          ContainsLocal(sortedMap, query) <=> Contains(leadingLocals, query)

(* "Lower" is closer to the start of the session, the other way round than
   the numbers: the binary search returns the nearest pair on either side
   of any key, present or not (appendOnlySortedMap.ts:180-196, 276-361).   *)
NeighboursAreNearest ==
    \A key \in Queries :
        LET upTo == {p \in Pairs : p.key >= key}
            from == {p \in Pairs : p.key <= key}
        IN  /\ PairOrNextLower(sortedMap, key) =
                  {p \in upTo : \A q \in upTo : p.key <= q.key}
            /\ PairOrNextHigher(sortedMap, key) =
                  {p \in from : \A q \in from : q.key <= p.key}

(* A range query yields the pairs between two keys, ends included, in order,
   and none if the keys are the wrong way round (appendOnlySortedMap.ts:248). *)
RangesAreExact ==
    \A from, to \in Queries :
        LET within == {p \in Pairs : p.key <= from /\ p.key >= to}
            found == GetRange(sortedMap, from, to)
        IN  /\ found = {} => within = {}
            /\ \A yielded \in found :
                  /\ {yielded[i] : i \in DOMAIN yielded} = within
                  /\ \A i, j \in DOMAIN yielded : i < j => yielded[i].key > yielded[j].key
=============================================================================
