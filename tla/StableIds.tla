----------------------------- MODULE StableIds ------------------------------
(***************************************************************************)
(* UUIDs and the numbers compressors use for them (id-types/stable_id.rs   *)
(* and session_id.rs).  A version 4 UUID is a 128-bit number of the fields *)
(*                                                                         *)
(*     upper | version (4 bits) | middle | variant (2 bits) | lower        *)
(*                                                                         *)
(* and its StableId is what is left without version and variant, so that   *)
(* the UUIDs of consecutive IDs are reached by adding to one number.       *)
(***************************************************************************)
EXTENDS Integers

CONSTANTS UpperSize,    \* 2^48: the values of the upper field
          MiddleSize,   \* 2^12
          LowerSize     \* 2^62

ASSUME FieldSizesAssumption ==
    /\ UpperSize \in Nat \ {0}
    /\ MiddleSize \in Nat \ {0}
    /\ LowerSize \in Nat \ {0}

StableLimit == UpperSize * MiddleSize * LowerSize       \* 2^122

-----------------------------------------------------------------------------
(* The fields of a UUID, from the lower end of the number. *)

Lower(uuid) == uuid % LowerSize
FromVariant(uuid) == uuid \div LowerSize
Variant(uuid) == FromVariant(uuid) % 4
FromMiddle(uuid) == FromVariant(uuid) \div 4
Middle(uuid) == FromMiddle(uuid) % MiddleSize
FromVersion(uuid) == FromMiddle(uuid) \div MiddleSize
Version(uuid) == FromVersion(uuid) % 16
Upper(uuid) == FromVersion(uuid) \div 16

UuidOf(upper, version, middle, variant, lower) ==
    (((upper * 16 + version) * MiddleSize + middle) * 4 + variant) * LowerSize + lower

-----------------------------------------------------------------------------
(* The conversions. *)

\* Mutant of ToUuid: the middle field is masked where it has been shifted to,
\* and its upper half is lost.
ToUuidNarrowMiddle(stable) ==
    LET fromMiddle == stable \div LowerSize
    IN  UuidOf((fromMiddle \div MiddleSize) % UpperSize, 4,
               (fromMiddle % MiddleSize) % (MiddleSize \div 2 + 1), 2, stable % LowerSize)

(* Bits above the upper field are lost: a StableId that was added to beyond
   the last UUID starts again from the first.                              *)
ToUuid(stable) ==
    LET fromMiddle == stable \div LowerSize
    IN  UuidOf((fromMiddle \div MiddleSize) % UpperSize, 4,
               fromMiddle % MiddleSize, 2, stable % LowerSize)

FromUuid(uuid) ==
    (Upper(uuid) * MiddleSize + Middle(uuid)) * LowerSize + Lower(uuid)

IsVersion4(uuid) == Version(uuid) = 4 /\ Variant(uuid) = 2

(* {} for a UUID of another version or variant (InvalidVersionOrVariant). *)
FromUuidString(uuid) == IF IsVersion4(uuid) THEN {FromUuid(uuid)} ELSE {}

-----------------------------------------------------------------------------
(* The conversions of the TypeScript rewrite, which mask a field where it is
   and shift it to where it belongs.                                       *)

NumericUuidFromStableId(uuid) ==
    LET upperMasked == Upper(uuid) * (16 * MiddleSize * 4 * LowerSize)
        middleMasked == Middle(uuid) * (4 * LowerSize)
    IN  upperMasked \div (16 * 4) + middleMasked \div 4 + Lower(uuid)

StableIdFromNumericUuid(numeric) ==
    LET fromMiddle == numeric \div LowerSize
        upperMasked == ((fromMiddle \div MiddleSize) % UpperSize) * (MiddleSize * LowerSize)
        middleMasked == (fromMiddle % MiddleSize) * LowerSize
        version == 4 * (MiddleSize * 4 * LowerSize)
        variant == 2 * LowerSize
    IN  upperMasked * (16 * 4) + version + middleMasked * 4 + variant + (numeric % LowerSize)
=============================================================================
