---------------------------- MODULE WasmAdapter -----------------------------
(***************************************************************************)
(* The wasm adapter (wasm-id-allocator/src/lib.rs): the operations of an   *)
(* IdCompressor with what JavaScript can pass and take.  IDs, counts and   *)
(* tokens cross the boundary as f64, session IDs and stable IDs as UUIDs,  *)
(* and an error of a hot path as NaN.  The adapter keeps no state of its   *)
(* own; the telemetry counters of the core, which Compressor.tla leaves    *)
(* out, are the record "stats" here.                                       *)
(*                                                                         *)
(* A JavaScript number is an integer, NaN, or WithFraction, which stands   *)
(* for those between Whole and Whole + 1.                                  *)
(***************************************************************************)
EXTENDS Persistence

CONSTANTS NaN, WithFraction,
          ExactLimit,           \* 2^53: the integers up to it are exact in f64
          MaxClusterCapacity    \* MAX_DEFAULT_CLUSTER_CAPACITY, 2^11

ASSUME AdapterAssumption ==
    /\ NaN \notin Int /\ WithFraction \notin Int /\ NaN # WithFraction
    /\ ExactLimit \in Nat /\ ExactLimit % 2 = 0
    /\ MaxClusterCapacity \in Positive

Whole == 1

-----------------------------------------------------------------------------
(* Conversions. *)

\* Mutant of AsF64: numbers are passed with one bit of precision less.
AsF32(n) ==
    IF n \in -(ExactLimit \div 2)..(ExactLimit \div 2) \/ n % 2 = 0 THEN n
    ELSE IF (n - 1) % 4 = 0 THEN n - 1 ELSE n + 1

(* Beyond the exact integers every second one is left (up to twice the limit,
   which bounds the numbers of a model), and a tie goes to the even one.   *)
AsF64(n) ==
    IF n \in -ExactLimit..ExactLimit \/ n % 2 = 0 THEN n
    ELSE IF (n - 1) % 4 = 0 THEN n - 1 ELSE n + 1

AsI64(x) == CASE x = NaN -> 0 [] x = WithFraction -> Whole [] OTHER -> x

(* The cast saturates: a negative number becomes 0. *)
AsU64(x) == IF AsI64(x) < 0 THEN 0 ELSE AsI64(x)

-----------------------------------------------------------------------------
(* Telemetry. *)

Stats == [eager : Nat, local : Nat, expansions : Nat, creations : Nat]

EmptyStats == [eager |-> 0, local |-> 0, expansions |-> 0, creations |-> 0]

StatsAfterGenerate(c, stats) ==
    IF IsNextEager(c) THEN [stats EXCEPT !.eager = @ + 1]
                      ELSE [stats EXCEPT !.local = @ + 1]

\* Mutant of StatsAfterClaim: an overflow into a new cluster is not counted.
StatsAfterFirstClaim(c, stats, r) ==
    IF Chain(c.clusters, r.session) = {} THEN [stats EXCEPT !.creations = @ + 1]
    ELSE IF Remaining(c.clusters, r.session) >= r.len THEN stats
    ELSE IF TailIsLast(c.clusters, r.session) THEN [stats EXCEPT !.expansions = @ + 1]
    ELSE stats

StatsAfterClaim(c, stats, r) ==
    IF Chain(c.clusters, r.session) = {} THEN [stats EXCEPT !.creations = @ + 1]
    ELSE IF Remaining(c.clusters, r.session) >= r.len THEN stats
    ELSE IF TailIsLast(c.clusters, r.session) THEN [stats EXCEPT !.expansions = @ + 1]
    ELSE [stats EXCEPT !.creations = @ + 1]

-----------------------------------------------------------------------------
(* Operations that change the compressor. *)

(* A number that is negative, or has a fraction as NaN is taken to have, is
   refused here; zero is refused by the core.                              *)
SetClusterCapacityNumber(c, x) ==
    IF x \in Int /\ x >= 0 /\ x <= MaxClusterCapacity /\ x # 0
    THEN SetClusterCapacity(c, AsU64(x))
    ELSE c

NextIdNumber(c) == AsF64(NextId(c))

NextRangeNumbers(c) ==
    [first |-> AsF64(NextRange(c).base), count |-> AsF64(NextRange(c).len)]

(* The range a finalize_range call names; {} if its UUID is refused. *)
RangeOfNumbers(uuid, first, count) ==
    {[session |-> s, base |-> AsU64(first), len |-> AsU64(count)] : s \in FromUuidString(uuid)}

-----------------------------------------------------------------------------
(* Operations that read it. *)

GetToken(c, uuid) == {AsF64(Token(c, s)) : s \in FromUuidString(uuid)}

OrNaN(answer) == IF answer = {} THEN NaN ELSE AsF64(CHOOSE id \in answer : TRUE)

NormalizeToOpSpaceNumber(c, x) == OrNaN(NormalizeToOpSpace(c, AsI64(x)))

(* A local ID is only looked up with a token: the nil token is no index. *)
NormalizeToSessionSpaceNumber(c, x, token) ==
    LET id == AsI64(x) IN
    OrNaN(IF id >= 0 THEN NormalizeFinal(c, id)
          ELSE IF AsI64(token) = 0 THEN NormalizeOwnLocal(c, id)
          ELSE TryConvertToFinal(c.clusters, c.sessions[AsI64(token) + 1], id))

DecompressNumber(c, x) == {ToUuid(stable) : stable \in Decompress(c, AsI64(x))}

RecompressUuid(c, uuid) ==
    UNION {{AsF64(id) : id \in Recompress(c, stable)} : stable \in FromUuidString(uuid)}

(* Deserializing asks for a session even if the bytes bring one along. *)
DeserializeFor(words, uuid) ==
    UNION {Deserialize(words, s) : s \in FromUuidString(uuid)}
=============================================================================
