---------------------------- MODULE IdCompressor ----------------------------
(***************************************************************************)
(* One IdCompressor and everything its callers may do with it: its session *)
(* generates IDs and takes ranges of them, and ranges come back from the   *)
(* ordering service to be finalized.                                       *)
(*                                                                         *)
(* finalize_range is called with any range this session has ever taken, in *)
(* any order and any number of times, and with arbitrary ranges of other   *)
(* sessions, malformed and out-of-order ones included, so that every error *)
(* return is reached.  Document.tla restricts the calls to the total order *)
(* the service provides.                                                   *)
(***************************************************************************)
EXTENDS Compressor

CONSTANTS LocalSession,     \* the session of this compressor
          Capacities,       \* the values set_cluster_capacity is given
          MaxGenerated      \* bound on generation counts

ASSUME LocalSessionAssumption == LocalSession \in Sessions
ASSUME CapacitiesAssumption == Capacities \subseteq Positive
ASSUME MaxGeneratedAssumption == MaxGenerated \in Nat

VARIABLES compressor,   \* the record of its fields
          taken,        \* history: the ranges take_next_range has returned
          issued        \* history: issued[g] is the ID generated g-th

vars == <<compressor, taken, issued>>

RemoteRanges == [session : Sessions \ {LocalSession},
                 base : 1..MaxGenerated, len : 0..MaxGenerated]

Init ==
    /\ compressor = NewCompressor(LocalSession)
    /\ taken = {}
    /\ issued = <<>>

Generate ==
    /\ compressor.generatedIdCount < MaxGenerated
    /\ compressor' = GenerateNextId(compressor)
    /\ issued' = Append(issued, NextId(compressor))
    /\ UNCHANGED taken

Take ==
    /\ UntakenCount(compressor) # 0
    /\ compressor' = TakeNextRange(compressor)
    /\ taken' = taken \cup {NextRange(compressor)}
    /\ UNCHANGED issued

Finalize(r) ==
    /\ compressor' = FinalizeRange(compressor, r)
    /\ UNCHANGED <<taken, issued>>

FinalizeOwn == \E r \in taken : Finalize(r)

FinalizeRemote == \E r \in RemoteRanges : Finalize(r)

SetCapacity ==
    \E capacity \in Capacities :
        /\ compressor' = SetClusterCapacity(compressor, capacity)
        /\ UNCHANGED <<taken, issued>>

Next == Generate \/ Take \/ FinalizeOwn \/ FinalizeRemote \/ SetCapacity

Spec == Init /\ [][Next]_vars

-----------------------------------------------------------------------------
(* The types of the variables. *)
TypeOK ==
    /\ compressor \in Compressors
    /\ taken \subseteq Ranges
    /\ issued \in Seq(Int)

Clusters == compressor.clusters

(* The clusters of all sessions tile the final IDs, and those of each session
   its local IDs, whatever ranges were finalized and refused
   (compressor.rs:209-319).                                                *)
ClustersTile == FinalsTile(Clusters) /\ LocalsTile(Clusters)

(* lib.rs invariant 1: an ID this session was given decompresses to the same
   UUID for the lifetime of the session, whether it was issued as a local
   or as an eager final, and whatever has been finalized around it since.  *)
IssuedIdsDecompress ==
    \A g \in DOMAIN issued :
        Decompress(compressor, issued[g]) = {LocalSession + g - 1}

(* lib.rs invariant 4: the UUID of an ID this session was given compresses
   into the very ID it was given, for the lifetime of the session.         *)
IssuedIdsRecompress ==
    \A g \in DOMAIN issued :
        Recompress(compressor, LocalSession + g - 1) = {issued[g]}

(* An issued ID survives a trip through op space: its normal form there is
   unique and its own session normalizes that back to the ID it was given,
   before and after the range that holds it is finalized.                  *)
IssuedIdsRoundTrip ==
    \A g \in DOMAIN issued :
        LET op == NormalizeToOpSpace(compressor, issued[g])
        IN  \E id \in op :
               /\ op = {id}
               /\ NormalizeToSessionSpace(compressor, id, LocalSession) = {issued[g]}

ClaimedFinals == 0..(NextBaseFinal(Clusters) - 1)

(* Every final ID that decompresses is accepted from the wire, whoever sends
   it, and the session-space ID it becomes has the same UUID; that UUID
   compresses into that ID.                                                *)
FinalsNormalize ==
    \A final \in ClaimedFinals :
        LET uuid == Decompress(compressor, final)
            id   == NormalizeToSessionSpace(compressor, final, LocalSession)
        IN  uuid # {} =>
              \E u \in uuid : \E n \in id :
                /\ uuid = {u} /\ id = {n}
                /\ Decompress(compressor, n) = {u}
                /\ Recompress(compressor, u) = {n}

(* lib.rs invariant 2: a final ID that decompresses does so forever, to the
   same UUID.                                                              *)
FinalsPermanent ==
    [][\A final \in ClaimedFinals :
          Decompress(compressor, final) # {} =>
            Decompress(compressor', final) = Decompress(compressor, final)]_vars

(* lib.rs invariant 3: once the range of a session-local ID has been
   received, its translation to a final ID never changes.                  *)
TranslationsPermanent ==
    [][\A s \in Sessions : \A g \in 1..MaxGenerated :
          LET final == TryConvertToFinal(Clusters, s, -g)
          IN  final # {} => TryConvertToFinal(Clusters', s, -g) = final]_vars

(* A token, once returned, is valid for the lifetime of the compressor
   (compressor.rs:104-107), also when a refused range adds a session.      *)
TokensPermanent ==
    [][\A s \in Known(compressor) : Token(compressor', s) = Token(compressor, s)]_vars

-----------------------------------------------------------------------------
(* The inductive invariant behind the above. *)

(* The history of issued IDs: each is one the compressor holds. *)
IssuedInv ==
    /\ Len(issued) = compressor.generatedIdCount
    /\ \A g \in DOMAIN issued : Issued(compressor, g, issued[g])

(* The history of taken ranges: nothing in them is yet to be generated. *)
TakenInv ==
    \A r \in taken : /\ r.session = LocalSession
                     /\ r.base + r.len <= compressor.generatedIdCount + 1

(* The most IDs a session has: base and len of a range of another session are
   at most MaxGenerated each.                                              *)
MostIds(s) == IF s = LocalSession THEN MaxGenerated ELSE 2 * MaxGenerated

(* The inductive invariant. *)
IndInv ==
    /\ TypeOK
    /\ compressor.sessionId = LocalSession
    /\ CompressorInv(compressor)
    /\ IssuedInv
    /\ TakenInv
    /\ compressor.generatedIdCount <= MaxGenerated
    /\ \A s \in Sessions : NextBase(Clusters, s) <= MostIds(s) + 1

(* The premise of compression by UUID: session IDs are random, so that none
   falls among the IDs of another.                                         *)
SessionsApart == \A s, u \in Sessions : s < u => s + MostIds(s) <= u
=============================================================================
