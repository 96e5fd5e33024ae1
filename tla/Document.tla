------------------------------ MODULE Document ------------------------------
(***************************************************************************)
(* A document shared by several clients, each with an IdCompressor of its  *)
(* own session, joined by a total order broadcast service.  This is the    *)
(* setting finalize_range relies on (compressor.rs:206-208) and that the   *)
(* repository's IdCompressorTestNetwork simulates: a log of ranges and     *)
(* capacity changes that each client processes in order, at its own pace.  *)
(*                                                                         *)
(* Taking a range and appending it to the log is one step.  An op sent     *)
(* while the log grows past what its sender has processed reads like one   *)
(* appended by a sender that lags behind, which Deliver may always let it. *)
(***************************************************************************)
EXTENDS Persistence

CONSTANTS Founders,         \* the clients that start with the empty document
          Capacities,       \* the capacities clients may agree on
          MaxGenerated,     \* bound on the IDs a client generates
          MaxOps            \* bound on the length of the log

ASSUME DocumentAssumption ==
    /\ Founders \subseteq Sessions
    /\ Capacities \subseteq Positive
    /\ MaxGenerated \in Nat
    /\ MaxOps \in Nat

Clients == Sessions     \* a client is named by its session

VARIABLES joined,       \* the clients that have opened the document
          compressors,  \* the compressor of each client
          log,          \* the ops in the order of the service
          progress      \* how much of the log each client has processed

vars == <<joined, compressors, log, progress>>

(* An op carries a range (of length 0 if it has none), the op-space form of
   every ID its sender has generated, and the final IDs of others it knows. *)
RangeOps == [kind : {"range"}, range : Ranges, ids : Seq(Int), relayed : SUBSET Nat]
CapacityOps == [kind : {"capacity"}, capacity : Positive]

TheOnly(set) == CHOOSE x \in set : set = {x}

(* The g-th ID a compressor has issued: an eager final ID, unless the
   normalizer holds it as a local one.                                     *)
IssuedIds(c, g) == IF -g \in c.normalizer THEN {-g}
                   ELSE TryConvertToAllocated(c.clusters, c.sessionId, -g)

OpSpaceIds(c) ==
    [g \in 1..c.generatedIdCount |->
        TheOnly(UNION {NormalizeToOpSpace(c, id) : id \in IssuedIds(c, g)})]

RemoteFinals(c) ==
    {final \in 0..(c.finalIdLimit - 1) :
        /\ Decompress(c, final) # {}
        /\ Search(c.clusters, final) \cap Chain(c.clusters, c.sessionId) = {}}

Init ==
    /\ joined = Founders
    /\ compressors = [c \in Clients |-> NewCompressor(c)]
    /\ log = <<>>
    /\ progress = [c \in Clients |-> 0]

Generate(c) ==
    /\ compressors[c].generatedIdCount < MaxGenerated
    /\ compressors' = [compressors EXCEPT ![c] = GenerateNextId(@)]
    /\ UNCHANGED <<joined, log, progress>>

Send(c) ==
    /\ Len(log) < MaxOps
    /\ UntakenCount(compressors[c]) # 0 \/ RemoteFinals(compressors[c]) # {}
    /\ log' = Append(log, [kind |-> "range",
                           range |-> NextRange(compressors[c]),
                           ids |-> OpSpaceIds(compressors[c]),
                           relayed |-> RemoteFinals(compressors[c])])
    /\ compressors' = [compressors EXCEPT ![c] = TakeNextRange(@)]
    /\ UNCHANGED <<joined, progress>>

\* Mutant of ProposeCapacity: a client changes its capacity on its own, outside
\* of the order of the service.
ChangeCapacityAlone ==
    /\ \E capacity \in Capacities : \E c \in joined :
          compressors' = [compressors EXCEPT ![c] = SetClusterCapacity(@, capacity)]
    /\ UNCHANGED <<joined, log, progress>>

ProposeCapacity ==
    /\ Len(log) < MaxOps
    /\ \E capacity \in Capacities :
          log' = Append(log, [kind |-> "capacity", capacity |-> capacity])
    /\ UNCHANGED <<joined, compressors, progress>>

Process(c, op) ==
    IF op.kind = "capacity" THEN SetClusterCapacity(c, op.capacity)
    ELSE IF op.range.len = 0 THEN c
    ELSE FinalizeRange(c, op.range)

Deliver(c) ==
    /\ progress[c] < Len(log)
    /\ compressors' = [compressors EXCEPT ![c] = Process(@, log[progress[c] + 1])]
    /\ progress' = [progress EXCEPT ![c] = @ + 1]
    /\ UNCHANGED <<joined, log>>

(* A new client loads the summary another one writes, and goes on from the
   op that one had reached.                                                *)
Join(c, writer) ==
    /\ \E compressor \in Deserialize(Serialize(compressors[writer]), c) :
          compressors' = [compressors EXCEPT ![c] = compressor]
    /\ joined' = joined \cup {c}
    /\ progress' = [progress EXCEPT ![c] = progress[writer]]
    /\ UNCHANGED log

Next ==
    \/ \E c \in joined : Generate(c) \/ Send(c) \/ Deliver(c)
    \/ ProposeCapacity
    \/ \E c \in Clients \ joined : \E writer \in joined : Join(c, writer)

Spec == Init /\ [][Next]_vars

(* The service delivers every op to every client. *)
FairSpec == Spec /\ \A c \in Clients : WF_vars(c \in joined /\ Deliver(c))

-----------------------------------------------------------------------------
(* The types of the variables. *)
TypeOK ==
    /\ joined \subseteq Clients
    /\ compressors \in [Clients -> Compressors]
    /\ log \in Seq(RangeOps \cup CapacityOps)
    /\ progress \in [Clients -> 0..Len(log)]

IsRangeOp(i) == log[i].kind = "range"

Processed(c) == {i \in 1..progress[c] : IsRangeOp(i)}

(* Compressors that have processed the same ops agree on every cluster and
   on the capacity of the next one, whatever each generated meanwhile
   (compressor.rs:126).                                                    *)
Convergence ==
    \A c, d \in joined : progress[c] = progress[d] =>
        /\ compressors[c].clusters = compressors[d].clusters
        /\ compressors[c].finalIdLimit = compressors[d].finalIdLimit
        /\ compressors[c].clusterCapacity = compressors[d].clusterCapacity

(* In the order of the service no range is refused: finalize_range returns
   an error for none of the ranges a client has still to process.          *)
RangesAccepted ==
    \A c \in joined :
        progress[c] < Len(log) =>
            LET op == log[progress[c] + 1]
            IN  op.kind = "range" /\ op.range.len # 0 =>
                    FinalizeResult(compressors[c], op.range) = "Ok"

Means(c, id, originator, uuid) ==
    LET normal == NormalizeToSessionSpace(compressors[c], id, originator)
    IN  \E n \in normal :
           /\ normal = {n}
           /\ Decompress(compressors[c], n) = {uuid}
           /\ Recompress(compressors[c], uuid) = {n}

(* An ID in a processed op normalizes at every client, then and ever after,
   to the one session-space ID of the UUID its creator gave it, although it
   was put in op space by a sender that knew less of the log, or more.     *)
DeliveredIdsKeepTheirMeaning ==
    \A c \in joined : \A i \in Processed(c) :
        \A g \in DOMAIN log[i].ids :
            Means(c, log[i].ids[g], log[i].range.session, log[i].range.session + g - 1)

(* A final ID that a client relays means the same UUID to whoever processes
   the op as to its sender, even if the sender has no session there yet.   *)
RelayedIdsKeepTheirMeaning ==
    \A c \in joined : \A i \in Processed(c) : \A final \in log[i].relayed :
        \E uuid \in Decompress(compressors[log[i].range.session], final) :
            Means(c, final, log[i].range.session, uuid)

(* No final ID stands for two UUIDs anywhere, even if it was issued eagerly
   and its range is still on the way (lib.rs invariant 2).                 *)
FinalsAgree ==
    \A c, d \in joined :
        \A final \in 0..(NextBaseFinal(compressors[c].clusters) - 1) :
            LET here  == Decompress(compressors[c], final)
                there == Decompress(compressors[d], final)
            IN  here # {} /\ there # {} => here = there

(* A client that closes and resumes from its serialized local state goes on
   with the very compressor it closed with, tokens included.               *)
ResumeIsExact ==
    \A c \in joined :
        Deserialize(SerializeWithLocal(compressors[c]), c) = {compressors[c]}

(* The final IDs a client decompresses, apart from those nobody else can. *)
Assigned(c) ==
    UNION {{[final |-> final, uuid |-> uuid] : uuid \in Decompress(compressors[c], final)} :
              final \in 0..(NextBaseFinal(compressors[c].clusters) - 1)}

Finalized(c) ==
    {assignment \in Assigned(c) :
        \E i \in Search(compressors[c].clusters, assignment.final) :
            LET cluster == compressors[c].clusters[i]
            IN  assignment.final < cluster.baseFinal + cluster.count}

Promise == INSTANCE Ledger WITH
    open <- joined,
    eager <- [c \in Clients |-> Assigned(c) \ Finalized(c)],
    finalized <- [c \in Clients |-> Finalized(c)]

(* The document keeps its promise: whatever clusters are claimed, filled,
   expanded and loaded, and however far the clients are apart, final IDs
   are assigned one to one and permanently, all clients hear of them in one
   order, and an eager final ID turns out as its creator assigned it.      *)
KeepsPromise == Promise!Spec

(* An ID, once its range is taken, is finalized at every client, those that
   join in the meantime included.                                          *)
TakenIdsFinalized ==
    \A c \in Clients : \A g \in 1..MaxGenerated :
        compressors[c].nextRangeBase > g
          ~> \A d \in joined : TryConvertToFinal(compressors[d].clusters, c, -g) # {}

-----------------------------------------------------------------------------
(* The inductive invariant behind the above.  A document has one history of
   its cluster tables, which the log alone determines: each client is at one
   point of it, and each op was written by a client that was.              *)

NoClusters == [clusters |-> <<>>, clusterCapacity |-> DefaultClusterCapacity]

AfterOp(tables, op) ==
    [clusters |-> IF op.kind = "range" /\ op.range.len # 0
                  THEN Claim(tables.clusters, op.range, tables.clusterCapacity)
                  ELSE tables.clusters,
     clusterCapacity |-> IF op.kind = "capacity" THEN op.capacity
                         ELSE tables.clusterCapacity]

Replay(ops) ==
    LET after[i \in 0..Len(ops)] ==
            IF i = 0 THEN NoClusters ELSE AfterOp(after[i - 1], ops[i])
    IN  after

(* The clusters and the capacity that the first i ops of the log amount to. *)
Replayed(i) == Replay(log)[i]

AllCapacities == Capacities \cup {DefaultClusterCapacity}

(* The tables of the history are correct, claims are never taken back, and no
   cluster reserves more than a capacity beyond its finalized IDs.         *)
HistoryInv ==
    /\ \A i \in 0..Len(log) :
          /\ TableInv(Replayed(i).clusters)
          /\ Replayed(i).clusterCapacity \in AllCapacities
          /\ \A k \in DOMAIN Replayed(i).clusters : \E capacity \in AllCapacities :
                Replayed(i).clusters[k].capacity - Replayed(i).clusters[k].count <= capacity
    /\ \A i, j \in 0..Len(log) :
          i <= j => Grows(Replayed(i).clusters, Replayed(j).clusters)

(* The ranges of a session follow each other in the log without a gap, up to
   what the session has taken.                                             *)
RangesInv ==
    /\ \A c \in Clients :
          NextBase(Replayed(Len(log)).clusters, c) = compressors[c].nextRangeBase
    /\ \A i \in 1..Len(log) : IsRangeOp(i) =>
          LET r == log[i].range
          IN  /\ r.session \in joined
              /\ r.base = NextBase(Replayed(i - 1).clusters, r.session)
              /\ r.base + r.len = NextBase(Replayed(i).clusters, r.session)

ClientsInv ==
    \A c \in Clients :
        /\ compressors[c].sessionId = c
        /\ CompressorInv(compressors[c])
        /\ compressors[c].generatedIdCount <= MaxGenerated
        /\ compressors[c].clusters = Replayed(progress[c]).clusters
        /\ compressors[c].clusterCapacity = Replayed(progress[c]).clusterCapacity
        /\ c \notin joined => compressors[c] = NewCompressor(c) /\ progress[c] = 0

HasFinalized(t, final) ==
    \E k \in DOMAIN t : HoldsFinalizedLocal(t[k], AlignedLocal(t[k], final))

(* An ID in an op is a local ID of its range or an earlier one of the session,
   or a final ID reserved for it; one of another session was finalized when
   the sender relayed it.                                                  *)
IdsInv ==
    \A i \in 1..Len(log) : IsRangeOp(i) =>
        LET r == log[i].range
            t == Replayed(i - 1).clusters
        IN  /\ DOMAIN log[i].ids = 1..(r.base + r.len - 1)
            /\ \A g \in DOMAIN log[i].ids :
                  \/ log[i].ids[g] = -g
                  \/ \E k \in Chain(t, r.session) :
                        /\ HoldsLocal(t[k], -g)
                        /\ log[i].ids[g] = AllocatedFinal(t[k], -g)
            /\ \E j \in 0..(i - 1) :
                  /\ j <= progress[r.session]
                  /\ \A final \in log[i].relayed : HasFinalized(Replayed(j).clusters, final)

(* The inductive invariant. *)
DocInv == TypeOK /\ HistoryInv /\ RangesInv /\ ClientsInv /\ IdsInv

(* The premise of all: session IDs are random, so that what a session may
   reserve does not reach another session ID.                              *)
SessionsFarApart ==
    \A s, u \in Sessions : \A capacity \in AllCapacities :
        s < u => s + MaxGenerated + capacity < u

(* Session IDs are the stable IDs of UUIDs. *)
SessionsStable == \A s \in Sessions : s < StableLimit
=============================================================================
