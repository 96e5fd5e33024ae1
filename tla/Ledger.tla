------------------------------- MODULE Ledger -------------------------------
(***************************************************************************)
(* What a shared document promises about final IDs, with nothing said of   *)
(* sessions, clusters, ranges or ops (the invariants of lib.rs:25-33).     *)
(* A final ID is assigned to one UUID and a UUID to one final ID, for good *)
(* and for everybody; a client may use an assignment of its own before the *)
(* others have heard of it; and all hear of them in one order.             *)
(***************************************************************************)
CONSTANT Clients

VARIABLES open,         \* the clients that have the document open
          eager,        \* the assignments a client made and has in use alone
          finalized     \* the assignments a client has heard of

vars == <<open, eager, finalized>>

OneToOne(assignments) ==
    \A a, b \in assignments : a.final = b.final <=> a.uuid = b.uuid

Assignments == UNION {eager[c] \cup finalized[c] : c \in open}

Init ==
    /\ eager = [c \in Clients |-> {}]
    /\ finalized = [c \in Clients |-> {}]

(* A client assigns the next final ID of its reserve to its next UUID. *)
Issue(c) ==
    /\ \E assignment \in eager'[c] :
          /\ assignment \notin Assignments
          /\ eager' = [eager EXCEPT ![c] = @ \cup {assignment}]
    /\ UNCHANGED <<open, finalized>>

(* A client hears of assignments: those that others heard of before it, or
   new ones.  Nothing it knew is lost, and what it made itself is among
   what it hears of sooner or later.                                       *)
Hear(c) ==
    /\ finalized[c] \subseteq finalized'[c]
    /\ finalized' = [finalized EXCEPT ![c] = finalized'[c]]
    /\ \A d \in open : \/ finalized'[c] \subseteq finalized[d]
                       \/ finalized[d] \subseteq finalized'[c]
    /\ eager' = [eager EXCEPT ![c] = @ \ finalized'[c]]
    /\ UNCHANGED open

Open(c, other) ==
    /\ open' = open \cup {c}
    /\ finalized' = [finalized EXCEPT ![c] = finalized[other]]
    /\ UNCHANGED eager

Next ==
    /\ \/ \E c \in open : Issue(c) \/ Hear(c)
       \/ \E c \in Clients \ open : \E other \in open : Open(c, other)
    /\ OneToOne(Assignments')

Spec == Init /\ [][Next]_vars
=============================================================================
