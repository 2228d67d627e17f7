------------------------------ MODULE Delivery ------------------------------
(***************************************************************************)
(* What a consumer group promises about one partition: messages are        *)
(* delivered in order, each at least once, and the committed offset covers *)
(* only messages that a member has finished or that were written before    *)
(* the group had an offset.                                                *)
(*                                                                         *)
(* Several members may have the partition at once, and a member may be     *)
(* given a message that another has finished: deliveries are repeated, and *)
(* the offset may fall back when a late commit arrives.                    *)
(***************************************************************************)
EXTENDS Integers, Sequences

CONSTANTS
    Members,
    Values      \* what a producer may write

VARIABLES
    log,        \* the partition
    committed,  \* the offset of the group, or NoOffset
    hand,       \* the message each member is working on, or NoMessage
    finished,   \* messages that were handled or given up
    skipped     \* messages that the group passed over when it had no offset

vars == <<log, committed, hand, finished, skipped>>

NoOffset  == -1
NoMessage == 0

Init ==
    /\ log = <<>>
    /\ committed = NoOffset
    /\ hand = [m \in Members |-> NoMessage]
    /\ finished = {}
    /\ skipped = {}

Produce(v) ==
    /\ log' = Append(log, v)
    /\ UNCHANGED <<committed, hand, finished, skipped>>

\* All messages before o are behind the group.
InOrder(o) == \A p \in 1..(o - 1) : p \in finished \cup skipped

Take(m, o) ==
    /\ hand[m] = NoMessage
    /\ o \in 1..Len(log)
    /\ InOrder(o)
    /\ hand' = [hand EXCEPT ![m] = o]
    /\ UNCHANGED <<log, committed, finished, skipped>>

Finish(m) ==
    /\ hand[m] # NoMessage
    /\ finished' = finished \cup {hand[m]}
    /\ UNCHANGED <<log, committed, hand, skipped>>

\* The member is done with a finished message; its commit may be refused.
Commit(m) ==
    /\ hand[m] \in finished
    /\ committed' \in {hand[m], committed}
    /\ hand' = [hand EXCEPT ![m] = NoMessage]
    /\ UNCHANGED <<log, finished, skipped>>

\* The member dies.
Drop(m) ==
    /\ hand[m] # NoMessage
    /\ hand' = [hand EXCEPT ![m] = NoMessage]
    /\ UNCHANGED <<log, committed, finished, skipped>>

\* A member begins to read while the group has no offset.
Skip ==
    /\ committed = NoOffset
    /\ skipped' = skipped \cup 1..Len(log)
    /\ UNCHANGED <<log, committed, hand, finished>>

Deliver(m) == (\E o \in 1..Len(log) : Take(m, o)) \/ Finish(m) \/ Commit(m) \/ Drop(m)

Next ==
    \/ \E v \in Values : Produce(v)
    \/ \E m \in Members : Deliver(m)
    \/ Skip

Spec == Init /\ [][Next]_vars
=============================================================================
