------------------------------ MODULE MCOutbox ------------------------------
(* Instances of Outbox for TLC. *)
EXTENDS Outbox

\* The states that the CHECK constraint of the migration lists.
CheckedStates == {"pending", "published", "failed"}
=============================================================================
