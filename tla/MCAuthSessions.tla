--------------------------- MODULE MCAuthSessions ---------------------------
(* Instances of AuthSessions for TLC. *)
EXTENDS AuthSessions, TLC

CONSTANTS u1

\* Every device belongs to the one user of the instance.
MCOwner == [d \in Devices |-> u1]

Symmetry == Permutations(Requests) \cup Permutations(Devices)
=============================================================================
