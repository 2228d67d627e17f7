--------------------------- MODULE MCIdempotency ---------------------------
(* An instance of Idempotency for TLC: deliveries of one key, of which r3 has *)
(* another body.                                                              *)
EXTENDS Idempotency

CONSTANTS r1, r2, r3, k1, b1, b2

MCKeyOf  == [r \in Requests |-> k1]
MCBodyOf == [r \in Requests |-> IF r = r3 THEN b2 ELSE b1]
=============================================================================
