--------------------------- MODULE MCIdempotency ---------------------------
(***************************************************************************)
(* Instances of Idempotency: four requests with one key, one of them with  *)
(* a payload of its own.                                                   *)
(***************************************************************************)
EXTENDS Idempotency

CONSTANTS r1, r2, r3, r4, pay, other

MCPayload == [r \in Requests |-> IF r = r2 THEN other ELSE pay]

=============================================================================
