----------------------------- MODULE MCShipping -----------------------------
(***************************************************************************)
(* Instances of Shipping: approvals that can be duplicates of each other,  *)
(* and requests enough to overtake each other.                             *)
(***************************************************************************)
EXTENDS Shipping

CONSTANTS p, q, d1, d2, u1, u2, u3

=============================================================================
