----------------------------- MODULE MCCheckout -----------------------------
(***************************************************************************)
(* A customer with up to two saved addresses in two zones and a third to   *)
(* be added, one order, and another customer.                              *)
(***************************************************************************)
EXTENDS Checkout

CONSTANTS a1, a2, a3, o1, me, you, k1, k2, r1, r2, c1, c2

MCSaved == <<a1, a2>>
MCZone == [a \in Ids |-> IF a = a1 THEN "metro" ELSE IF a = a2 THEN "lima" ELSE "other"]

\* The slots, and the codes, are interchangeable.
Symmetry == Permutations(Clicks) \cup Permutations(Requests)

=============================================================================
