---------------------------- MODULE MCStorefront ----------------------------
(***************************************************************************)
(* Two tabs of a browser that two people use one after the other.          *)
(***************************************************************************)
EXTENDS Storefront, TLC

CONSTANTS t1, t2, ana, ben, p1, k1, k2

\* Tabs, people and slots are interchangeable; nothing here is about liveness.
MCSymmetry == Permutations(Tabs) \cup Permutations(Users) \cup Permutations(Calls)

=============================================================================
