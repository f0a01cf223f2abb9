----------------------------- MODULE MCAccounts -----------------------------
(***************************************************************************)
(* Two gateway processes and three customers: two want one name, the third *)
(* the name of the demo customer.                                          *)
(***************************************************************************)
EXTENDS Accounts

CONSTANTS g1, g2, c1, c2, c3

MCWanted == [c \in Customers |-> IF c = c3 THEN "demo" ELSE "ana"]
MCConfigured ==
  [g \in Gateways |-> [id \in FixedIds |-> IF id = "admin-001" THEN "boss" ELSE "demo"]]

=============================================================================
