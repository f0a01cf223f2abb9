--------------------------- MODULE MCInventoryTx ---------------------------
(***************************************************************************)
(* An instance of InventoryTx: two orders of the same two SKUs, requested  *)
(* in opposite orders.                                                     *)
(***************************************************************************)
EXTENDS InventoryTx

CONSTANTS o1, o2, a, b, t1, t2

MCLines   == [o \in {o1, o2} |-> [s \in {a, b} |-> 1]]
MCRequest == [o \in {o1, o2} |-> IF o = o1 THEN <<a, b>> ELSE <<b, a>>]
MCByKey   == <<a, b>>

=============================================================================
