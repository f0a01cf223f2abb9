---------------------------- MODULE MCInventory ----------------------------
(***************************************************************************)
(* A small instance of Inventory: two SKUs, an order of both, an order     *)
(* that wants two units of one of them, and an order that competes for the *)
(* other.                                                                  *)
(***************************************************************************)
EXTENDS StockTwin

CONSTANTS o1, o2, o3, a, b

MCOrders == {o1, o2, o3}
MCSkus   == {a, b}
MCLines  == [o \in MCOrders |->
              [s \in MCSkus |-> CASE o = o1 -> 1
                                  [] o = o2 /\ s = a -> 2
                                  [] o = o3 /\ s = b -> 1
                                  [] OTHER -> 0]]
MCStockLevels == {0, 2}

=============================================================================
