---------------------------- MODULE MCOrderSaga ----------------------------
(***************************************************************************)
(* Instances of OrderSaga: an AUTO order and a YAPE order of one SKU.      *)
(***************************************************************************)
EXTENDS OrderSaga

CONSTANTS auto, yape, a, c1, w1

MCLines  == [o \in Orders |-> [s \in Skus |-> 1]]
MCMethod == [o \in Orders |-> IF o = auto THEN "AUTO" ELSE "YAPE"]

=============================================================================
