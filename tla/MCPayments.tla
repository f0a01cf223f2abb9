----------------------------- MODULE MCPayments -----------------------------
(***************************************************************************)
(* Instances of Payments: one AUTO order and one YAPE order, a few         *)
(* requests, and the sweep.                                                *)
(***************************************************************************)
EXTENDS Payments

CONSTANTS auto, yape, c1, c2, w1

MCMethod == [o \in Orders |-> IF o = auto THEN "AUTO" ELSE "YAPE"]

=============================================================================
