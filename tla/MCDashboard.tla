---------------------------- MODULE MCDashboard ----------------------------
(***************************************************************************)
(* Instances of Dashboard: a YAPE order of one SKU.                        *)
(***************************************************************************)
EXTENDS Dashboard

CONSTANTS yape, a, c1, w1

MCLines  == [o \in Orders |-> [s \in Skus |-> 1]]
MCMethod == [o \in Orders |-> "YAPE"]

=============================================================================
