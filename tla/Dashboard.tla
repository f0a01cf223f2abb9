----------------------------- MODULE Dashboard -----------------------------
(***************************************************************************)
(* The administrator's dashboard (useAdminDashboardData.ts) beside the     *)
(* saga.  Opening it sends GET /admin/orders and GET /admin/payments, to   *)
(* two services with databases of their own, at once; from the two answers *)
(* it tells which orders and payments do not fit together.  The saga goes  *)
(* on meanwhile and afterwards, and the page does not read again.          *)
(***************************************************************************)
EXTENDS OrderSaga

VARIABLE dashboard   \* what loadDashboard has been answered, then what is shown

Unread == {"unread"}

DashboardInit ==
  /\ Init
  /\ dashboard = [shown |-> FALSE, paid |-> Unread, approved |-> Unread]

\* Of the two answers only what reconciliation looks at is kept: paidOrders
\* and approvedPayments.
PaidOrders == {o \in Orders : order[o] = "PAID"}

Mutant_ApprovedPayments == {o \in Orders : payment[o] # "NONE"}
ApprovedPayments == {o \in Orders : payment[o] = "APPROVED"}

-----------------------------------------------------------------------------
(* loadDashboard: Promise.all, its answers in any order.                   *)

GetAllOrders ==
  /\ ~dashboard.shown /\ dashboard.paid = Unread
  /\ dashboard' = [dashboard EXCEPT !.paid = PaidOrders]
  /\ UNCHANGED vars

GetAllPayments ==
  /\ ~dashboard.shown /\ dashboard.approved = Unread
  /\ dashboard' = [dashboard EXCEPT !.approved = ApprovedPayments]
  /\ UNCHANGED vars

\* Of what is shown, what does not fit.
Reconciliation(paid, approved) ==
  [shown |-> TRUE,
   paidOrdersWithoutPayment     |-> paid \ approved,
   approvedPaymentsWithoutOrder |-> approved \ paid]

LoadDashboard ==
  /\ ~dashboard.shown /\ dashboard.paid # Unread /\ dashboard.approved # Unread
  /\ dashboard' = Reconciliation(dashboard.paid, dashboard.approved)
  /\ UNCHANGED vars

DashboardNext ==
  \/ Next /\ UNCHANGED dashboard
  \/ GetAllOrders \/ GetAllPayments \/ LoadDashboard

DashboardSpec == DashboardInit /\ [][DashboardNext]_<<vars, dashboard>> /\ Fairness

-----------------------------------------------------------------------------
(* Properties.                                                             *)

\* What the dashboard reports is either no discrepancy any more or one that
\* the saga is about to settle, although the page compares two services that
\* it did not read at the same moment: a paid order without a payment has been
\* paid for, and an approved payment will make its order paid, unless its
\* announcement was lost.  Said of orders to which nothing unguarded happened.
ReportsSettle ==
  dashboard.shown =>
    /\ \A o \in dashboard.paidOrdersWithoutPayment \cap Guarded : payment[o] = "APPROVED"
    /\ \A o \in dashboard.approvedPaymentsWithoutOrder \cap Guarded :
         \/ order[o] = "PAID" \/ Unheard(o)
         \/ <<o, "APPROVED">> \in todo["orders"] \cup Pay!InFlight

=============================================================================
