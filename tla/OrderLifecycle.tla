--------------------------- MODULE OrderLifecycle ---------------------------
(***************************************************************************)
(* What a customer may count on: an order is decided at most once, and the *)
(* services only ever follow the decision.  Stock is sold and the parcel   *)
(* is sent only after the order was paid, stock is returned only after it  *)
(* was closed or given up, and no service takes back what it did.          *)
(*                                                                         *)
(* The services do not promise it for every order.  An order that met one  *)
(* of the interleavings they leave unguarded is void, for good, and about  *)
(* a void order nothing is promised.                                       *)
(***************************************************************************)
CONSTANT Orders

VARIABLES
  verdict,   \* "none", "paid", "closed", "abandoned" or "void"
  stock,     \* "free", "held", "sold" or "returned"
  shown,     \* what the customer sees: "NONE", "PENDING_PAYMENT", ...
  sent       \* orders with a shipment

vars == <<verdict, stock, shown, sent>>

Init ==
  /\ verdict = [o \in Orders |-> "none"]
  /\ stock = [o \in Orders |-> "free"]
  /\ shown = [o \in Orders |-> "NONE"]
  /\ sent = {}

\* One order moves; the others stay.
Move(o, v, k, w) ==
  /\ verdict' = [verdict EXCEPT ![o] = v]
  /\ stock' = [stock EXCEPT ![o] = k]
  /\ shown' = [shown EXCEPT ![o] = w]

Hold(o) ==
  /\ verdict[o] = "none" /\ stock[o] = "free"
  /\ Move(o, "none", "held", shown[o])
  /\ UNCHANGED sent

Place(o) ==
  /\ verdict[o] = "none" /\ stock[o] = "held" /\ shown[o] = "NONE"
  /\ Move(o, "none", "held", "PENDING_PAYMENT")
  /\ UNCHANGED sent

\* The decision: a payment is approved or closed.
Decide(o) ==
  /\ verdict[o] = "none" /\ shown[o] = "PENDING_PAYMENT"
  /\ \E v \in {"paid", "closed"} : Move(o, v, stock[o], shown[o])
  /\ UNCHANGED sent

\* The creation broke off, and what it held is given back.
GiveUp(o) ==
  /\ verdict[o] = "none" /\ stock[o] = "held"
  /\ Move(o, "abandoned", "returned", shown[o])
  /\ UNCHANGED sent

\* The services follow, each in its own time.
Settle(o) ==
  /\ stock[o] = "held" /\ verdict[o] \in {"paid", "closed"}
  /\ Move(o, verdict[o], IF verdict[o] = "paid" THEN "sold" ELSE "returned", shown[o])
  /\ UNCHANGED sent

Show(o) ==
  /\ shown[o] = "PENDING_PAYMENT" /\ verdict[o] \in {"paid", "closed"}
  /\ Move(o, verdict[o], stock[o], IF verdict[o] = "paid" THEN "PAID" ELSE "CANCELLED")
  /\ UNCHANGED sent

Send(o) ==
  /\ verdict[o] = "paid" /\ o \notin sent
  /\ sent' = sent \cup {o}
  /\ UNCHANGED <<verdict, stock, shown>>

\* One interleaving can void several orders: a sweep reads all that are overdue.
Void(S) ==
  /\ verdict' = [o \in Orders |-> IF o \in S THEN "void" ELSE verdict[o]]
  /\ stock' = [o \in Orders |-> IF o \in S THEN "free" ELSE stock[o]]
  /\ shown' = [o \in Orders |-> IF o \in S THEN "NONE" ELSE shown[o]]
  /\ sent' = sent \ S

Next ==
  \/ \E o \in Orders : \/ Hold(o) \/ Place(o) \/ Decide(o) \/ GiveUp(o)
                       \/ Settle(o) \/ Show(o) \/ Send(o)
  \/ \E S \in SUBSET Orders : Void(S)

Spec == Init /\ [][Next]_vars

=============================================================================
