----------------------------- MODULE OrderSaga -----------------------------
(***************************************************************************)
(* An order across its services: orders reserves stock with a call to      *)
(* inventory, saves the order and publishes order.created; payments        *)
(* (Payments) answers in its own time with payment.approved, .failed or    *)
(* .expired; and the orders, inventory (Inventory) and shipping consumers  *)
(* each act on those events on their own.                                  *)
(*                                                                         *)
(* Each outcome has a topic of its own, so a consumer group may see them   *)
(* in any order, and any of them again.  An order has a single id: a       *)
(* redelivered create_order draws a fresh one, so it is another order.     *)
(* The catalog stays as it is; administrators restock.                     *)
(***************************************************************************)
EXTENDS Integers, FiniteSets, Sequences

CONSTANTS Orders, Skus, Lines, StockLevels,  \* Inventory
          Method, Calls, Sweeps, MaxFaults   \* Payments

\* An order has at least one line of at least one unit (CreateOrderDto).
ASSUME SagaAssumption ==
  /\ IsFiniteSet(Orders)
  /\ Lines \in [Orders -> [Skus -> Nat]]
  /\ \A o \in Orders : \E s \in Skus : Lines[o][s] > 0
  /\ StockLevels \subseteq Nat
  /\ Method \in [Orders -> {"AUTO", "YAPE"}]
  /\ MaxFaults \in Nat

VARIABLES
  rows, onHand, reserved, active, status, ledger, answer, orphaned, lowered,
  payment, due, inbox, calls, sweeps, published, lost, raced, notified,
  revived, faults,
  order,      \* orders.status, or "NONE"
  creating,   \* where CreateOrderUseCase is
  todo,       \* per consumer group: the outcome events it still has to handle
  shipped,    \* orders with a row in shipments
  torn        \* history: orders whose creator saw an error after the event left

Inv == INSTANCE Inventory
Pay == INSTANCE Payments

invVars  == <<rows, onHand, reserved, active, status, ledger, answer, orphaned, lowered>>
taints   == <<raced, notified, revived>>
payVars  == <<payment, due, inbox, calls, sweeps, published, lost, taints, faults>>
sagaVars == <<order, creating, todo, shipped, torn>>
vars == <<invVars, payVars, sagaVars>>

Groups == {"orders", "inventory", "shipping"}

Init ==
  /\ Inv!Init
  /\ Pay!Init
  /\ order = [o \in Orders |-> "NONE"]
  /\ creating = [o \in Orders |-> "idle"]
  /\ todo = [g \in Groups |-> {}]
  /\ shipped = {}
  /\ torn = {}

-----------------------------------------------------------------------------
(* CreateOrderUseCase.                                                     *)

Creating(o, from, to) ==
  /\ creating[o] = from
  /\ creating' = [creating EXCEPT ![o] = to]

\* inventory.reserve_items, and its reply.
Mutant_CreateReserve(o) ==
  /\ Inv!Reserve(o)
  /\ Creating(o, "idle", IF answer'[o] # "failed" THEN "save" ELSE "done")
  /\ UNCHANGED <<payVars, order, todo, shipped, torn>>
CreateReserve(o) ==
  /\ Inv!Reserve(o)
  /\ Creating(o, "idle", IF answer'[o] = "reserved" THEN "save" ELSE "done")
  /\ UNCHANGED <<payVars, order, todo, shipped, torn>>

CreateSave(o) ==
  /\ Creating(o, "save", "publish")
  /\ order' = [order EXCEPT ![o] = "PENDING_PAYMENT"]
  /\ UNCHANGED <<invVars, payVars, todo, shipped, torn>>

CreateSaveFails(o) ==
  /\ Pay!Fault
  /\ Creating(o, "save", "undo")
  /\ UNCHANGED <<invVars, payment, due, inbox, calls, sweeps, published, lost, taints>>
  /\ UNCHANGED <<order, todo, shipped, torn>>

CreatePublish(o) ==
  /\ Creating(o, "publish", "done")
  /\ Pay!OrderCreated(o)
  /\ UNCHANGED <<invVars, order, todo, shipped, torn>>

\* emit fails, and the event may have reached the broker all the same.
CreatePublishFails(o) ==
  /\ Pay!Fault
  /\ Creating(o, "publish", "undo")
  /\ \/ UNCHANGED <<inbox, torn>>
     \/ inbox' = [inbox EXCEPT ![o] = "waiting"] /\ torn' = torn \cup {o}
  /\ UNCHANGED <<invVars, payment, due, calls, sweeps, published, lost, taints>>
  /\ UNCHANGED <<order, todo, shipped>>

\* The catch block: inventory.release_reservation.  The order stays.
CreateUndo(o) ==
  /\ Creating(o, "undo", "undone")
  /\ Inv!SettleDone(o, "RELEASED")
  /\ UNCHANGED <<payVars, order, todo, shipped, torn>>

\* The orders service dies in the middle of it.
CreateCrash(o) ==
  /\ creating[o] \in {"save", "publish", "undo"}
  /\ Pay!Fault
  /\ creating' = [creating EXCEPT ![o] = "dead"]
  /\ UNCHANGED <<invVars, payment, due, inbox, calls, sweeps, published, lost, taints>>
  /\ UNCHANGED <<order, todo, shipped, torn>>

Create(o) == CreateReserve(o) \/ CreateSave(o) \/ CreatePublish(o) \/ CreateUndo(o)

-----------------------------------------------------------------------------
(* Payments at work: its outcomes go to every group that listens.          *)

Listens(g, e) == g = "shipping" => e[2] = "APPROVED"

Deliver(events) ==
  todo' = [g \in Groups |-> todo[g] \cup {e \in events : Listens(g, e)}]

Quietly == UNCHANGED <<invVars, sagaVars>>

Announcing(events) ==
  Deliver(events) /\ UNCHANGED <<invVars, order, creating, shipped, torn>>

PayConsumer(o) ==
  \/ (Pay!ProcessRead(o) \/ Pay!ProcessSave(o)) /\ Quietly
  \/ Pay!ProcessPublish(o) /\ Announcing({<<o, "APPROVED">>})

PayRequest(c, o) ==
  /\ \/ Pay!ConfirmYape(c, o) \/ Pay!FailYape(c, o) \/ Pay!ExpireYape(c, o)
     \/ Pay!CulqiWebhook(c, o)
     \/ Pay!CreateCharge(c, o)
  /\ Quietly

PayContinue(c) ==
  \/ (Pay!ChargeAnswered(c) \/ Pay!ChargeErrored(c) \/ Pay!Update(c)) /\ Quietly
  \/ Pay!Publish(c) /\ Announcing({<<calls[c].order, calls[c].write>>})

PaySweep(w) ==
  \/ (Pay!SweepRead(w) \/ Pay!SweepUpdate(w)) /\ Quietly
  \/ Pay!SweepPublish(w) /\ Announcing(sweeps[w].announce \X {"EXPIRED"})

PayAge(o) == Pay!Age(o) /\ Quietly

PayFails ==
  /\ \/ \E c \in Calls : Pay!PublishFails(c)
     \/ \E w \in Sweeps : Pay!SweepPublishFails(w)
     \/ \E o \in Orders : Pay!ProcessPublishFails(o)
     \/ Pay!Crash
  /\ Quietly

-----------------------------------------------------------------------------
(* The consumers of the outcomes.                                          *)

Handled(g, e) == e \in todo[g] /\ todo' = [todo EXCEPT ![g] = @ \ {e}]

Mutant_OrderStatus(outcome) == IF outcome = "EXPIRED" THEN "PENDING_PAYMENT"
                               ELSE IF outcome = "APPROVED" THEN "PAID" ELSE "CANCELLED"
OrderStatus(outcome) == IF outcome = "APPROVED" THEN "PAID" ELSE "CANCELLED"

\* MarkOrderPaidUseCase and CancelOrderUseCase, whatever the status was.
OrdersConsume(o, outcome) ==
  /\ Handled("orders", <<o, outcome>>)
  /\ order[o] # "NONE"
  /\ order' = [order EXCEPT ![o] = OrderStatus(outcome)]
  /\ UNCHANGED <<invVars, payVars, creating, shipped, torn>>

Mutant_Target(outcome) == IF outcome = "EXPIRED" THEN "CONFIRMED" ELSE
                          IF outcome = "APPROVED" THEN "CONFIRMED" ELSE "RELEASED"
Target(outcome) == IF outcome = "APPROVED" THEN "CONFIRMED" ELSE "RELEASED"

Mutant_InventoryConsume(o, outcome) ==
  /\ Handled("inventory", <<o, outcome>>)
  /\ IF outcome = "FAILED" THEN UNCHANGED invVars ELSE Inv!SettleDone(o, Target(outcome))
  /\ UNCHANGED <<payVars, order, creating, shipped, torn>>
InventoryConsume(o, outcome) ==
  /\ Handled("inventory", <<o, outcome>>)
  /\ Inv!SettleDone(o, Target(outcome))
  /\ UNCHANGED <<payVars, order, creating, shipped, torn>>

\* CreateShipmentUseCase: one row per payment.
ShippingConsume(o) ==
  /\ Handled("shipping", <<o, "APPROVED">>)
  /\ shipped' = shipped \cup {o}
  /\ UNCHANGED <<invVars, payVars, order, creating, torn>>

Consume ==
  \/ \E o \in Orders, outcome \in Pay!Outcomes :
       OrdersConsume(o, outcome) \/ InventoryConsume(o, outcome)
  \/ \E o \in Orders : ShippingConsume(o)

\* A group that restarts gets again what it had handled.
Redeliver(g, e) ==
  /\ e \in published \ todo[g] /\ Listens(g, e)
  /\ Pay!Fault
  /\ todo' = [todo EXCEPT ![g] = @ \cup {e}]
  /\ UNCHANGED <<invVars, payment, due, inbox, calls, sweeps, published, lost, taints>>
  /\ UNCHANGED <<order, creating, shipped, torn>>

-----------------------------------------------------------------------------
(* RetryPaymentUseCase, and restocking.                                    *)

\* The order must be a cancelled YAPE order.  Its second reservation never
\* succeeds (NeverReservedAgain), so what follows it is not modelled.
RetryPayment(o) ==
  /\ Method[o] = "YAPE" /\ order[o] = "CANCELLED"
  /\ Inv!Reserve(o)
  /\ UNCHANGED <<payVars, order, creating, todo, shipped, torn>>

Restock(s, n) ==
  /\ n > onHand[s]
  /\ Inv!UpsertItem(s, n, TRUE)
  /\ UNCHANGED <<payVars, sagaVars>>

Next ==
  \/ \E o \in Orders : Create(o) \/ CreateSaveFails(o) \/ CreatePublishFails(o) \/ CreateCrash(o)
  \/ \E o \in Orders : PayConsumer(o) \/ PayAge(o) \/ RetryPayment(o)
  \/ \E c \in Calls, o \in Orders : PayRequest(c, o)
  \/ \E c \in Calls : PayContinue(c)
  \/ \E w \in Sweeps : PaySweep(w)
  \/ PayFails
  \/ Consume
  \/ \E g \in Groups, e \in published : Redeliver(g, e)
  \/ \E s \in Skus, n \in StockLevels : Restock(s, n)

Spec == Init /\ [][Next]_vars

\* The services go on with what they began, the consumers poll, time passes,
\* and the worker's timer keeps starting the sweep.
Fairness ==
  /\ \A o \in Orders : /\ WF_vars(creating[o] # "idle" /\ Create(o))
                       /\ WF_vars(PayConsumer(o))
                       /\ WF_vars(PayAge(o))
  /\ \A c \in Calls : WF_vars(PayContinue(c))
  /\ \A w \in Sweeps : WF_vars(PaySweep(w))
  /\ WF_vars(Consume)

-----------------------------------------------------------------------------
(* Properties.                                                             *)

Held(o) == \E s \in Inv!SkusOf(o) : status[o][s] = "RESERVED"
Settled(o, target) == \A s \in Inv!SkusOf(o) : status[o][s] = target
Outcomes(o) == {e \in Pay!Outcomes : <<o, e>> \in published}

\* The outcome of the order's payment never left the payments service, or its
\* order.created never came.
Unheard(o) == \/ creating[o] \in {"undo", "undone", "dead"}
              \/ \E e \in Pay!Outcomes : <<o, e>> \in lost

\* Stock that is held is held for somebody: its order is being created, its
\* payment is open, or the event that will settle it is on its way.
HeldStockClaimed ==
  \A o \in Orders : Held(o) =>
    \/ creating[o] \in {"save", "publish"} \/ Unheard(o)
    \/ inbox[o] \in {"waiting", "save"} \/ payment[o] = "PENDING"
    \/ \E e \in Pay!Outcomes : <<o, e>> \in todo["inventory"] \cup Pay!InFlight

\* Orders whose payment only went through the status guards: its handlers did
\* not overlap, no notification came, and nothing paid it after it had closed;
\* and whose creator was not told of an error after order.created had left.
Guarded == Orders \ (raced \cup notified \cup revived \cup torn)

\* For those, the order and its stock never tell different stories, in
\* whatever order the groups get the events and however often.
OrderMatchesStock ==
  \A o \in Guarded :
    /\ order[o] = "PAID" => Settled(o, "CONFIRMED") \/ Held(o)
    /\ order[o] = "CANCELLED" => Settled(o, "RELEASED") \/ Held(o)
    /\ o \in shipped => ~Settled(o, "RELEASED")

\* For those the saga implements OrderLifecycle: the first outcome announced
\* decides the order, each service follows it at most once and none goes back.
Verdict(o) ==
  IF o \notin Guarded THEN "void"
  ELSE IF creating[o] = "undone" THEN "abandoned"
  ELSE IF Outcomes(o) = {} THEN "none"
  ELSE IF "APPROVED" \in Outcomes(o) THEN "paid" ELSE "closed"

Stock(o) ==
  CASE Held(o) -> "held"
    [] ~Held(o) /\ Settled(o, "CONFIRMED") -> "sold"
    [] ~Held(o) /\ Settled(o, "RELEASED") -> "returned"
    [] OTHER -> "free"

Life == INSTANCE OrderLifecycle WITH
  verdict <- [o \in Orders |-> Verdict(o)],
  stock   <- [o \in Orders |-> IF o \in Guarded THEN Stock(o) ELSE "free"],
  shown   <- [o \in Orders |-> IF o \in Guarded THEN order[o] ELSE "NONE"],
  sent    <- shipped \cap Guarded

FollowsLifecycle == Life!Spec

\* For those, once every event about the order is handled, the four services
\* agree.
ServicesAgree ==
  \A o \in Guarded :
    (/\ Outcomes(o) # {} /\ ~Unheard(o)
     /\ \A g \in Groups, e \in Pay!Outcomes : <<o, e>> \notin todo[g] \cup Pay!InFlight)
    => IF payment[o] = "APPROVED"
         THEN order[o] = "PAID" /\ Settled(o, "CONFIRMED") /\ o \in shipped
         ELSE order[o] = "CANCELLED" /\ Settled(o, "RELEASED") /\ o \notin shipped

\* Whoever has an order has its reservation rows, for good: what RetryPayment
\* reserves again breaks the primary key, and never succeeds.
NeverReservedAgain ==
  \A o \in Orders : order[o] # "NONE" =>
    \A s \in Inv!SkusOf(o) : Inv!DuplicateRow(o, s)

\* An order does not wait for its payment for ever, unless an announcement
\* was lost or its creation broke off.
OrderDecided ==
  \A o \in Orders :
    order[o] = "PENDING_PAYMENT" ~> order[o] # "PENDING_PAYMENT" \/ Unheard(o)

\* Stock does not stay held for ever, under the same conditions.
StockFreed == \A o \in Orders : Held(o) ~> ~Held(o) \/ Unheard(o)

=============================================================================
