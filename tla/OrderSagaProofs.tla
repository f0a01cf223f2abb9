-------------------------- MODULE OrderSagaProofs --------------------------
(***************************************************************************)
(* Proofs about OrderSaga, for any orders, lines, stock levels, requests,  *)
(* sweeps and faults: its invariants of an order across the services, the  *)
(* refinement of OrderLifecycle, and what Dashboard reports beside it.     *)
(*                                                                         *)
(* The invariant SagaInv has three layers: what InventoryProofs and        *)
(* PaymentsProofs prove of the components, used here through INSTANCE; the *)
(* types of the saga's own variables; and OrderInv, which says of every    *)
(* order what its creation, the events about it and the consumers have     *)
(* left in each service.  Almost every step moves one order, and Still     *)
(* says that the others stay, so that a step is settled by what it does to *)
(* its own order: it keeps OrderInv and OrderLifecycle sees one of its     *)
(* actions, or nothing (Follows).  Steps that taint orders void them.      *)
(***************************************************************************)
EXTENDS Dashboard, TLAPS

\* The saga has the repository on Postgres only, no in-memory one.
PP == INSTANCE PaymentsProofs
IP == INSTANCE InventoryProofs WITH memory <- <<>>

-----------------------------------------------------------------------------
(* The components' proofs apply: their assumptions hold, and the steps of  *)
(* OrderSaga are the steps those proofs are about.                         *)

\* The components' assumptions hold.
LEMMA ComponentsAssumed == PP!PaymentsAssumption /\ IP!InventoryAssumption
BY SagaAssumption
   DEF PP!PaymentsAssumption, IP!InventoryAssumption, IsFiniteSet, IP!IsFiniteSet

\* What the saga does to the stock, InventoryProofs calls by the same name.
LEMMA SameInventory ==
  /\ Inv!Init => IP!Init
  /\ \A o \in Orders : Inv!Reserve(o) => IP!Reserve(o)
  /\ \A o \in Orders, t \in {"CONFIRMED", "RELEASED"} : Inv!SettleDone(o, t) => IP!SettleDone(o, t)
  /\ \A s \in Skus, n \in StockLevels : Inv!UpsertItem(s, n, TRUE) => IP!UpsertItem(s, n, TRUE)
BY DEF Inv!Init, IP!Init, Inv!Reserve, IP!Reserve, Inv!SettleDone, IP!SettleDone,
       Inv!UpsertItem, IP!UpsertItem,
       Inv!ReserveAccepted, IP!ReserveAccepted, Inv!ReserveRejected, IP!ReserveRejected,
       Inv!ReserveFailed, IP!ReserveFailed, Inv!CanReserve, IP!CanReserve,
       Inv!DuplicateRow, IP!DuplicateRow, Inv!Available, IP!Available, Inv!SkusOf, IP!SkusOf,
       Inv!ReserveLines, IP!ReserveLines, Inv!Answer, IP!Answer, Inv!KeepsChecks, IP!KeepsChecks,
       Inv!HeldSkus, IP!HeldSkus, Inv!Movement, IP!Movement, Inv!TakeHeld, IP!TakeHeld,
       Inv!stockVars, IP!stockVars, Inv!recordVars, IP!recordVars, Inv!historyVars, IP!historyVars

\* So does PaymentsProofs with what it does to the payments.
LEMMA SamePayments ==
  /\ Pay!Init => PP!Init
  /\ \A o \in Orders : Pay!OrderCreated(o) => PP!OrderCreated(o)
  /\ \A o \in Orders : Pay!Process(o) => PP!Process(o)
  /\ \A o \in Orders : Pay!ProcessPublishFails(o) => PP!ProcessPublishFails(o)
  /\ \A o \in Orders : Pay!Age(o) => PP!Age(o)
  /\ \A c \in Calls, o \in Orders : Pay!Request(c, o) => PP!Request(c, o)
  /\ \A c \in Calls : Pay!Continue(c) => PP!Continue(c)
  /\ \A c \in Calls : Pay!PublishFails(c) => PP!PublishFails(c)
  /\ \A w \in Sweeps : Pay!Sweep(w) => PP!Sweep(w)
  /\ \A w \in Sweeps : Pay!SweepPublishFails(w) => PP!SweepPublishFails(w)
  /\ Pay!Crash => PP!Crash
<1>1. Pay!Init => PP!Init
  BY DEF Pay!Init, PP!Init, Pay!Idle, PP!Idle, Pay!Ready, PP!Ready
<1>2. \A o \in Orders : Pay!OrderCreated(o) => PP!OrderCreated(o)
  BY DEF Pay!OrderCreated, PP!OrderCreated, Pay!dbVars, PP!dbVars, Pay!taints, PP!taints
<1>3. \A o \in Orders : Pay!Process(o) => PP!Process(o)
  BY DEF Pay!Process, PP!Process, Pay!ProcessRead, PP!ProcessRead, Pay!ProcessSave,
         PP!ProcessSave, Pay!ProcessPublish, PP!ProcessPublish, Pay!FirstStatus,
         PP!FirstStatus, Pay!Write, PP!Write, Pay!dbVars, PP!dbVars, Pay!taints,
         PP!taints
<1>4. \A o \in Orders : Pay!ProcessPublishFails(o) => PP!ProcessPublishFails(o)
  BY DEF Pay!ProcessPublishFails, PP!ProcessPublishFails, Pay!Fault, PP!Fault,
         Pay!dbVars, PP!dbVars, Pay!taints, PP!taints
<1>5. \A o \in Orders : Pay!Age(o) => PP!Age(o)
  BY DEF Pay!Age, PP!Age, Pay!taints, PP!taints
<1>6. \A c \in Calls, o \in Orders : Pay!Request(c, o) => PP!Request(c, o)
  BY DEF Pay!Request, PP!Request, Pay!ConfirmYape, PP!ConfirmYape, Pay!FailYape,
         PP!FailYape, Pay!ExpireYape, PP!ExpireYape, Pay!RetryYape, PP!RetryYape,
         Pay!CreateCharge, PP!CreateCharge, Pay!CulqiWebhook, PP!CulqiWebhook,
         Pay!Begin, PP!Begin, Pay!RowHeld, PP!RowHeld, Pay!Yape, PP!Yape, Pay!InGateway,
         PP!InGateway, Pay!ToWrite, PP!ToWrite, Pay!Ready, PP!Ready, Pay!Closed,
         PP!Closed, Pay!Outcomes, PP!Outcomes, Pay!dbVars, PP!dbVars
<1>7. \A c \in Calls : Pay!Continue(c) => PP!Continue(c)
  BY DEF Pay!Continue, PP!Continue, Pay!ChargeAnswered, PP!ChargeAnswered,
         Pay!ChargeErrored, PP!ChargeErrored, Pay!Update, PP!Update, Pay!Publish,
         PP!Publish, Pay!ToWrite, PP!ToWrite, Pay!Done, PP!Done, Pay!Write, PP!Write,
         Pay!Outcomes, PP!Outcomes, Pay!dbVars, PP!dbVars, Pay!taints, PP!taints
<1>8. \A c \in Calls : Pay!PublishFails(c) => PP!PublishFails(c)
  BY DEF Pay!PublishFails, PP!PublishFails, Pay!Fault, PP!Fault, Pay!Done, PP!Done,
         Pay!dbVars, PP!dbVars, Pay!taints, PP!taints
<1>9. \A w \in Sweeps : Pay!Sweep(w) => PP!Sweep(w)
  BY DEF Pay!Sweep, PP!Sweep, Pay!SweepRead, PP!SweepRead, Pay!SweepUpdate,
         PP!SweepUpdate, Pay!SweepPublish, PP!SweepPublish, Pay!Overdue, PP!Overdue,
         Pay!RowHeld, PP!RowHeld, Pay!Yape, PP!Yape, Pay!Write, PP!Write, Pay!Idle,
         PP!Idle, Pay!dbVars, PP!dbVars, Pay!taints, PP!taints
<1>10. \A w \in Sweeps : Pay!SweepPublishFails(w) => PP!SweepPublishFails(w)
  BY DEF Pay!SweepPublishFails, PP!SweepPublishFails, Pay!Fault, PP!Fault, Pay!Idle,
         PP!Idle, Pay!dbVars, PP!dbVars, Pay!taints, PP!taints
<1>11. Pay!Crash => PP!Crash
  BY DEF Pay!Crash, PP!Crash, Pay!Fault, PP!Fault, Pay!InFlight, PP!InFlight, Pay!Ready,
         PP!Ready, Pay!Done, PP!Done, Pay!Idle, PP!Idle, Pay!dbVars, PP!dbVars,
         Pay!taints, PP!taints
<1> QED
  BY <1>1, <1>2, <1>3, <1>4, <1>5, <1>6, <1>7, <1>8, <1>9, <1>10, <1>11

-----------------------------------------------------------------------------
(* The invariant.                                                          *)

SagaType ==
  /\ order \in [Orders -> {"NONE", "PENDING_PAYMENT", "PAID", "CANCELLED"}]
  /\ creating \in [Orders -> {"idle", "save", "publish", "done", "undo", "undone", "dead"}]
  /\ published \subseteq Orders \X Pay!Outcomes
  /\ todo \in [Groups -> SUBSET published]
  /\ \A w \in Sweeps : \A o \in sweeps[w].announce : sweeps[w].announce = {o}

\* Where the creation of the order is, and what it has left behind.
Created(o) ==
  /\ creating[o] \in {"idle", "save"} => order[o] = "NONE"
  /\ creating[o] = "publish" => order[o] # "NONE"
  /\ creating[o] = "done" => (order[o] = "NONE" <=> inbox[o] = "none")
  /\ creating[o] # "done" /\ inbox[o] # "none" =>
       o \in torn /\ order[o] # "NONE" /\ creating[o] \in {"undo", "undone", "dead"}

\* What the state of the order's lines says of its creation and its outcomes.
Explained(o, st) ==
  /\ st = "NONE" <=> creating[o] = "idle" \/ (creating[o] = "done" /\ order[o] = "NONE")
  /\ st = "RESERVED" =>
       /\ creating[o] # "undone"
       /\ \A e \in Outcomes(o) : <<o, e>> \in todo["inventory"]
  /\ st = "CONFIRMED" => "APPROVED" \in Outcomes(o)
  /\ st = "RELEASED" => creating[o] = "undone" \/ Outcomes(o) \cap Pay!Closed # {}

\* The consumers did no more than the events allow, and no less than the
\* events they have handled ask for.
Followed(o) ==
  /\ order[o] = "PAID" => "APPROVED" \in Outcomes(o)
  /\ order[o] = "CANCELLED" => Outcomes(o) \cap Pay!Closed # {}
  /\ o \in shipped => "APPROVED" \in Outcomes(o)
  /\ \A e \in Outcomes(o) : <<o, e>> \in todo["orders"] \/ order[o] \in {"PAID", "CANCELLED"}
  /\ "APPROVED" \in Outcomes(o) => <<o, "APPROVED">> \in todo["shipping"] \/ o \in shipped

OrderInv(o) ==
  /\ Created(o)
  /\ Followed(o)
  /\ \E st \in Inv!Statuses : Settled(o, st) /\ Explained(o, st)

SagaInv ==
  /\ IP!TypeOK
  /\ PP!PaymentInv
  /\ SagaType
  /\ \A o \in Orders : OrderInv(o)

-----------------------------------------------------------------------------
(* One order at a time.                                                    *)

\* The step leaves everything about the order as it was.
Still(o) ==
  /\ creating'[o] = creating[o] /\ order'[o] = order[o] /\ status'[o] = status[o]
  /\ inbox'[o] = "none" <=> inbox[o] = "none"
  /\ o \in torn' <=> o \in torn
  /\ o \in shipped' <=> o \in shipped
  /\ \A e : <<o, e>> \in published' <=> <<o, e>> \in published
  /\ \A g \in Groups : \A e : <<o, e>> \in todo'[g] <=> <<o, e>> \in todo[g]

\* An order has a line, so its lines are in one state at most.
LEMMA OneState ==
  \A o \in Orders : \A st : /\ Settled(o, st) => (Held(o) <=> st = "RESERVED")
                            /\ \A s : Settled(o, st) /\ Settled(o, s) => s = st
<1>1. \A o \in Orders : \E s \in Skus : s \in Inv!SkusOf(o)
  BY SagaAssumption DEF Inv!SkusOf
<1> QED
  BY <1>1 DEF Settled, Held

\* Such an order keeps its invariant.
LEMMA StillKeeps == ASSUME NEW o \in Orders, OrderInv(o), Still(o) PROVE OrderInv(o)'
<1>1. Outcomes(o)' = Outcomes(o)
  BY DEF Still, Outcomes
<1>2. \A st : Settled(o, st)' <=> Settled(o, st)
  BY DEF Still, Settled
<1>3. Created(o)'
  BY DEF OrderInv, Created, Still
<1>4. Followed(o)'
  BY <1>1 DEF OrderInv, Followed, Still, Groups
<1>5. \A st : Explained(o, st) => Explained(o, st)'
  BY <1>1 DEF Explained, Still, Groups
<1> QED
  BY <1>2, <1>3, <1>4, <1>5 DEF OrderInv

\* A step that moves at most one order.
LEMMA OneKeeps ==
  ASSUME SagaInv, NEW o \in Orders, \A p \in Orders \ {o} : Still(p), OrderInv(o)'
  PROVE  \A p \in Orders : OrderInv(p)'
BY StillKeeps DEF SagaInv

\* A step about no order, seen from the saga.
LEMMA QuietStill ==
  ASSUME UNCHANGED <<status, order, creating, shipped, torn>>,
         UNCHANGED <<published, todo>>, NEW o \in Orders,
         inbox'[o] = "none" <=> inbox[o] = "none"
  PROVE  Still(o)
BY DEF Still

\* What happens when a group handles an event, and when it gets one.
LEMMA HandledEffect ==
  ASSUME SagaType, NEW g \in Groups, NEW e, Handled(g, e), UNCHANGED published
  PROVE  /\ todo' \in [Groups -> SUBSET published]
         /\ \A f \in Groups : \A x : x \in todo'[f] <=> x \in todo[f] /\ ~(f = g /\ x = e)
BY DEF SagaType, Handled

\* A group gets an event it listens to.
LEMMA DeliverEffect ==
  ASSUME SagaType, NEW e, published' = published \cup {e}, Deliver({e})
  PROVE  /\ todo' \in [Groups -> SUBSET published']
         /\ \A f \in Groups : \A x : x \in todo'[f] <=> x \in todo[f] \/ (Listens(f, e) /\ x = e)
BY DEF SagaType, Deliver

-----------------------------------------------------------------------------
(* The creation of an order.                                               *)

\* What one statement of the creation does to the fields of the saga.
LEMMA CreatingEffect ==
  ASSUME SagaType, NEW o \in Orders, NEW from, NEW to, Creating(o, from, to)
  PROVE  /\ creating[o] = from /\ creating'[o] = to
         /\ \A p \in Orders \ {o} : creating'[p] = creating[p]
BY DEF SagaType, Creating

\* Reserve changes the lines of an order only if it has none yet, and then all.
LEMMA ReserveEffect ==
  ASSUME IP!TypeOK, NEW o \in Orders, Inv!Reserve(o)
  PROVE  /\ \A p \in Orders \ {o} : status'[p] = status[p]
         /\ answer'[o] = "reserved" => Settled(o, "NONE") /\ Settled(o, "RESERVED")'
         /\ answer'[o] # "reserved" => status'[o] = status[o]
<1>1. status \in [Orders -> [Skus -> Inv!Statuses]] /\ answer \in [Orders -> Inv!Answers]
  BY DEF IP!TypeOK, IP!Statuses, Inv!Statuses, IP!Answers, Inv!Answers
<1>2. CASE Inv!ReserveAccepted(o)
  <2>1. \A s \in Inv!SkusOf(o) : status[o][s] = "NONE"
    BY <1>2 DEF Inv!ReserveAccepted, Inv!DuplicateRow
  <2>2. /\ status' = [status EXCEPT ![o] =
                        [s \in Skus |-> IF s \in Inv!SkusOf(o) THEN "RESERVED" ELSE status[o][s]]]
        /\ answer' = [answer EXCEPT ![o] = "reserved"]
    BY <1>2 DEF Inv!ReserveAccepted, Inv!ReserveLines, Inv!Answer
  <2>3. Inv!SkusOf(o) \subseteq Skus
    BY DEF Inv!SkusOf
  <2>4. Settled(o, "RESERVED")'
    BY <1>1, <2>2, <2>3 DEF Settled, Inv!SkusOf
  <2> QED
    BY <1>1, <2>1, <2>2, <2>4 DEF Settled
<1>3. CASE Inv!ReserveRejected(o) \/ Inv!ReserveFailed(o)
  BY <1>1, <1>3 DEF Inv!ReserveRejected, Inv!ReserveFailed, Inv!recordVars, Inv!Answer
<1> QED
  BY <1>2, <1>3 DEF Inv!Reserve

\* SettleDone moves the held lines of an order, and only them.
LEMMA SettleEffect ==
  ASSUME IP!TypeOK, NEW o \in Orders, NEW t, Inv!SettleDone(o, t)
  PROVE  /\ \A p \in Orders \ {o} : status'[p] = status[p]
         /\ \A st : Settled(o, st) => Settled(o, IF st = "RESERVED" THEN t ELSE st)'
<1>1. status \in [Orders -> [Skus -> Inv!Statuses]]
  BY DEF IP!TypeOK, IP!Statuses, Inv!Statuses
<1>2. status' = [status EXCEPT ![o] =
                   [s \in Skus |-> IF s \in Inv!HeldSkus(o) THEN t ELSE status[o][s]]]
  BY DEF Inv!SettleDone
<1>3. \A s \in Skus : status'[o][s] = IF status[o][s] = "RESERVED" THEN t ELSE status[o][s]
  BY <1>1, <1>2 DEF Inv!HeldSkus
<1> QED
  BY <1>1, <1>2, <1>3 DEF Settled, Inv!SkusOf

-----------------------------------------------------------------------------
(* What OrderLifecycle sees of the orders.                                 *)

SeenStock(o) == IF o \in Guarded THEN Stock(o) ELSE "free"
SeenOrder(o) == IF o \in Guarded THEN order[o] ELSE "NONE"

Verdicts == [o \in Orders |-> Verdict(o)]
Stocks   == [o \in Orders |-> SeenStock(o)]
Shown    == [o \in Orders |-> SeenOrder(o)]
Sent     == shipped \cap Guarded

\* The step takes the order to this image.
Turns(o, v, k, w) == Verdicts'[o] = v /\ Stocks'[o] = k /\ Shown'[o] = w
SentKept(o) == o \in Sent' <=> o \in Sent

\* OrderLifecycle does not see the step.
Rests(o) == Turns(o, Verdicts[o], Stocks[o], Shown[o]) /\ SentKept(o)

\* OrderLifecycle sees the order take one of its steps, or none.
Follows(o) ==
  \/ Rests(o)
  \/ /\ Verdicts[o] = "none" /\ Stocks[o] = "free"
     /\ Turns(o, "none", "held", Shown[o]) /\ SentKept(o)
  \/ /\ Verdicts[o] = "none" /\ Stocks[o] = "held" /\ Shown[o] = "NONE"
     /\ Turns(o, "none", "held", "PENDING_PAYMENT") /\ SentKept(o)
  \/ /\ Verdicts[o] = "none" /\ Shown[o] = "PENDING_PAYMENT"
     /\ \E v \in {"paid", "closed"} : Turns(o, v, Stocks[o], Shown[o])
     /\ SentKept(o)
  \/ /\ Verdicts[o] = "none" /\ Stocks[o] = "held"
     /\ Turns(o, "abandoned", "returned", Shown[o]) /\ SentKept(o)
  \/ /\ Stocks[o] = "held" /\ Verdicts[o] \in {"paid", "closed"}
     /\ Turns(o, Verdicts[o], IF Verdicts[o] = "paid" THEN "sold" ELSE "returned", Shown[o])
     /\ SentKept(o)
  \/ /\ Shown[o] = "PENDING_PAYMENT" /\ Verdicts[o] \in {"paid", "closed"}
     /\ Turns(o, Verdicts[o], Stocks[o], IF Verdicts[o] = "paid" THEN "PAID" ELSE "CANCELLED")
     /\ SentKept(o)
  \/ /\ Verdicts[o] = "paid" /\ o \notin Sent
     /\ Turns(o, Verdicts[o], Stocks[o], Shown[o]) /\ o \in Sent'

\* OrderLifecycle, read through the mapping: it stutters,
LEMMA LifeVars == UNCHANGED <<Verdicts, Stocks, Shown, Sent>> => UNCHANGED Life!vars
BY DEF Life!vars, Verdicts, Stocks, Shown, Sent, SeenStock, SeenOrder

\* or the stock is held,
LEMMA LifeHold ==
  \A o :
    /\ Verdicts[o] = "none" /\ Stocks[o] = "free"
    /\ Verdicts' = [Verdicts EXCEPT ![o] = "none"]
    /\ Stocks' = [Stocks EXCEPT ![o] = "held"]
    /\ Shown' = [Shown EXCEPT ![o] = Shown[o]] /\ UNCHANGED Sent
    => Life!Hold(o)
BY DEF Life!Hold, Life!Move, Verdicts, Stocks, Shown, Sent, SeenStock, SeenOrder

\* the order placed,
LEMMA LifePlace ==
  \A o :
    /\ Verdicts[o] = "none" /\ Stocks[o] = "held" /\ Shown[o] = "NONE"
    /\ Verdicts' = [Verdicts EXCEPT ![o] = "none"]
    /\ Stocks' = [Stocks EXCEPT ![o] = "held"]
    /\ Shown' = [Shown EXCEPT ![o] = "PENDING_PAYMENT"] /\ UNCHANGED Sent
    => Life!Place(o)
BY DEF Life!Place, Life!Move, Verdicts, Stocks, Shown, Sent, SeenStock, SeenOrder

\* and decided,
LEMMA LifeDecide ==
  \A o :
    /\ Verdicts[o] = "none" /\ Shown[o] = "PENDING_PAYMENT"
    /\ \E v \in {"paid", "closed"} : Verdicts' = [Verdicts EXCEPT ![o] = v]
    /\ Stocks' = [Stocks EXCEPT ![o] = Stocks[o]]
    /\ Shown' = [Shown EXCEPT ![o] = Shown[o]]
    /\ UNCHANGED Sent
    => Life!Decide(o)
BY DEF Life!Decide, Life!Move, Verdicts, Stocks, Shown, Sent, SeenStock, SeenOrder

\* or given up;
LEMMA LifeGiveUp ==
  \A o :
    /\ Verdicts[o] = "none" /\ Stocks[o] = "held"
    /\ Verdicts' = [Verdicts EXCEPT ![o] = "abandoned"]
    /\ Stocks' = [Stocks EXCEPT ![o] = "returned"]
    /\ Shown' = [Shown EXCEPT ![o] = Shown[o]] /\ UNCHANGED Sent
    => Life!GiveUp(o)
BY DEF Life!GiveUp, Life!Move, Verdicts, Stocks, Shown, Sent, SeenStock, SeenOrder

\* the stock follows,
LEMMA LifeSettle ==
  \A o :
    /\ Stocks[o] = "held" /\ Verdicts[o] \in {"paid", "closed"}
    /\ Verdicts' = [Verdicts EXCEPT ![o] = Verdicts[o]]
    /\ Stocks' = [Stocks EXCEPT ![o] = IF Verdicts[o] = "paid" THEN "sold" ELSE "returned"]
    /\ Shown' = [Shown EXCEPT ![o] = Shown[o]]
    /\ UNCHANGED Sent
    => Life!Settle(o)
BY DEF Life!Settle, Life!Move, Verdicts, Stocks, Shown, Sent, SeenStock, SeenOrder

\* the order follows,
LEMMA LifeShow ==
  \A o :
    /\ Shown[o] = "PENDING_PAYMENT" /\ Verdicts[o] \in {"paid", "closed"}
    /\ Verdicts' = [Verdicts EXCEPT ![o] = Verdicts[o]]
    /\ Stocks' = [Stocks EXCEPT ![o] = Stocks[o]]
    /\ Shown' = [Shown EXCEPT ![o] = IF Verdicts[o] = "paid" THEN "PAID" ELSE "CANCELLED"]
    /\ UNCHANGED Sent
    => Life!Show(o)
BY DEF Life!Show, Life!Move, Verdicts, Stocks, Shown, Sent, SeenStock, SeenOrder

\* the parcel is sent,
LEMMA LifeSend ==
  \A o :
    /\ Verdicts[o] = "paid" /\ o \notin Sent /\ Sent' = Sent \cup {o}
    /\ UNCHANGED <<Verdicts, Stocks, Shown>>
    => Life!Send(o)
BY DEF Life!Send, Life!Move, Verdicts, Stocks, Shown, Sent, SeenStock, SeenOrder

\* or orders are void.
LEMMA LifeVoid ==
  \A S :
    /\ Verdicts' = [o \in Orders |-> IF o \in S THEN "void" ELSE Verdicts[o]]
    /\ Stocks' = [o \in Orders |-> IF o \in S THEN "free" ELSE Stocks[o]]
    /\ Shown' = [o \in Orders |-> IF o \in S THEN "NONE" ELSE Shown[o]]
    /\ Sent' = Sent \ S
    => Life!Void(S)
BY DEF Life!Void, Verdicts, Stocks, Shown, Sent, SeenStock, SeenOrder

\* The images, order by order.
LEMMA Images ==
  \A o \in Orders : /\ Verdicts[o] = Verdict(o) /\ Verdicts'[o] = Verdict(o)'
                    /\ Stocks[o] = SeenStock(o) /\ Stocks'[o] = SeenStock(o)'
                    /\ Shown[o] = SeenOrder(o) /\ Shown'[o] = SeenOrder(o)'
BY DEF Verdicts, Stocks, Shown

\* And as functions.
LEMMA ImageShapes ==
  /\ Verdicts = [o \in Orders |-> Verdicts[o]] /\ Verdicts' = [o \in Orders |-> Verdicts'[o]]
  /\ Stocks = [o \in Orders |-> Stocks[o]] /\ Stocks' = [o \in Orders |-> Stocks'[o]]
  /\ Shown = [o \in Orders |-> Shown[o]] /\ Shown' = [o \in Orders |-> Shown'[o]]
  /\ Sent \subseteq Orders /\ Sent' \subseteq Orders
BY DEF Verdicts, Stocks, Shown, Sent, Guarded

\* If one order follows and the others rest, OrderLifecycle takes its step.
LEMMA OneFollows ==
  ASSUME NEW o \in Orders, Follows(o), \A p \in Orders \ {o} : Rests(p)
  PROVE  [Life!Next]_Life!vars
<1>1. /\ Verdicts' = [Verdicts EXCEPT ![o] = Verdicts'[o]]
      /\ Stocks' = [Stocks EXCEPT ![o] = Stocks'[o]]
      /\ Shown' = [Shown EXCEPT ![o] = Shown'[o]]
  <2>1. /\ \A p \in Orders : p # o => Verdicts'[p] = Verdicts[p]
        /\ \A p \in Orders : p # o => Stocks'[p] = Stocks[p]
        /\ \A p \in Orders : p # o => Shown'[p] = Shown[p]
    BY DEF Rests, Turns
  <2> QED
    BY <2>1, ImageShapes
<1>2. ASSUME SentKept(o) PROVE UNCHANGED Sent
  <2>1. \A p \in Orders : p \in Sent' <=> p \in Sent
    BY <1>2 DEF Rests, SentKept
  <2> QED
    BY <2>1, ImageShapes
<1>3. CASE Rests(o)
  <2>1. \A p \in Orders : Rests(p)
    BY <1>3
  <2>2. UNCHANGED <<Verdicts, Stocks, Shown>>
    BY <2>1, ImageShapes DEF Rests, Turns
  <2>3. UNCHANGED Sent
    BY <1>2, <1>3 DEF Rests
  <2> QED
    BY <2>2, <2>3, LifeVars
<1>4. ASSUME Verdicts[o] = "paid", o \notin Sent, o \in Sent',
             Turns(o, Verdicts[o], Stocks[o], Shown[o])
      PROVE  Life!Send(o)
  <2>1. UNCHANGED <<Verdicts, Stocks, Shown>>
    BY <1>4, ImageShapes DEF Rests, Turns
  <2>2. Sent' = Sent \cup {o}
    <3>1. \A p \in Orders : p \in Sent' <=> p \in Sent \/ p = o
      BY <1>4 DEF Rests, SentKept
    <3> QED
      BY <3>1, ImageShapes
  <2> QED
    BY <1>4, <2>1, <2>2, LifeSend
<1>5. CASE /\ Verdicts[o] = "none" /\ Stocks[o] = "free"
            /\ Turns(o, "none", "held", Shown[o]) /\ SentKept(o)
  <2>1. /\ Verdicts' = [Verdicts EXCEPT ![o] = "none"]
        /\ Stocks' = [Stocks EXCEPT ![o] = "held"]
        /\ Shown' = [Shown EXCEPT ![o] = Shown[o]]
    BY <1>1, <1>5 DEF Turns
  <2>2. UNCHANGED Sent
    BY <1>2, <1>5
  <2>3. Life!Hold(o)
    BY <1>5, <2>1, <2>2, LifeHold
  <2> QED
    BY <2>3 DEF Life!Next
<1>6. CASE /\ Verdicts[o] = "none" /\ Stocks[o] = "held" /\ Shown[o] = "NONE"
            /\ Turns(o, "none", "held", "PENDING_PAYMENT") /\ SentKept(o)
  <2>1. /\ Verdicts' = [Verdicts EXCEPT ![o] = "none"]
        /\ Stocks' = [Stocks EXCEPT ![o] = "held"]
        /\ Shown' = [Shown EXCEPT ![o] = "PENDING_PAYMENT"]
    BY <1>1, <1>6 DEF Turns
  <2>2. UNCHANGED Sent
    BY <1>2, <1>6
  <2>3. Life!Place(o)
    BY <1>6, <2>1, <2>2, LifePlace
  <2> QED
    BY <2>3 DEF Life!Next
<1>7. CASE /\ Verdicts[o] = "none" /\ Shown[o] = "PENDING_PAYMENT"
            /\ \E v \in {"paid", "closed"} : Turns(o, v, Stocks[o], Shown[o])
            /\ SentKept(o)
  <2>1. /\ \E v \in {"paid", "closed"} : Verdicts' = [Verdicts EXCEPT ![o] = v]
        /\ Stocks' = [Stocks EXCEPT ![o] = Stocks[o]]
        /\ Shown' = [Shown EXCEPT ![o] = Shown[o]]
    BY <1>1, <1>7 DEF Turns
  <2>2. UNCHANGED Sent
    BY <1>2, <1>7
  <2>3. Life!Decide(o)
    BY <1>7, <2>1, <2>2, LifeDecide
  <2> QED
    BY <2>3 DEF Life!Next
<1>8. CASE /\ Verdicts[o] = "none" /\ Stocks[o] = "held"
            /\ Turns(o, "abandoned", "returned", Shown[o]) /\ SentKept(o)
  <2>1. /\ Verdicts' = [Verdicts EXCEPT ![o] = "abandoned"]
        /\ Stocks' = [Stocks EXCEPT ![o] = "returned"]
        /\ Shown' = [Shown EXCEPT ![o] = Shown[o]]
    BY <1>1, <1>8 DEF Turns
  <2>2. UNCHANGED Sent
    BY <1>2, <1>8
  <2>3. Life!GiveUp(o)
    BY <1>8, <2>1, <2>2, LifeGiveUp
  <2> QED
    BY <2>3 DEF Life!Next
<1>9. CASE /\ Stocks[o] = "held" /\ Verdicts[o] \in {"paid", "closed"}
            /\ Turns(o, Verdicts[o], IF Verdicts[o] = "paid" THEN "sold" ELSE "returned", Shown[o])
            /\ SentKept(o)
  <2>1. /\ Verdicts' = [Verdicts EXCEPT ![o] = Verdicts[o]]
        /\ Stocks' = [Stocks EXCEPT ![o] = IF Verdicts[o] = "paid" THEN "sold" ELSE "returned"]
        /\ Shown' = [Shown EXCEPT ![o] = Shown[o]]
    BY <1>1, <1>9 DEF Turns
  <2>2. UNCHANGED Sent
    BY <1>2, <1>9
  <2>3. Life!Settle(o)
    BY <1>9, <2>1, <2>2, LifeSettle
  <2> QED
    BY <2>3 DEF Life!Next
<1>10. CASE /\ Shown[o] = "PENDING_PAYMENT" /\ Verdicts[o] \in {"paid", "closed"}
            /\ Turns(o, Verdicts[o], Stocks[o], IF Verdicts[o] = "paid" THEN "PAID" ELSE "CANCELLED")
            /\ SentKept(o)
  <2>1. /\ Verdicts' = [Verdicts EXCEPT ![o] = Verdicts[o]]
        /\ Stocks' = [Stocks EXCEPT ![o] = Stocks[o]]
        /\ Shown' = [Shown EXCEPT ![o] = IF Verdicts[o] = "paid" THEN "PAID" ELSE "CANCELLED"]
    BY <1>1, <1>10 DEF Turns
  <2>2. UNCHANGED Sent
    BY <1>2, <1>10
  <2>3. Life!Show(o)
    BY <1>10, <2>1, <2>2, LifeShow
  <2> QED
    BY <2>3 DEF Life!Next
<1> QED
  BY <1>3, <1>4, <1>5, <1>6, <1>7, <1>8, <1>9, <1>10 DEF Follows, Life!Next

\* The orders that are not guarded any more are void, the others as they were.
LEMMA TaintsVoid ==
  ASSUME Guarded' \subseteq Guarded, \A o \in Guarded' : Rests(o)
  PROVE  [Life!Next]_Life!vars
<1> DEFINE S == Orders \ Guarded'
<1>1. \A o \in S : Verdicts'[o] = "void" /\ Stocks'[o] = "free" /\ Shown'[o] = "NONE"
  BY Images DEF Verdict, SeenStock, SeenOrder
<1>2. /\ \A o \in Orders : Verdicts'[o] = IF o \in S THEN "void" ELSE Verdicts[o]
      /\ \A o \in Orders : Stocks'[o] = IF o \in S THEN "free" ELSE Stocks[o]
      /\ \A o \in Orders : Shown'[o] = IF o \in S THEN "NONE" ELSE Shown[o]
  BY <1>1 DEF Rests, Turns
<1>3. Sent' = Sent \ S
  <2>1. \A o \in Orders : o \in Sent' <=> o \in Sent /\ o \in Guarded'
    BY DEF Rests, SentKept, Sent
  <2> QED
    BY <2>1, ImageShapes
<1>4. /\ Verdicts' = [o \in Orders |-> IF o \in S THEN "void" ELSE Verdicts[o]]
      /\ Stocks' = [o \in Orders |-> IF o \in S THEN "free" ELSE Stocks[o]]
      /\ Shown' = [o \in Orders |-> IF o \in S THEN "NONE" ELSE Shown[o]]
  BY <1>2, ImageShapes
<1>5. PICK T \in SUBSET Orders : T = S
  OBVIOUS
<1>6. Life!Void(T)
  BY <1>3, <1>4, <1>5, LifeVoid
<1> QED
  BY <1>6 DEF Life!Next

\* The lines of an order, seen by OrderLifecycle.
StockOf(st) == IF st = "RESERVED" THEN "held" ELSE IF st = "CONFIRMED" THEN "sold"
               ELSE IF st = "RELEASED" THEN "returned" ELSE "free"

\* An order's lines are all in one state, and OrderLifecycle sees that one.
LEMMA StockIs ==
  \A o \in Orders : \A st \in Inv!Statuses : /\ Settled(o, st) => Stock(o) = StockOf(st)
                                             /\ Settled(o, st)' => Stock(o)' = StockOf(st)
<1>1. \A o \in Orders : \E s \in Skus : s \in Inv!SkusOf(o)
  BY SagaAssumption DEF Inv!SkusOf
<1>2. ASSUME NEW o \in Orders, NEW st \in Inv!Statuses, Settled(o, st) PROVE Stock(o) = StockOf(st)
  <2>1. Held(o) <=> st = "RESERVED"
    BY <1>2, OneState
  <2>2. /\ Settled(o, "CONFIRMED") <=> st = "CONFIRMED"
        /\ Settled(o, "RELEASED") <=> st = "RELEASED"
    BY <1>2, OneState
  <2> QED
    BY <2>1, <2>2 DEF Stock, StockOf
<1>3. ASSUME NEW o \in Orders, NEW st \in Inv!Statuses, Settled(o, st)' PROVE Stock(o)' = StockOf(st)
  <2>1. /\ Held(o)' <=> st = "RESERVED"
        /\ Settled(o, "CONFIRMED")' <=> st = "CONFIRMED"
        /\ Settled(o, "RELEASED")' <=> st = "RELEASED"
    BY <1>1, <1>3 DEF Held, Settled, Inv!SkusOf
  <2> QED
    BY <2>1 DEF Stock, StockOf
<1> QED
  BY <1>2, <1>3

\* What OrderLifecycle sees of a guarded order, and of the others.
LEMMA Sees ==
  ASSUME NEW o \in Orders
  PROVE  /\ o \in Guarded => /\ Verdicts[o] = Verdict(o) /\ Stocks[o] = Stock(o)
                             /\ Shown[o] = order[o] /\ (o \in Sent <=> o \in shipped)
         /\ o \in Guarded' => /\ Verdicts'[o] = Verdict(o)' /\ Stocks'[o] = Stock(o)'
                              /\ Shown'[o] = order'[o] /\ (o \in Sent' <=> o \in shipped')
         /\ o \notin Guarded => /\ Verdicts[o] = "void" /\ Stocks[o] = "free"
                                /\ Shown[o] = "NONE" /\ o \notin Sent
         /\ o \notin Guarded' => /\ Verdicts'[o] = "void" /\ Stocks'[o] = "free"
                                 /\ Shown'[o] = "NONE" /\ o \notin Sent'
BY Images DEF SeenStock, SeenOrder, Sent, Verdict

\* An order that nothing happens to rests.
LEMMA StillRests ==
  ASSUME NEW o \in Orders, Still(o), o \in Guarded' <=> o \in Guarded
  PROVE  Rests(o)
<1>1. Outcomes(o)' = Outcomes(o)
  BY DEF Still, Outcomes
<1>2. Stock(o)' = Stock(o)
  BY DEF Still, Stock, Held, Settled, Inv!SkusOf
<1>3. Verdict(o)' = Verdict(o)
  BY <1>1 DEF Still, Verdict
<1> QED
  BY <1>2, <1>3, Sees DEF Still, Rests, Turns, SentKept

\* What a step has to carry over.
Carried == SagaType' /\ (\A o \in Orders : OrderInv(o)') /\ [Life!Next]_Life!vars

\* A step about one order carries over if that order follows OrderLifecycle.
LEMMA OneMoves ==
  ASSUME SagaInv, SagaType', UNCHANGED <<taints, torn>>,
         NEW o \in Orders, \A p \in Orders \ {o} : Still(p), OrderInv(o)',
         o \in Guarded => Follows(o)
  PROVE  Carried
<1>1. Guarded' = Guarded
  BY DEF Guarded, taints
<1>2. \A p \in Orders \ {o} : Rests(p)
  BY <1>1, StillRests
<1>3. o \notin Guarded => Rests(o)
  BY <1>1, Sees DEF Rests, Turns, SentKept
<1>4. Follows(o)
  BY <1>3 DEF Follows
<1> QED
  BY <1>2, <1>4, OneFollows, OneKeeps DEF Carried

\* Nobody has heard of the payment of an order whose order.created never came.
LEMMA NoNews ==
  ASSUME SagaInv, NEW o \in Orders, inbox[o] = "none" PROVE Outcomes(o) = {}
<1>1. payment[o] = "NONE"
  BY DEF SagaInv, PP!PaymentInv, PP!Fresh
<1>2. \A e \in PP!Outcomes : ~PP!Known(o, e)
  BY <1>1 DEF SagaInv, PP!PaymentInv, PP!Fresh
<1> QED
  BY <1>2 DEF Outcomes, PP!Known, Pay!Outcomes, PP!Outcomes

\* The outcomes of an order that the step does not publish for.
LEMMA SameNews ==
  ASSUME UNCHANGED published PROVE \A o : Outcomes(o)' = Outcomes(o)
BY DEF Outcomes

-----------------------------------------------------------------------------
(* The creation of an order, step by step.                                 *)

\* The stock is held, or the creation is over and nothing was held.
LEMMA CreateReserveCarries ==
  ASSUME SagaInv, NEW o \in Orders, CreateReserve(o) PROVE Carried
<1>1. /\ UNCHANGED <<payVars, order, todo, shipped, torn>> /\ Inv!Reserve(o)
      /\ creating[o] = "idle"
      /\ creating'[o] = IF answer'[o] = "reserved" THEN "save" ELSE "done"
      /\ \A p \in Orders \ {o} : creating'[p] = creating[p]
  <2>1. PICK next : next = IF answer'[o] = "reserved" THEN "save" ELSE "done"
    OBVIOUS
  <2>2. Creating(o, "idle", next)
    BY <2>1 DEF CreateReserve, Creating
  <2> QED
    BY <2>1, <2>2, CreatingEffect DEF CreateReserve, SagaInv
<1>2. UNCHANGED <<inbox, sweeps, published, taints>>
  BY <1>1 DEF payVars
<1>3. SagaType'
  BY <1>1, <1>2 DEF CreateReserve, Creating, SagaInv, SagaType
<1>4. /\ \A p \in Orders \ {o} : status'[p] = status[p]
      /\ answer'[o] = "reserved" => Settled(o, "NONE") /\ Settled(o, "RESERVED")'
      /\ answer'[o] # "reserved" => status'[o] = status[o]
  BY <1>1, ReserveEffect DEF SagaInv
<1>5. \A p \in Orders \ {o} : Still(p)
  BY <1>1, <1>2, <1>4 DEF Still
<1>6. /\ inbox[o] = "none" /\ order[o] = "NONE" /\ Outcomes(o) = {}
      /\ Followed(o) /\ Settled(o, "NONE")
  <2>1. inbox[o] = "none" /\ order[o] = "NONE" /\ Followed(o)
    BY <1>1 DEF SagaInv, OrderInv, Created
  <2>2. Settled(o, "NONE")
    BY <1>1 DEF SagaInv, OrderInv, Explained
  <2> QED
    BY <2>1, <2>2, NoNews
<1>7. Outcomes(o)' = {}
  BY <1>2, <1>6, SameNews
<1>8. PICK st \in {"RESERVED", "NONE"} :
        /\ Settled(o, st)' /\ st = (IF answer'[o] = "reserved" THEN "RESERVED" ELSE "NONE")
  BY <1>4, <1>6 DEF Settled
<1>9. OrderInv(o)'
  <2>1. Created(o)'
    BY <1>1, <1>2, <1>6 DEF Created
  <2>2. Followed(o)'
    BY <1>1, <1>6, <1>7 DEF Followed
  <2>3. Explained(o, st)'
    BY <1>1, <1>6, <1>7, <1>8 DEF Explained
  <2> QED
    BY <1>8, <2>1, <2>2, <2>3 DEF OrderInv, Inv!Statuses
<1>10. ASSUME o \in Guarded PROVE Follows(o)
  <2>1. o \in Guarded'
    BY <1>1, <1>2, <1>10 DEF Guarded, taints
  <2>2. Verdicts[o] = "none" /\ Verdicts'[o] = "none"
    BY <1>1, <1>6, <1>7, <1>10, <2>1, Sees DEF Verdict
  <2>3. Stocks[o] = "free" /\ Stocks'[o] = StockOf(st)
    BY <1>6, <1>8, <1>10, <2>1, Sees, StockIs DEF StockOf, Inv!Statuses
  <2>4. Shown'[o] = Shown[o] /\ SentKept(o)
    BY <1>1, <1>10, <2>1, Sees DEF SentKept
  <2> QED
    BY <1>8, <2>2, <2>3, <2>4 DEF Follows, Rests, Turns, StockOf
<1> QED
  BY <1>1, <1>2, <1>3, <1>5, <1>9, <1>10, OneMoves

\* The order is placed while its stock is held.
LEMMA CreateSaveCarries ==
  ASSUME SagaInv, NEW o \in Orders, CreateSave(o) PROVE Carried
<1>1. /\ UNCHANGED <<invVars, payVars, todo, shipped, torn>>
      /\ creating[o] = "save" /\ creating'[o] = "publish"
      /\ \A p \in Orders \ {o} : creating'[p] = creating[p]
      /\ order' = [order EXCEPT ![o] = "PENDING_PAYMENT"]
  BY CreatingEffect DEF CreateSave, SagaInv
<1>2. UNCHANGED <<status, inbox, sweeps, published, taints>>
  BY <1>1 DEF payVars, invVars
<1>3. SagaType'
  BY <1>1, <1>2 DEF CreateSave, Creating, SagaInv, SagaType
<1>4. order'[o] = "PENDING_PAYMENT" /\ \A p \in Orders \ {o} : order'[p] = order[p]
  BY <1>1 DEF SagaInv, SagaType
<1>5. \A p \in Orders \ {o} : Still(p)
  BY <1>1, <1>2, <1>4 DEF Still
<1>6. inbox[o] = "none" /\ order[o] = "NONE" /\ Followed(o) /\ Settled(o, "RESERVED")
  <2>1. inbox[o] = "none" /\ order[o] = "NONE" /\ Followed(o)
    BY <1>1 DEF SagaInv, OrderInv, Created
  <2>2. Outcomes(o) = {}
    BY <2>1, NoNews
  <2> QED
    BY <1>1, <2>1, <2>2 DEF SagaInv, OrderInv, Explained, Inv!Statuses
<1>7. Outcomes(o) = {} /\ Outcomes(o)' = {}
  BY <1>2, <1>6, NoNews, SameNews
<1>8. Settled(o, "RESERVED")'
  BY <1>2, <1>6 DEF Settled
<1>9. OrderInv(o)'
  <2>1. Created(o)'
    BY <1>1, <1>2, <1>4, <1>6 DEF Created
  <2>2. Followed(o)'
    BY <1>1, <1>4, <1>6, <1>7 DEF Followed
  <2>3. Explained(o, "RESERVED")'
    BY <1>1, <1>7 DEF Explained
  <2> QED
    BY <1>8, <2>1, <2>2, <2>3 DEF OrderInv, Inv!Statuses
<1>10. ASSUME o \in Guarded PROVE Follows(o)
  <2>1. o \in Guarded'
    BY <1>1, <1>2, <1>10 DEF Guarded, taints
  <2>2. Verdicts[o] = "none" /\ Verdicts'[o] = "none"
    BY <1>1, <1>7, <1>10, <2>1, Sees DEF Verdict
  <2>3. Stocks[o] = "held" /\ Stocks'[o] = "held"
    BY <1>6, <1>8, <1>10, <2>1, Sees, StockIs DEF StockOf, Inv!Statuses
  <2>4. Shown[o] = "NONE" /\ Shown'[o] = "PENDING_PAYMENT" /\ SentKept(o)
    BY <1>1, <1>4, <1>6, <1>10, <2>1, Sees DEF SentKept
  <2> QED
    BY <2>2, <2>3, <2>4 DEF Follows, Turns
<1> QED
  BY <1>1, <1>2, <1>3, <1>5, <1>9, <1>10, OneMoves

\* What is not reserved, and not abandoned, has an outcome.
LEMMA ReservedByThen ==
  ASSUME SagaInv, NEW o \in Orders, inbox[o] = "none",
         creating[o] \in {"save", "publish", "undo"}
  PROVE  Settled(o, "RESERVED")
<1>1. Outcomes(o) = {}
  BY NoNews
<1> QED
  BY <1>1 DEF SagaInv, OrderInv, Explained, Inv!Statuses

\* The creation goes on, and OrderLifecycle does not see it.
LEMMA CreationRests ==
  ASSUME SagaInv, NEW o \in Orders, Created(o)',
         creating[o] \in {"save", "publish", "undo"}, creating'[o] \in {"done", "undo", "dead"},
         creating'[o] = "done" => order[o] # "NONE",
         creating' = [creating EXCEPT ![o] = creating'[o]],
         \A p \in Orders \ {o} : inbox'[p] = inbox[p],
         UNCHANGED <<status, order, todo, shipped, torn>>, UNCHANGED <<sweeps, published, taints>>
  PROVE  Carried
<1>1. SagaType'
  BY DEF SagaInv, SagaType
<1>2. \A p \in Orders \ {o} : creating'[p] = creating[p]
  BY DEF SagaInv, SagaType
<1>3. \A p \in Orders \ {o} : Still(p)
  BY <1>2 DEF Still
<1>4. Outcomes(o)' = Outcomes(o)
  BY SameNews
<1>5. PICK st \in Inv!Statuses : Settled(o, st) /\ Explained(o, st)
  BY DEF SagaInv, OrderInv
<1>6. Settled(o, st)'
  BY <1>5 DEF Settled
<1>7. OrderInv(o)'
  <2>1. Followed(o)
    BY DEF SagaInv, OrderInv
  <2>2. Followed(o)'
    BY <1>4, <2>1 DEF Followed
  <2>3. Explained(o, st)'
    BY <1>4, <1>5 DEF Explained
  <2> QED
    BY <1>6, <2>2, <2>3 DEF OrderInv
<1>8. ASSUME o \in Guarded PROVE Follows(o)
  <2>1. o \in Guarded'
    BY <1>8 DEF Guarded, taints
  <2>2. Verdict(o)' = Verdict(o)
    BY <1>4, <1>8, <2>1 DEF Verdict
  <2>3. Stock(o)' = Stock(o)
    BY <1>5, <1>6, StockIs
  <2> QED
    BY <1>8, <2>1, <2>2, <2>3, Sees DEF Follows, Rests, Turns, SentKept
<1> QED
  BY <1>1, <1>3, <1>7, <1>8, OneMoves

\* A save that fails leaves the stock to be given back.
LEMMA CreateSaveFailsCarries ==
  ASSUME SagaInv, NEW o \in Orders, CreateSaveFails(o) PROVE Carried
<1>1. /\ creating[o] = "save" /\ creating' = [creating EXCEPT ![o] = "undo"]
      /\ UNCHANGED <<status, order, todo, shipped, torn>> /\ UNCHANGED <<sweeps, published, taints>>
      /\ UNCHANGED inbox
  BY DEF CreateSaveFails, Creating, invVars
<1>2. creating'[o] = "undo"
  BY <1>1 DEF SagaInv, SagaType
<1>3. Created(o)'
  BY <1>1, <1>2 DEF Created, SagaInv, OrderInv
<1> QED
  BY <1>1, <1>2, <1>3, CreationRests

\* A crash leaves what was done so far.
LEMMA CreateCrashCarries ==
  ASSUME SagaInv, NEW o \in Orders, CreateCrash(o) PROVE Carried
<1>1. /\ creating[o] \in {"save", "publish", "undo"} /\ creating' = [creating EXCEPT ![o] = "dead"]
      /\ UNCHANGED <<status, order, todo, shipped, torn>> /\ UNCHANGED <<sweeps, published, taints>>
      /\ UNCHANGED inbox
  BY DEF CreateCrash, invVars
<1>2. creating'[o] = "dead"
  BY <1>1 DEF SagaInv, SagaType
<1>3. Created(o)'
  BY <1>1, <1>2 DEF Created, SagaInv, OrderInv
<1> QED
  BY <1>1, <1>2, <1>3, CreationRests

\* order.created is only published for an order that was saved.
LEMMA CreatePublishCarries ==
  ASSUME SagaInv, NEW o \in Orders, CreatePublish(o) PROVE Carried
<1>1. /\ creating[o] = "publish" /\ creating' = [creating EXCEPT ![o] = "done"]
      /\ UNCHANGED <<status, order, todo, shipped, torn>> /\ UNCHANGED <<sweeps, published, taints>>
      /\ inbox' = [inbox EXCEPT ![o] = "waiting"]
  BY DEF CreatePublish, Creating, invVars, Pay!OrderCreated, taints, Pay!taints
<1>2. /\ creating'[o] = "done" /\ inbox'[o] = "waiting"
      /\ \A p \in Orders \ {o} : inbox'[p] = inbox[p]
  BY <1>1 DEF SagaInv, SagaType, PP!PaymentInv, PP!TypeOK
<1>3. order[o] # "NONE"
  BY <1>1 DEF SagaInv, OrderInv, Created
<1>4. Created(o)'
  BY <1>1, <1>2, <1>3 DEF Created
<1> QED
  BY <1>1, <1>2, <1>3, <1>4, CreationRests

\* A creator that is told of an error after the event left makes its order void.
LEMMA CreatePublishFailsCarries ==
  ASSUME SagaInv, NEW o \in Orders, CreatePublishFails(o) PROVE Carried
<1>1. /\ creating[o] = "publish" /\ creating' = [creating EXCEPT ![o] = "undo"]
      /\ UNCHANGED <<status, order, todo, shipped>> /\ UNCHANGED <<sweeps, published, taints>>
      /\ \/ UNCHANGED <<inbox, torn>>
         \/ inbox' = [inbox EXCEPT ![o] = "waiting"] /\ torn' = torn \cup {o}
  BY DEF CreatePublishFails, Creating, invVars
<1>2. creating'[o] = "undo" /\ \A p \in Orders \ {o} : creating'[p] = creating[p]
  BY <1>1 DEF SagaInv, SagaType
<1>3. order[o] # "NONE" /\ inbox[o] = "none"
  BY <1>1 DEF SagaInv, OrderInv, Created
<1>4. CASE UNCHANGED <<inbox, torn>>
  <2>1. Created(o)'
    BY <1>2, <1>3, <1>4 DEF Created
  <2> QED
    BY <1>1, <1>2, <1>4, <2>1, CreationRests
<1>5. CASE inbox' = [inbox EXCEPT ![o] = "waiting"] /\ torn' = torn \cup {o}
  <2>1. inbox'[o] = "waiting" /\ \A p \in Orders \ {o} : inbox'[p] = inbox[p]
    BY <1>5 DEF SagaInv, PP!PaymentInv, PP!TypeOK
  <2>2. SagaType'
    BY <1>1 DEF SagaInv, SagaType
  <2>3. \A p \in Orders \ {o} : Still(p)
    BY <1>1, <1>2, <1>5, <2>1 DEF Still
  <2>4. Outcomes(o)' = {} /\ Followed(o)
    BY <1>1, <1>3, NoNews, SameNews DEF SagaInv, OrderInv
  <2>5. Outcomes(o) = {}
    BY <1>3, NoNews
  <2>6. OrderInv(o)'
    <3>1. Created(o)'
      BY <1>1, <1>2, <1>3, <1>5, <2>1 DEF Created
    <3>2. Followed(o)'
      BY <1>1, <2>4, <2>5 DEF Followed
    <3>3. Settled(o, "RESERVED")'
      BY <1>1, <1>3, ReservedByThen DEF Settled
    <3>4. Explained(o, "RESERVED")'
      BY <1>2, <2>4 DEF Explained
    <3> QED
      BY <3>1, <3>2, <3>3, <3>4 DEF OrderInv, Inv!Statuses
  <2>7. /\ Guarded' \subseteq Guarded /\ o \notin Guarded'
        /\ \A p \in Guarded' : p \in Orders \ {o} /\ p \in Guarded
    BY <1>1, <1>5 DEF Guarded, taints
  <2>8. \A p \in Guarded' : Rests(p)
    BY <2>3, <2>7, StillRests
  <2> QED
    BY <2>2, <2>3, <2>6, <2>7, <2>8, OneKeeps, TaintsVoid DEF Carried
<1> QED
  BY <1>1, <1>4, <1>5

\* The catch block gives back what the order held.
LEMMA CreateUndoCarries ==
  ASSUME SagaInv, NEW o \in Orders, CreateUndo(o) PROVE Carried
<1>1. /\ UNCHANGED <<payVars, order, todo, shipped, torn>> /\ Inv!SettleDone(o, "RELEASED")
      /\ creating[o] = "undo" /\ creating'[o] = "undone"
      /\ \A p \in Orders \ {o} : creating'[p] = creating[p]
  BY CreatingEffect DEF CreateUndo, SagaInv
<1>2. UNCHANGED <<inbox, sweeps, published, taints>>
  BY <1>1 DEF payVars
<1>3. SagaType'
  BY <1>1, <1>2 DEF CreateUndo, Creating, SagaInv, SagaType
<1>4. /\ \A p \in Orders \ {o} : status'[p] = status[p]
      /\ \A st : Settled(o, st) => Settled(o, IF st = "RESERVED" THEN "RELEASED" ELSE st)'
  BY <1>1, SettleEffect DEF SagaInv
<1>5. \A p \in Orders \ {o} : Still(p)
  BY <1>1, <1>2, <1>4 DEF Still
<1>6. PICK st \in Inv!Statuses : Settled(o, st) /\ Explained(o, st)
  BY DEF SagaInv, OrderInv
<1>7. PICK nx \in Inv!Statuses : nx = (IF st = "RESERVED" THEN "RELEASED" ELSE st)
  BY DEF Inv!Statuses
<1>8. Settled(o, nx)'
  BY <1>4, <1>6, <1>7
<1>9. Outcomes(o)' = Outcomes(o)
  BY <1>2, SameNews
<1>10. Created(o) /\ Followed(o)
  BY DEF SagaInv, OrderInv
<1>11. OrderInv(o)'
  <2>1. Created(o)'
    BY <1>1, <1>2, <1>10 DEF Created
  <2>2. Followed(o)'
    BY <1>1, <1>9, <1>10 DEF Followed
  <2>3. Explained(o, nx)'
    BY <1>1, <1>6, <1>7, <1>9 DEF Explained
  <2> QED
    BY <1>8, <2>1, <2>2, <2>3 DEF OrderInv
<1>12. ASSUME o \in Guarded PROVE Follows(o)
  <2>1. o \in Guarded'
    BY <1>1, <1>2, <1>12 DEF Guarded, taints
  <2>2. inbox[o] = "none"
    BY <1>1, <1>10, <1>12 DEF Created, Guarded
  <2>3. Settled(o, "RESERVED")
    BY <1>1, <2>2, ReservedByThen
  <2>4. Settled(o, "RELEASED")'
    BY <1>4, <2>3
  <2>5. Verdicts[o] = "none" /\ Verdicts'[o] = "abandoned"
    BY <1>1, <1>12, <2>1, <2>2, NoNews, Sees DEF Verdict
  <2>6. Stocks[o] = "held" /\ Stocks'[o] = "returned"
    BY <1>12, <2>1, <2>3, <2>4, Sees, StockIs DEF StockOf, Inv!Statuses
  <2>7. Shown'[o] = Shown[o] /\ SentKept(o)
    BY <1>1, <1>12, <2>1, Sees DEF SentKept
  <2> QED
    BY <2>5, <2>6, <2>7 DEF Follows, Turns
<1> QED
  BY <1>1, <1>2, <1>3, <1>5, <1>11, <1>12, OneMoves

-----------------------------------------------------------------------------
(* The payments service at work.                                           *)

\* A step that moves no order, but may void some.
LEMMA NobodyMoves ==
  ASSUME SagaInv, SagaType', \A o \in Orders : Still(o), Guarded' \subseteq Guarded
  PROVE  Carried
<1>1. \A o \in Orders : OrderInv(o)'
  BY StillKeeps DEF SagaInv
<1>2. \A o \in Guarded' : o \in Orders /\ o \in Guarded
  BY DEF Guarded
<1>3. \A o \in Guarded' : Rests(o)
  BY <1>2, StillRests
<1> QED
  BY <1>1, <1>3, TaintsVoid DEF Carried

\* A step of payments that publishes nothing.
LEMMA PaymentsRest ==
  ASSUME SagaInv, UNCHANGED <<status, order, creating, shipped, torn>>, UNCHANGED <<published, todo>>,
         raced \subseteq raced', notified \subseteq notified', revived \subseteq revived',
         \A o \in Orders : inbox'[o] = "none" <=> inbox[o] = "none",
         \A w \in Sweeps : \A o \in sweeps'[w].announce : sweeps'[w].announce = {o}
  PROVE  Carried
<1>1. SagaType'
  BY DEF SagaInv, SagaType
<1>2. \A o \in Orders : Still(o)
  BY QuietStill
<1>3. Guarded' \subseteq Guarded
  BY DEF Guarded
<1> QED
  BY <1>1, <1>2, <1>3, NobodyMoves

\* A quiet step leaves the saga's variables alone.
LEMMA QuietFields ==
  Quietly => UNCHANGED <<status, order, creating, shipped, torn>> /\ UNCHANGED todo
BY DEF Quietly, invVars, sagaVars

\* The consumer of order.created does not forget that it came.
LEMMA ConsumerRests ==
  ASSUME SagaInv, NEW o \in Orders, Quietly,
         Pay!ProcessRead(o) \/ Pay!ProcessSave(o) \/ Pay!Age(o) \/ Pay!ProcessPublishFails(o)
  PROVE  Carried
<1>1. UNCHANGED <<published, raced, notified, revived, sweeps>>
  BY DEF Pay!ProcessRead, Pay!ProcessSave, Pay!Age, Pay!ProcessPublishFails, Pay!taints
<1>2. \/ UNCHANGED inbox
      \/ \E s \in {"waiting", "save", "publish", "acked"} :
           inbox[o] # "none" /\ inbox' = [inbox EXCEPT ![o] = s]
  BY DEF Pay!ProcessRead, Pay!ProcessSave, Pay!Age, Pay!ProcessPublishFails
<1>3. \A p \in Orders : inbox'[p] = "none" <=> inbox[p] = "none"
  BY <1>2 DEF SagaInv, PP!PaymentInv, PP!TypeOK
<1>4. \A w \in Sweeps : \A p \in sweeps'[w].announce : sweeps'[w].announce = {p}
  BY <1>1 DEF SagaInv, SagaType
<1> QED
  BY <1>1, <1>3, <1>4, QuietFields, PaymentsRest

\* Requests, and what follows them, up to their publication.
LEMMA RequestRests ==
  ASSUME SagaInv, NEW c \in Calls, Quietly,
         \/ \E o \in Orders : \/ Pay!ConfirmYape(c, o) \/ Pay!FailYape(c, o) \/ Pay!ExpireYape(c, o)
                              \/ Pay!CulqiWebhook(c, o) \/ Pay!CreateCharge(c, o)
         \/ Pay!ChargeAnswered(c) \/ Pay!ChargeErrored(c) \/ Pay!Update(c) \/ Pay!PublishFails(c)
  PROVE  Carried
<1>1. /\ UNCHANGED <<published, sweeps, inbox>>
      /\ raced \subseteq raced' /\ notified \subseteq notified' /\ revived \subseteq revived'
  <2>1. ASSUME NEW o \in Orders, NEW t, Pay!Begin(c, o, t)
        PROVE  /\ UNCHANGED <<published, sweeps, inbox>>
               /\ raced \subseteq raced' /\ revived \subseteq revived'
    BY <2>1 DEF Pay!Begin
  <2>2. ASSUME NEW o \in Orders,
               \/ Pay!ConfirmYape(c, o) \/ Pay!FailYape(c, o) \/ Pay!ExpireYape(c, o)
               \/ Pay!CulqiWebhook(c, o) \/ Pay!CreateCharge(c, o)
        PROVE  (\E t : Pay!Begin(c, o, t)) /\ notified \subseteq notified'
    BY <2>2 DEF Pay!ConfirmYape, Pay!FailYape, Pay!ExpireYape, Pay!CulqiWebhook, Pay!CreateCharge
  <2>3. ASSUME Pay!ChargeAnswered(c) \/ Pay!ChargeErrored(c) \/ Pay!Update(c) \/ Pay!PublishFails(c)
        PROVE  UNCHANGED <<published, sweeps, inbox, raced, notified, revived>>
    BY <2>3 DEF Pay!ChargeAnswered, Pay!ChargeErrored, Pay!Update, Pay!PublishFails, Pay!taints
  <2> QED
    BY <2>1, <2>2, <2>3
<1>2. \A w \in Sweeps : \A p \in sweeps'[w].announce : sweeps'[w].announce = {p}
  BY <1>1 DEF SagaInv, SagaType
<1> QED
  BY <1>1, <1>2, QuietFields, PaymentsRest

\* A sweep announces the orders it expires one by one.
LEMMA SweepRests ==
  ASSUME SagaInv, NEW w \in Sweeps, Quietly,
         Pay!SweepRead(w) \/ Pay!SweepUpdate(w) \/ Pay!SweepPublishFails(w)
  PROVE  Carried
<1>1. UNCHANGED <<published, inbox, notified, revived>> /\ raced \subseteq raced'
  BY DEF Pay!SweepRead, Pay!SweepUpdate, Pay!SweepPublishFails, Pay!taints
<1>2. \A v \in Sweeps \ {w} : sweeps'[v] = sweeps[v]
  BY DEF Pay!SweepRead, Pay!SweepUpdate, Pay!SweepPublishFails, SagaInv, PP!PaymentInv, PP!TypeOK
<1>3. sweeps'[w].announce = sweeps[w].announce \/ \E o : sweeps'[w].announce \subseteq {o}
  <2>1. CASE Pay!SweepRead(w)
    BY <2>1 DEF Pay!SweepRead, SagaInv, PP!PaymentInv, PP!TypeOK
  <2>2. CASE Pay!SweepUpdate(w)
    BY <2>2 DEF Pay!SweepUpdate, SagaInv, PP!PaymentInv, PP!TypeOK
  <2>3. CASE Pay!SweepPublishFails(w)
    BY <2>3 DEF Pay!SweepPublishFails, Pay!Idle, SagaInv, PP!PaymentInv, PP!TypeOK
  <2> QED
    BY <2>1, <2>2, <2>3
<1>4. \A v \in Sweeps : \A p \in sweeps'[v].announce : sweeps'[v].announce = {p}
  BY <1>2, <1>3 DEF SagaInv, SagaType
<1> QED
  BY <1>1, <1>4, QuietFields, PaymentsRest

\* A crash forgets what was in memory, not the messages.
LEMMA CrashRests ==
  ASSUME SagaInv, Quietly, Pay!Crash PROVE Carried
<1>1. UNCHANGED <<published, raced, notified, revived>> /\ sweeps' = [w \in Sweeps |-> Pay!Idle]
  BY DEF Pay!Crash, Pay!taints
<1>2. \A o \in Orders : inbox'[o] = "none" <=> inbox[o] = "none"
  BY DEF Pay!Crash
<1>3. \A w \in Sweeps : \A p \in sweeps'[w].announce : sweeps'[w].announce = {p}
  BY <1>1 DEF Pay!Idle
<1> QED
  BY <1>1, <1>2, <1>3, QuietFields, PaymentsRest

\* Of a guarded order all outcomes say the same.
LEMMA OneOutcome ==
  ASSUME SagaInv, NEW o \in Guarded
  PROVE  /\ "APPROVED" \in Outcomes(o) => \A e \in Pay!Closed : e \notin Outcomes(o) /\ ~PP!Announcing(o, e)
         /\ PP!Announcing(o, "APPROVED") => \A e \in Pay!Closed : e \notin Outcomes(o)
<1>1. o \in Orders \ (raced \cup notified) /\ o \in Orders \ (raced \cup notified \cup revived)
  BY DEF Guarded
<1>2. PP!Guarded(o) /\ PP!Calm(o)
  BY <1>1 DEF SagaInv, PP!PaymentInv
<1> QED
  BY <1>2 DEF PP!Guarded, PP!Told, PP!Calm, PP!Known, Outcomes, Pay!Closed, PP!Closed

\* An order with an outcome was created; if it is guarded, its verdict is that outcome.
LEMMA OutcomeDecides ==
  ASSUME SagaInv, NEW o \in Orders, NEW e \in Pay!Outcomes,
         e \in Outcomes(o) \/ PP!Announcing(o, e)
  PROVE  /\ order[o] # "NONE" /\ inbox[o] # "none"
         /\ o \in Guarded => creating[o] = "done"
         /\ o \in Guarded /\ e \in Outcomes(o) => Verdict(o) = IF e = "APPROVED" THEN "paid" ELSE "closed"
<1>1. PP!Known(o, e) /\ e \in PP!Outcomes
  BY DEF PP!Known, Outcomes, Pay!Outcomes, PP!Outcomes
<1>2. inbox[o] # "none"
  BY <1>1 DEF SagaInv, PP!PaymentInv, PP!Fresh
<1>3. Created(o)
  BY DEF SagaInv, OrderInv
<1>4. order[o] # "NONE" /\ (o \in Guarded => creating[o] = "done")
  BY <1>2, <1>3 DEF Created, Guarded
<1>5. ASSUME o \in Guarded, e \in Outcomes(o)
      PROVE  Verdict(o) = IF e = "APPROVED" THEN "paid" ELSE "closed"
  BY <1>4, <1>5, OneOutcome DEF Verdict, Pay!Outcomes, Pay!Closed
<1> QED
  BY <1>2, <1>4, <1>5

\* An outcome is published: it decides the order, or says again what it was told.
LEMMA AnnounceCarries ==
  ASSUME SagaInv, NEW o \in Orders, NEW e \in Pay!Outcomes, PP!Announcing(o, e),
         published' = published \cup {<<o, e>>}, Announcing({<<o, e>>}),
         UNCHANGED taints,
         \A p \in Orders : inbox'[p] = "none" <=> inbox[p] = "none",
         \A w \in Sweeps : \A p \in sweeps'[w].announce : sweeps'[w].announce = {p}
  PROVE  Carried
<1>1. Deliver({<<o, e>>}) /\ UNCHANGED <<status, order, creating, shipped, torn>>
  BY DEF Announcing, invVars
<1>2. /\ todo' \in [Groups -> SUBSET published']
      /\ \A f \in Groups : \A x : x \in todo'[f] <=> x \in todo[f] \/ (Listens(f, <<o, e>>) /\ x = <<o, e>>)
  BY <1>1, DeliverEffect DEF SagaInv
<1>3. SagaType'
  BY <1>1, <1>2 DEF SagaInv, SagaType
<1>4. ASSUME NEW p \in Orders \ {o} PROVE Still(p)
  <2>1. \A x : <<p, x>> # <<o, e>>
    OBVIOUS
  <2>2. \A x : <<p, x>> \in published' <=> <<p, x>> \in published
    BY <2>1
  <2>3. \A g \in Groups : \A x : <<p, x>> \in todo'[g] <=> <<p, x>> \in todo[g]
    BY <1>2, <2>1
  <2> QED
    BY <1>1, <2>2, <2>3 DEF Still
<1>5. Outcomes(o)' = Outcomes(o) \cup {e}
  BY DEF Outcomes
<1>6. /\ \A x \in Pay!Outcomes : <<o, x>> \in todo["orders"] \/ x = e => <<o, x>> \in todo'["orders"]
      /\ \A x \in Pay!Outcomes : <<o, x>> \in todo["inventory"] \/ x = e => <<o, x>> \in todo'["inventory"]
      /\ \A x \in Pay!Outcomes : <<o, x>> \in todo["shipping"] \/ (x = e /\ e = "APPROVED") =>
                                   <<o, x>> \in todo'["shipping"]
  BY <1>2 DEF Groups, Listens
<1>7. Outcomes(o) \subseteq Pay!Outcomes
  BY DEF Outcomes
<1>8. PICK st \in Inv!Statuses : Settled(o, st) /\ Explained(o, st)
  BY DEF SagaInv, OrderInv
<1>9. Settled(o, st)'
  BY <1>1, <1>8 DEF Settled
<1>10. Created(o) /\ Followed(o)
  BY DEF SagaInv, OrderInv
<1>11. OrderInv(o)'
  <2>1. Created(o)'
    BY <1>1, <1>10 DEF Created
  <2>2. Followed(o)'
    BY <1>1, <1>5, <1>6, <1>7, <1>10 DEF Followed, Pay!Outcomes
  <2>3. Explained(o, st)'
    BY <1>1, <1>5, <1>6, <1>7, <1>8 DEF Explained
  <2> QED
    BY <1>9, <2>1, <2>2, <2>3 DEF OrderInv
<1>12. ASSUME o \in Guarded PROVE Follows(o)
  <2>1. o \in Guarded'
    BY <1>1, <1>12 DEF Guarded, taints
  <2>2. creating[o] = "done" /\ order[o] # "NONE"
    BY <1>12, OutcomeDecides
  <2>3. Verdict(o)' = IF e = "APPROVED" THEN "paid" ELSE "closed"
    BY <1>1, <1>5, <1>12, <2>1, <2>2, OneOutcome DEF Verdict, Pay!Outcomes, Pay!Closed
  <2>4. Stock(o)' = Stock(o)
    BY <1>8, <1>9, StockIs
  <2>5. Stocks'[o] = Stocks[o] /\ Shown'[o] = Shown[o] /\ SentKept(o) /\ Shown[o] = order[o]
    BY <1>1, <1>12, <2>1, <2>4, Sees DEF SentKept
  <2>6. CASE Outcomes(o) = {}
    <3>1. order[o] = "PENDING_PAYMENT"
      BY <1>10, <2>2, <2>6 DEF Followed, SagaInv, SagaType
    <3>2. Verdict(o) = "none"
      BY <1>12, <2>2, <2>6 DEF Verdict
    <3> QED
      BY <1>12, <2>1, <2>3, <2>5, <3>1, <3>2, Sees DEF Follows, Turns
  <2>7. CASE Outcomes(o) # {}
    <3>1. Verdict(o) = Verdict(o)'
      BY <1>7, <1>12, <2>2, <2>3, <2>7, OneOutcome DEF Verdict, Pay!Outcomes, Pay!Closed
    <3> QED
      BY <1>12, <2>1, <2>5, <3>1, Sees DEF Follows, Rests, Turns
  <2> QED
    BY <2>6, <2>7
<1> QED
  BY <1>1, <1>3, <1>4, <1>11, <1>12, OneMoves

\* The three places that announce an outcome: the consumer of order.created,
LEMMA ProcessPublishCarries ==
  ASSUME SagaInv, NEW o \in Orders, Pay!ProcessPublish(o), Announcing({<<o, "APPROVED">>})
  PROVE  Carried
<1>1. /\ inbox[o] = "publish" /\ inbox' = [inbox EXCEPT ![o] = "acked"]
      /\ published' = published \cup {<<o, "APPROVED">>} /\ UNCHANGED <<sweeps, taints>>
  BY DEF Pay!ProcessPublish, Pay!taints, taints
<1>2. PP!Announcing(o, "APPROVED") /\ "APPROVED" \in Pay!Outcomes
  BY <1>1 DEF PP!Announcing, Pay!Outcomes
<1>3. \A p \in Orders : inbox'[p] = "none" <=> inbox[p] = "none"
  BY <1>1 DEF SagaInv, PP!PaymentInv, PP!TypeOK
<1>4. \A w \in Sweeps : \A p \in sweeps'[w].announce : sweeps'[w].announce = {p}
  BY <1>1 DEF SagaInv, SagaType
<1> QED
  BY <1>1, <1>2, <1>3, <1>4, AnnounceCarries

\* A request's,
LEMMA PublishCarries ==
  ASSUME SagaInv, NEW c \in Calls, Pay!Publish(c), Announcing({<<calls[c].order, calls[c].write>>})
  PROVE  Carried
<1>1. /\ calls[c].step = "publish" /\ published' = published \cup {<<calls[c].order, calls[c].write>>}
      /\ UNCHANGED <<inbox, sweeps, taints>>
  BY DEF Pay!Publish, Pay!taints, taints
<1>2. calls[c] \in PP!Tasks
  BY DEF SagaInv, PP!PaymentInv, PP!TypeOK
<1>3. calls[c].order \in Orders /\ calls[c].write \in Pay!Outcomes
  BY <1>1, <1>2 DEF PP!Tasks, PP!Ready, PP!Done, PP!Outcomes, Pay!Outcomes
<1>4. PICK o \in Orders, e \in Pay!Outcomes : o = calls[c].order /\ e = calls[c].write
  BY <1>3
<1>5. PP!Announcing(o, e)
  BY <1>1, <1>4 DEF PP!Announcing
<1>6. \A w \in Sweeps : \A p \in sweeps'[w].announce : sweeps'[w].announce = {p}
  BY <1>1 DEF SagaInv, SagaType
<1>7. Announcing({<<o, e>>})
  BY <1>4 DEF Announcing, Deliver
<1> QED
  BY <1>1, <1>4, <1>5, <1>6, <1>7, AnnounceCarries

\* and a sweep's, which has one order to announce.
LEMMA SweepPublishCarries ==
  ASSUME SagaInv, NEW w \in Sweeps, Pay!SweepPublish(w), Announcing(sweeps[w].announce \X {"EXPIRED"})
  PROVE  Carried
<1>1. /\ sweeps[w].announce # {} /\ sweeps' = [sweeps EXCEPT ![w].announce = {}]
      /\ published' = published \cup (sweeps[w].announce \X {"EXPIRED"})
      /\ UNCHANGED <<inbox, taints>>
  BY DEF Pay!SweepPublish, Pay!taints, taints
<1>2. PICK o \in Orders : sweeps[w].announce = {o}
  BY <1>1 DEF SagaInv, SagaType, PP!PaymentInv, PP!TypeOK
<1>3. sweeps[w].announce \X {"EXPIRED"} = {<<o, "EXPIRED">>}
  BY <1>2
<1>4. PP!Announcing(o, "EXPIRED") /\ "EXPIRED" \in Pay!Outcomes
  BY <1>2 DEF PP!Announcing, Pay!Outcomes
<1>5. \A v \in Sweeps : \A p \in sweeps'[v].announce : sweeps'[v].announce = {p}
  <2>1. sweeps'[w].announce = {} /\ \A v \in Sweeps \ {w} : sweeps'[v] = sweeps[v]
    BY <1>1 DEF SagaInv, PP!PaymentInv, PP!TypeOK
  <2> QED
    BY <2>1 DEF SagaInv, SagaType
<1>6. Announcing({<<o, "EXPIRED">>})
  BY <1>3 DEF Announcing, Deliver
<1> QED
  BY <1>1, <1>3, <1>4, <1>5, <1>6, AnnounceCarries

-----------------------------------------------------------------------------
(* The consumers of the outcomes, redelivery, retrying and restocking.     *)

\* An event that a group still has to handle was published.
LEMMA HandledFields ==
  ASSUME SagaInv, NEW g \in Groups, NEW o \in Orders, NEW e \in Pay!Outcomes,
         Handled(g, <<o, e>>), UNCHANGED payVars
  PROVE  /\ e \in Outcomes(o) /\ UNCHANGED <<inbox, sweeps, published, taints>>
         /\ todo' \in [Groups -> SUBSET published']
         /\ \A f \in Groups : \A p : \A x : <<p, x>> \in todo'[f] <=>
              <<p, x>> \in todo[f] /\ ~(f = g /\ p = o /\ x = e)
<1>1. UNCHANGED <<inbox, sweeps, published, taints>>
  BY DEF payVars
<1>2. <<o, e>> \in todo[g] /\ todo \in [Groups -> SUBSET published]
  BY DEF Handled, SagaInv, SagaType
<1>3. /\ todo' \in [Groups -> SUBSET published]
      /\ \A f \in Groups : \A x : x \in todo'[f] <=> x \in todo[f] /\ ~(f = g /\ x = <<o, e>>)
  BY <1>1, HandledEffect DEF SagaInv
<1> QED
  BY <1>1, <1>2, <1>3 DEF Outcomes

\* The order is shown as its outcome says.
LEMMA OrdersConsumeCarries ==
  ASSUME SagaInv, NEW o \in Orders, NEW e \in Pay!Outcomes, OrdersConsume(o, e) PROVE Carried
<1>1. /\ Handled("orders", <<o, e>>) /\ order[o] # "NONE"
      /\ order' = [order EXCEPT ![o] = OrderStatus(e)]
      /\ UNCHANGED <<status, creating, shipped, torn>> /\ UNCHANGED payVars
  BY DEF OrdersConsume, invVars
<1>2. /\ e \in Outcomes(o) /\ UNCHANGED <<inbox, sweeps, published, taints>>
      /\ todo' \in [Groups -> SUBSET published']
      /\ \A f \in Groups : \A p : \A x : <<p, x>> \in todo'[f] <=>
           <<p, x>> \in todo[f] /\ ~(f = "orders" /\ p = o /\ x = e)
  BY <1>1, HandledFields DEF Groups
<1>3. /\ order'[o] = IF e = "APPROVED" THEN "PAID" ELSE "CANCELLED"
      /\ \A p \in Orders \ {o} : order'[p] = order[p]
  BY <1>1 DEF OrderStatus, SagaInv, SagaType
<1>4. SagaType'
  <2>1. order' \in [Orders -> {"NONE", "PENDING_PAYMENT", "PAID", "CANCELLED"}]
    BY <1>1 DEF OrderStatus, SagaInv, SagaType
  <2> QED
    BY <1>1, <1>2, <2>1 DEF SagaInv, SagaType
<1>5. \A p \in Orders \ {o} : Still(p)
  BY <1>1, <1>2, <1>3 DEF Still
<1>6. Outcomes(o)' = Outcomes(o) /\ Outcomes(o) \subseteq Pay!Outcomes
  BY <1>2, SameNews DEF Outcomes
<1>7. PICK st \in Inv!Statuses : Settled(o, st) /\ Explained(o, st)
  BY DEF SagaInv, OrderInv
<1>8. Settled(o, st)'
  BY <1>1, <1>7 DEF Settled
<1>9. Created(o) /\ Followed(o)
  BY DEF SagaInv, OrderInv
<1>10. OrderInv(o)'
  <2>1. Created(o)'
    BY <1>1, <1>2, <1>3, <1>9 DEF Created
  <2>2. Followed(o)'
    BY <1>1, <1>2, <1>3, <1>6, <1>9 DEF Followed, Groups, Pay!Outcomes, Pay!Closed
  <2>3. Explained(o, st)'
    BY <1>1, <1>2, <1>3, <1>6, <1>7 DEF Explained, Groups
  <2> QED
    BY <1>8, <2>1, <2>2, <2>3 DEF OrderInv
<1>11. ASSUME o \in Guarded PROVE Follows(o)
  <2>1. o \in Guarded'
    BY <1>1, <1>2, <1>11 DEF Guarded, taints
  <2>2. Verdict(o) = IF e = "APPROVED" THEN "paid" ELSE "closed"
    BY <1>2, <1>11, OutcomeDecides
  <2>3. Verdict(o)' = Verdict(o)
    BY <1>1, <1>6, <1>11, <2>1 DEF Verdict
  <2>4. Stock(o)' = Stock(o)
    BY <1>7, <1>8, StockIs
  <2>5. order[o] = "PENDING_PAYMENT" \/ order'[o] = order[o]
    <3>1. order[o] \in {"PENDING_PAYMENT", "PAID", "CANCELLED"}
      BY <1>1 DEF SagaInv, SagaType
    <3>2. order[o] = "PAID" => e = "APPROVED"
      BY <1>2, <1>9, <1>11, OneOutcome DEF Followed, Pay!Outcomes, Pay!Closed
    <3>3. order[o] = "CANCELLED" => e # "APPROVED"
      BY <1>2, <1>9, <1>11, OneOutcome DEF Followed
    <3> QED
      BY <1>3, <3>1, <3>2, <3>3
  <2>6. /\ Verdicts[o] = Verdict(o) /\ Verdicts'[o] = Verdict(o) /\ Stocks'[o] = Stocks[o]
        /\ Shown[o] = order[o] /\ Shown'[o] = order'[o] /\ SentKept(o)
    BY <1>1, <1>11, <2>1, <2>3, <2>4, Sees DEF SentKept
  <2> QED
    BY <1>3, <2>2, <2>5, <2>6 DEF Follows, Rests, Turns
<1> QED
  BY <1>1, <1>2, <1>4, <1>5, <1>10, <1>11, OneMoves

\* Its stock is settled as the outcome says, if it was still held.
LEMMA InventoryConsumeCarries ==
  ASSUME SagaInv, NEW o \in Orders, NEW e \in Pay!Outcomes, InventoryConsume(o, e) PROVE Carried
<1>1. /\ Handled("inventory", <<o, e>>) /\ Inv!SettleDone(o, Target(e))
      /\ UNCHANGED <<order, creating, shipped, torn>> /\ UNCHANGED payVars
  BY DEF InventoryConsume
<1>2. /\ e \in Outcomes(o) /\ UNCHANGED <<inbox, sweeps, published, taints>>
      /\ todo' \in [Groups -> SUBSET published']
      /\ \A f \in Groups : \A p : \A x : <<p, x>> \in todo'[f] <=>
           <<p, x>> \in todo[f] /\ ~(f = "inventory" /\ p = o /\ x = e)
  BY <1>1, HandledFields DEF Groups
<1>3. SagaType'
  BY <1>1, <1>2 DEF SagaInv, SagaType
<1>4. PICK t \in Inv!Statuses : t = Target(e) /\ t = IF e = "APPROVED" THEN "CONFIRMED" ELSE "RELEASED"
  BY DEF Target, Inv!Statuses
<1>5. /\ \A p \in Orders \ {o} : status'[p] = status[p]
      /\ \A st : Settled(o, st) => Settled(o, IF st = "RESERVED" THEN t ELSE st)'
  BY <1>1, <1>4, SettleEffect DEF SagaInv
<1>6. \A p \in Orders \ {o} : Still(p)
  BY <1>1, <1>2, <1>5 DEF Still
<1>7. Outcomes(o)' = Outcomes(o) /\ Outcomes(o) \subseteq Pay!Outcomes
  BY <1>2, SameNews DEF Outcomes
<1>8. PICK st \in Inv!Statuses : Settled(o, st) /\ Explained(o, st)
  BY DEF SagaInv, OrderInv
<1>9. PICK nx \in Inv!Statuses : nx = (IF st = "RESERVED" THEN t ELSE st)
  OBVIOUS
<1>10. Settled(o, nx)'
  BY <1>5, <1>8, <1>9
<1>11. Created(o) /\ Followed(o)
  BY DEF SagaInv, OrderInv
<1>12. OrderInv(o)'
  <2>1. Created(o)'
    BY <1>1, <1>2, <1>11 DEF Created
  <2>2. Followed(o)'
    BY <1>1, <1>2, <1>7, <1>11 DEF Followed, Groups
  <2>3. Explained(o, nx)'
    BY <1>1, <1>2, <1>4, <1>7, <1>8, <1>9 DEF Explained, Pay!Closed, Pay!Outcomes
  <2> QED
    BY <1>10, <2>1, <2>2, <2>3 DEF OrderInv
<1>13. ASSUME o \in Guarded PROVE Follows(o)
  <2>1. o \in Guarded'
    BY <1>1, <1>2, <1>13 DEF Guarded, taints
  <2>2. Verdict(o) = IF e = "APPROVED" THEN "paid" ELSE "closed"
    BY <1>2, <1>13, OutcomeDecides
  <2>3. Verdict(o)' = Verdict(o)
    BY <1>1, <1>7, <1>13, <2>1 DEF Verdict
  <2>4. Stock(o) = StockOf(st) /\ Stock(o)' = StockOf(nx)
    BY <1>8, <1>10, StockIs
  <2>5. /\ Verdicts[o] = Verdict(o) /\ Verdicts'[o] = Verdict(o)
        /\ Stocks[o] = StockOf(st) /\ Stocks'[o] = StockOf(nx)
        /\ Shown'[o] = Shown[o] /\ SentKept(o)
    BY <1>1, <1>13, <2>1, <2>3, <2>4, Sees DEF SentKept
  <2> QED
    BY <1>4, <1>9, <2>2, <2>5 DEF Follows, Rests, Turns, StockOf
<1> QED
  BY <1>1, <1>2, <1>3, <1>6, <1>12, <1>13, OneMoves

\* Its parcel is sent once it is paid.
LEMMA ShippingConsumeCarries ==
  ASSUME SagaInv, NEW o \in Orders, ShippingConsume(o) PROVE Carried
<1>1. /\ Handled("shipping", <<o, "APPROVED">>) /\ shipped' = shipped \cup {o}
      /\ UNCHANGED <<status, order, creating, torn>> /\ UNCHANGED payVars
  BY DEF ShippingConsume, invVars
<1>2. /\ "APPROVED" \in Outcomes(o) /\ UNCHANGED <<inbox, sweeps, published, taints>>
      /\ todo' \in [Groups -> SUBSET published']
      /\ \A f \in Groups : \A p : \A x : <<p, x>> \in todo'[f] <=>
           <<p, x>> \in todo[f] /\ ~(f = "shipping" /\ p = o /\ x = "APPROVED")
  BY <1>1, HandledFields DEF Groups, Pay!Outcomes
<1>3. SagaType'
  BY <1>1, <1>2 DEF SagaInv, SagaType
<1>4. \A p \in Orders \ {o} : Still(p)
  BY <1>1, <1>2 DEF Still
<1>5. Outcomes(o)' = Outcomes(o) /\ Outcomes(o) \subseteq Pay!Outcomes
  BY <1>2, SameNews DEF Outcomes
<1>6. PICK st \in Inv!Statuses : Settled(o, st) /\ Explained(o, st)
  BY DEF SagaInv, OrderInv
<1>7. Settled(o, st)'
  BY <1>1, <1>6 DEF Settled
<1>8. Created(o) /\ Followed(o)
  BY DEF SagaInv, OrderInv
<1>9. OrderInv(o)'
  <2>1. Created(o)'
    BY <1>1, <1>2, <1>8 DEF Created
  <2>2. Followed(o)'
    BY <1>1, <1>2, <1>5, <1>8 DEF Followed, Groups
  <2>3. Explained(o, st)'
    BY <1>1, <1>2, <1>5, <1>6 DEF Explained, Groups
  <2> QED
    BY <1>7, <2>1, <2>2, <2>3 DEF OrderInv
<1>10. ASSUME o \in Guarded PROVE Follows(o)
  <2>1. o \in Guarded'
    BY <1>1, <1>2, <1>10 DEF Guarded, taints
  <2>2. Verdict(o) = "paid"
    BY <1>2, <1>10, OutcomeDecides DEF Pay!Outcomes
  <2>3. Verdict(o)' = Verdict(o)
    BY <1>1, <1>5, <1>10, <2>1 DEF Verdict
  <2>4. Stock(o)' = Stock(o)
    BY <1>6, <1>7, StockIs
  <2>5. /\ Verdicts[o] = "paid" /\ Verdicts'[o] = "paid" /\ Stocks'[o] = Stocks[o]
        /\ Shown'[o] = Shown[o] /\ o \in Sent'
    BY <1>1, <1>10, <2>1, <2>2, <2>3, <2>4, Sees
  <2> QED
    BY <2>5 DEF Follows, Rests, Turns, SentKept
<1> QED
  BY <1>1, <1>2, <1>3, <1>4, <1>9, <1>10, OneMoves

\* A group gets an event again: more to handle, nothing new.
LEMMA RedeliverCarries ==
  ASSUME SagaInv, NEW g \in Groups, NEW ev \in published, Redeliver(g, ev) PROVE Carried
<1>1. /\ todo' = [todo EXCEPT ![g] = @ \cup {ev}]
      /\ UNCHANGED <<status, order, creating, shipped, torn>>
      /\ UNCHANGED <<inbox, sweeps, published, taints>>
  BY DEF Redeliver, invVars
<1>2. \A f \in Groups : todo[f] \subseteq todo'[f] /\ todo'[f] \subseteq published
  BY <1>1 DEF SagaInv, SagaType
<1>3. SagaType'
  BY <1>1 DEF SagaInv, SagaType
<1>4. ASSUME NEW o \in Orders PROVE OrderInv(o)'
  <2>1. Outcomes(o)' = Outcomes(o)
    BY <1>1, SameNews
  <2>2. PICK st \in Inv!Statuses : Settled(o, st) /\ Explained(o, st)
    BY DEF SagaInv, OrderInv
  <2>3. Settled(o, st)'
    BY <1>1, <2>2 DEF Settled
  <2>4. Created(o)'
    BY <1>1 DEF SagaInv, OrderInv, Created
  <2>5. Followed(o) /\ \A f \in Groups : \A x : <<o, x>> \in todo[f] => <<o, x>> \in todo'[f]
    BY <1>2 DEF SagaInv, OrderInv
  <2>6. Followed(o)'
    BY <1>1, <2>1, <2>5 DEF Followed, Groups
  <2>7. Explained(o, st)'
    BY <1>1, <2>1, <2>2, <2>5 DEF Explained, Groups
  <2> QED
    BY <2>3, <2>4, <2>6, <2>7 DEF OrderInv
<1>5. Guarded' = Guarded /\ \A o \in Guarded : o \in Orders
  BY <1>1 DEF Guarded, taints
<1>6. ASSUME NEW o \in Guarded' PROVE Rests(o)
  <2>1. Outcomes(o)' = Outcomes(o)
    BY <1>1, SameNews
  <2>2. Verdict(o)' = Verdict(o)
    BY <1>1, <1>5, <2>1 DEF Verdict
  <2>3. Stock(o)' = Stock(o)
    BY <1>1 DEF Stock, Held, Settled, Inv!SkusOf
  <2> QED
    BY <1>1, <1>5, <2>2, <2>3, Sees DEF Rests, Turns, SentKept
<1> QED
  BY <1>3, <1>4, <1>5, <1>6, TaintsVoid DEF Carried

\* A cancelled order has its reservation rows, so it cannot reserve again.
LEMMA RetryPaymentCarries ==
  ASSUME SagaInv, NEW o \in Orders, RetryPayment(o) PROVE Carried
<1>1. /\ order[o] = "CANCELLED" /\ Inv!Reserve(o)
      /\ UNCHANGED <<order, creating, todo, shipped, torn>> /\ UNCHANGED payVars
  BY DEF RetryPayment
<1>2. UNCHANGED <<inbox, sweeps, published, taints>>
  BY <1>1 DEF payVars
<1>3. ~Settled(o, "NONE")
  <2>1. PICK st \in Inv!Statuses : Settled(o, st) /\ Explained(o, st)
    BY DEF SagaInv, OrderInv
  <2>2. st # "NONE"
    BY <1>1, <2>1 DEF Explained, SagaInv, OrderInv, Created
  <2> QED
    BY <2>1, <2>2, OneState
<1>4. \A p \in Orders : status'[p] = status[p]
  BY <1>1, <1>3, ReserveEffect DEF SagaInv
<1>5. \A p \in Orders : Still(p)
  BY <1>1, <1>2, <1>4 DEF Still
<1>6. Guarded' \subseteq Guarded /\ SagaType'
  BY <1>1, <1>2 DEF Guarded, taints, SagaInv, SagaType
<1> QED
  BY <1>5, <1>6, NobodyMoves

\* Restocking is about no order.
LEMMA RestockCarries ==
  ASSUME SagaInv, NEW s \in Skus, NEW n \in StockLevels, Restock(s, n) PROVE Carried
<1>1. UNCHANGED <<status, order, creating, shipped, torn>> /\ UNCHANGED <<todo, payVars>>
  BY DEF Restock, Inv!UpsertItem, Inv!recordVars, sagaVars
<1>2. UNCHANGED <<inbox, sweeps, published, taints>> /\ UNCHANGED todo
  BY <1>1 DEF payVars
<1>3. \A o \in Orders : Still(o)
  BY <1>1, <1>2 DEF Still
<1>4. Guarded' \subseteq Guarded /\ SagaType'
  BY <1>1, <1>2 DEF Guarded, taints, SagaInv, SagaType
<1> QED
  BY <1>3, <1>4, NobodyMoves

-----------------------------------------------------------------------------
(* The steps of the components.                                            *)

\* Of the inventory, the saga takes the steps of its model, and no other.
LEMMA InventorySteps == [Next]_vars => [IP!Next]_IP!vars
<1> USE DEF IP!Next, IP!ConfirmReservation, IP!ReleaseReservation
<1>1. UNCHANGED invVars => UNCHANGED IP!vars
  BY DEF invVars, IP!vars, IP!stockVars, IP!recordVars, IP!historyVars
<1>2. ASSUME NEW o \in Orders, CreateReserve(o) \/ RetryPayment(o) PROVE IP!Next
  BY <1>2, SameInventory DEF CreateReserve, RetryPayment
<1>3. ASSUME NEW o \in Orders, CreateUndo(o) PROVE IP!Next
  BY <1>3, SameInventory DEF CreateUndo
<1>4. ASSUME NEW o \in Orders, NEW e \in Pay!Outcomes, InventoryConsume(o, e) PROVE IP!Next
  <2>1. PICK t \in {"CONFIRMED", "RELEASED"} : t = Target(e)
    BY DEF Target
  <2>2. IP!SettleDone(o, t)
    BY <1>4, <2>1, SameInventory DEF InventoryConsume
  <2> QED
    BY <2>2
<1>5. ASSUME NEW s \in Skus, NEW n \in StockLevels, Restock(s, n) PROVE IP!Next
  BY <1>5, SameInventory DEF Restock
<1>6. ASSUME NEW o \in Orders,
             \/ CreateSave(o) \/ CreatePublish(o) \/ CreateSaveFails(o) \/ CreatePublishFails(o)
             \/ CreateCrash(o) \/ PayConsumer(o) \/ PayAge(o) \/ ShippingConsume(o)
      PROVE  UNCHANGED invVars
  BY <1>6 DEF CreateSave, CreatePublish, CreateSaveFails, CreatePublishFails, CreateCrash,
              PayConsumer, PayAge, ShippingConsume, Quietly, Announcing
<1>7. ASSUME NEW o \in Orders, NEW e \in Pay!Outcomes, OrdersConsume(o, e) PROVE UNCHANGED invVars
  BY <1>7 DEF OrdersConsume
<1>8. ASSUME NEW c \in Calls, PayContinue(c) \/ \E o \in Orders : PayRequest(c, o)
      PROVE  UNCHANGED invVars
  BY <1>8 DEF PayContinue, PayRequest, Quietly, Announcing
<1>9. ASSUME NEW w \in Sweeps, PaySweep(w) PROVE UNCHANGED invVars
  BY <1>9 DEF PaySweep, Quietly, Announcing
<1>10. ASSUME NEW g \in Groups, NEW ev \in published, Redeliver(g, ev) PROVE UNCHANGED invVars
  BY <1>10 DEF Redeliver
<1>11. PayFails => UNCHANGED invVars
  BY DEF PayFails, Quietly
<1>12. UNCHANGED vars => UNCHANGED invVars
  BY DEF vars
<1> QED
  BY <1>1, <1>2, <1>3, <1>4, <1>5, <1>6, <1>7, <1>8, <1>9, <1>10, <1>11, <1>12
     DEF Next, Create, Consume

\* A step that is not the payments service's keeps its invariant: at most it
\* hands it a first message.
LEMMA OthersKeepPayments ==
  ASSUME SagaInv, UNCHANGED <<payment, due, calls, sweeps, published, lost, raced, notified, revived>>,
         \/ UNCHANGED inbox
         \/ \E o \in Orders : inbox[o] = "none" /\ inbox' = [inbox EXCEPT ![o] = "waiting"]
  PROVE  PP!PaymentInv'
<1>1. /\ \A o \in Orders : inbox'[o] = "none" => inbox[o] = "none"
      /\ \A o \in Orders : inbox'[o] = "publish" <=> inbox[o] = "publish"
      /\ \A o \in Orders : inbox'[o] = "acked" => inbox[o] = "acked"
  BY DEF SagaInv, PP!PaymentInv, PP!TypeOK
<1>2. PP!TypeOK'
  BY DEF SagaInv, PP!PaymentInv, PP!TypeOK
<1>3. PP!PaymentInv /\ \A o \in Orders : inbox[o] \in {"publish", "acked"} => payment[o] # "NONE"
  BY DEF SagaInv, PP!PaymentInv, PP!Fresh
<1>4. \A o \in Orders : \A s : PP!Announcing(o, s)' <=> PP!Announcing(o, s)
  BY <1>1 DEF PP!Announcing
<1>5. /\ \A o \in Orders, s \in PP!Outcomes : PP!Known(o, s)' <=> PP!Known(o, s)
      /\ \A o \in Orders : PP!Told(o)' => PP!Told(o)
  BY <1>4 DEF PP!Known, PP!Told
<1>6. /\ \A o \in Orders, c \in Calls : PP!CallHolds(c, o)' => PP!CallHolds(c, o)
      /\ \A o \in Orders, c \in Calls : PP!Opens(c, o)' => PP!Opens(c, o)
      /\ \A o \in Orders, w \in Sweeps : PP!SweepHolds(w, o)' => PP!SweepHolds(w, o)
  BY DEF PP!CallHolds, PP!Opens, PP!SweepHolds
<1>7. \A o \in Orders : inbox'[o] \in {"publish", "acked"} => payment[o] # "NONE"
  BY <1>1, <1>3
<1>8. UNCHANGED <<payment, raced, notified, revived>>
  OBVIOUS
<1> QED
  BY <1>1, <1>2, <1>3, <1>5, <1>6, <1>7, <1>8, ComponentsAssumed, PP!QuietKeeps DEF PP!QuietKeeps

\* Of the payments, it takes the steps of their model, or such a one.
LEMMA PaymentsKeep == ASSUME SagaInv, [Next]_vars PROVE PP!PaymentInv'
<1> USE DEF PP!Next
<1>1. PP!Next => PP!PaymentInv'
  BY ComponentsAssumed, PP!PaymentInductive DEF PP!PaymentInductive, SagaInv
<1>2. ASSUME UNCHANGED payVars PROVE PP!PaymentInv'
  BY <1>2, OthersKeepPayments DEF payVars, taints
<1>3. ASSUME NEW o \in Orders, CreatePublish(o) PROVE PP!Next
  BY <1>3, SamePayments DEF CreatePublish
<1>4. ASSUME NEW o \in Orders, PayConsumer(o) PROVE PP!Next
  BY <1>4, SamePayments DEF PayConsumer, Pay!Process
<1>5. ASSUME NEW o \in Orders, PayAge(o) PROVE PP!Next
  BY <1>5, SamePayments DEF PayAge
<1>6. ASSUME NEW c \in Calls, NEW o \in Orders, PayRequest(c, o) PROVE PP!Next
  BY <1>6, SamePayments DEF PayRequest, Pay!Request
<1>7. ASSUME NEW c \in Calls, PayContinue(c) PROVE PP!Next
  BY <1>7, SamePayments DEF PayContinue, Pay!Continue
<1>8. ASSUME NEW w \in Sweeps, PaySweep(w) PROVE PP!Next
  BY <1>8, SamePayments DEF PaySweep, Pay!Sweep
<1>9. ASSUME PayFails PROVE PP!Next
  BY <1>9, SamePayments DEF PayFails
<1>10. ASSUME NEW o \in Orders, CreatePublishFails(o) PROVE PP!PaymentInv'
  <2>1. creating[o] = "publish"
    BY <1>10 DEF CreatePublishFails, Creating
  <2>2. inbox[o] = "none"
    BY <2>1 DEF SagaInv, OrderInv, Created
  <2> QED
    BY <1>10, <2>2, OthersKeepPayments DEF CreatePublishFails, taints
<1>11. ASSUME \/ \E o \in Orders : CreateSaveFails(o) \/ CreateCrash(o)
              \/ \E g \in Groups, ev \in published : Redeliver(g, ev)
       PROVE  PP!PaymentInv'
  BY <1>11, OthersKeepPayments DEF CreateSaveFails, CreateCrash, Redeliver, taints
<1>12. ASSUME NEW o \in Orders,
              \/ CreateReserve(o) \/ CreateSave(o) \/ CreateUndo(o) \/ RetryPayment(o)
              \/ ShippingConsume(o)
              \/ \E e \in Pay!Outcomes : OrdersConsume(o, e) \/ InventoryConsume(o, e)
       PROVE  UNCHANGED payVars
  BY <1>12 DEF CreateReserve, CreateSave, CreateUndo, RetryPayment, ShippingConsume,
               OrdersConsume, InventoryConsume
<1>13. ASSUME NEW s \in Skus, NEW n \in StockLevels, Restock(s, n) PROVE UNCHANGED payVars
  BY <1>13 DEF Restock
<1>14. UNCHANGED vars => UNCHANGED payVars
  BY DEF vars
<1> QED
  BY <1>1, <1>2, <1>3, <1>4, <1>5, <1>6, <1>7, <1>8, <1>9, <1>10, <1>11, <1>12, <1>13, <1>14
     DEF Next, Create, Consume

-----------------------------------------------------------------------------
(* The invariant, and the abstract specification.                          *)

\* At the start nothing was ordered.
LEMMA SagaStarts == Init => SagaInv /\ Life!Init
<1> SUFFICES ASSUME Init PROVE SagaInv /\ Life!Init
  OBVIOUS
<1>1. IP!Init /\ PP!Init
  BY SameInventory, SamePayments DEF Init
<1>2. IP!TypeOK
  BY <1>1, ComponentsAssumed, IP!TypeInit DEF IP!TypeInit
<1>3. PP!PaymentInv
  BY <1>1, ComponentsAssumed, PP!PaymentStarts DEF PP!PaymentStarts
<1>4. SagaType
  BY <1>1 DEF Init, SagaType, PP!Init, PP!Idle
<1>5. \A o \in Orders : Settled(o, "NONE") /\ Outcomes(o) = {} /\ o \in Guarded
  BY <1>1 DEF Init, IP!Init, PP!Init, Settled, Outcomes, Guarded, Inv!SkusOf
<1>6. \A o \in Orders : creating[o] = "idle" /\ order[o] = "NONE" /\ inbox[o] = "none"
  BY <1>1 DEF Init, PP!Init
<1>7. ASSUME NEW o \in Orders PROVE OrderInv(o)
  <2>1. Created(o)
    BY <1>6 DEF Created
  <2>2. Followed(o)
    BY <1>5, <1>6 DEF Followed, Init
  <2>3. Explained(o, "NONE")
    BY <1>6 DEF Explained
  <2> QED
    BY <1>5, <2>1, <2>2, <2>3 DEF OrderInv, Inv!Statuses
<1>8. SagaInv
  BY <1>2, <1>3, <1>4, <1>7 DEF SagaInv
<1>9. \A o \in Orders : Verdict(o) = "none" /\ Stock(o) = "free"
  BY <1>5, <1>6, StockIs DEF Verdict, StockOf, Inv!Statuses
<1>10. shipped = {}
  BY DEF Init
<1> QED
  BY <1>5, <1>6, <1>8, <1>9, <1>10 DEF Life!Init

\* Every step keeps the invariant, and is one of OrderLifecycle's or none.
LEMMA SagaStep == ASSUME SagaInv, [Next]_vars PROVE SagaInv' /\ [Life!Next]_Life!vars
<1>1. IP!TypeOK'
  BY InventorySteps, ComponentsAssumed, IP!TypeStep DEF IP!TypeStep, SagaInv
<1>2. PP!PaymentInv'
  BY PaymentsKeep
<1>3. CASE UNCHANGED vars
  <2>1. /\ UNCHANGED <<status, order, creating, shipped, torn>>
        /\ UNCHANGED <<inbox, sweeps, published, todo, taints>>
    BY <1>3 DEF vars, invVars, payVars, sagaVars
  <2>2. SagaType' /\ (\A o \in Orders : Still(o)) /\ Guarded' \subseteq Guarded
    BY <2>1 DEF SagaInv, SagaType, Still, Guarded, taints
  <2> QED
    BY <1>1, <1>2, <2>2, NobodyMoves DEF Carried, SagaInv
<1>4. ASSUME NEW o \in Orders,
             Create(o) \/ CreateSaveFails(o) \/ CreatePublishFails(o) \/ CreateCrash(o)
      PROVE  Carried
  BY <1>4, CreateReserveCarries, CreateSaveCarries, CreatePublishCarries, CreateUndoCarries,
     CreateSaveFailsCarries, CreatePublishFailsCarries, CreateCrashCarries DEF Create
<1>5. ASSUME NEW o \in Orders, PayConsumer(o) \/ PayAge(o) \/ RetryPayment(o) PROVE Carried
  BY <1>5, ConsumerRests, ProcessPublishCarries, RetryPaymentCarries DEF PayConsumer, PayAge
<1>6. ASSUME NEW c \in Calls, PayContinue(c) \/ \E o \in Orders : PayRequest(c, o) PROVE Carried
  BY <1>6, RequestRests, PublishCarries DEF PayContinue, PayRequest
<1>7. ASSUME NEW w \in Sweeps, PaySweep(w) PROVE Carried
  BY <1>7, SweepRests, SweepPublishCarries DEF PaySweep
<1>8. ASSUME PayFails PROVE Carried
  BY <1>8, RequestRests, SweepRests, ConsumerRests, CrashRests DEF PayFails
<1>9. ASSUME Consume PROVE Carried
  BY <1>9, OrdersConsumeCarries, InventoryConsumeCarries, ShippingConsumeCarries DEF Consume
<1>10. ASSUME NEW g \in Groups, NEW ev \in published, Redeliver(g, ev) PROVE Carried
  BY <1>10, RedeliverCarries
<1>11. ASSUME NEW s \in Skus, NEW n \in StockLevels, Restock(s, n) PROVE Carried
  BY <1>11, RestockCarries
<1>12. Next => Carried
  BY <1>4, <1>5, <1>6, <1>7, <1>8, <1>9, <1>10, <1>11 DEF Next
<1> QED
  BY <1>1, <1>2, <1>3, <1>12 DEF Carried, SagaInv

\* The invariant always holds.
THEOREM SagaIsSound == Spec => []SagaInv
BY SagaStarts, SagaStep, PTL DEF Spec

\* The saga implements OrderLifecycle: for every order that met none of the
\* interleavings the services leave unguarded, the first outcome announced
\* decides it, each service follows that decision at most once, and none of
\* them goes back on it.
THEOREM ImplementsLifecycle == Spec => FollowsLifecycle
<1>1. Spec => [](SagaInv) /\ [][Next]_vars /\ Init
  BY SagaIsSound, PTL DEF Spec
<1>2. Init => Life!Init
  BY SagaStarts
<1>3. SagaInv /\ [Next]_vars => [Life!Next]_Life!vars
  BY SagaStep
<1> QED
  BY <1>1, <1>2, <1>3, PTL DEF FollowsLifecycle, Life!Spec

\* Of the inventory the saga uses what its model has: whatever is proved of
\* Inventory holds of the stock in the saga.
THEOREM InventoryImplemented == Spec => IP!Spec
<1>1. Init => IP!Init
  BY SameInventory DEF Init
<1> QED
  BY <1>1, InventorySteps, PTL DEF Spec, IP!Spec

-----------------------------------------------------------------------------
(* What follows from the invariant.                                        *)

\* The events on their way are those PaymentsProofs counts.
LEMMA SameInFlight ==
  ASSUME SagaInv, NEW o \in Orders, NEW e
  PROVE  <<o, e>> \in Pay!InFlight <=> PP!Announcing(o, e)
<1>1. Pay!InFlight = PP!InFlight
  BY DEF Pay!InFlight, PP!InFlight
<1> QED
  BY <1>1, ComponentsAssumed, PP!InFlightPairs DEF PP!InFlightPairs, SagaInv, PP!PaymentInv

\* Stock that is held is held for somebody: its order is being created, its
\* payment is open, or the event that will settle it is on its way.
THEOREM HeldIsClaimed == Spec => []HeldStockClaimed
<1>1. ASSUME SagaInv, NEW o \in Orders, Held(o)
      PROVE  \/ creating[o] \in {"save", "publish"} \/ Unheard(o)
             \/ inbox[o] \in {"waiting", "save"} \/ payment[o] = "PENDING"
             \/ \E e \in Pay!Outcomes : <<o, e>> \in todo["inventory"] \cup Pay!InFlight
  <2>1. Explained(o, "RESERVED") /\ Created(o)
    BY <1>1, OneState DEF SagaInv, OrderInv
  <2>2. SUFFICES ASSUME creating[o] = "done"
                 PROVE  \/ Unheard(o) \/ inbox[o] \in {"waiting", "save"} \/ payment[o] = "PENDING"
                        \/ \E e \in Pay!Outcomes : <<o, e>> \in todo["inventory"] \cup Pay!InFlight
    BY <1>1, <2>1 DEF Explained, Unheard, SagaInv, SagaType
  <2>3. inbox[o] # "none" /\ inbox[o] \in {"none", "waiting", "save", "publish", "acked"}
    BY <1>1, <2>1, <2>2 DEF Explained, Created, SagaInv, PP!PaymentInv, PP!TypeOK
  <2>4. CASE inbox[o] \in {"publish", "acked"}
    <3>1. payment[o] # "NONE" /\ payment[o] \in PP!Statuses
      BY <1>1, <2>4 DEF SagaInv, PP!PaymentInv, PP!TypeOK, PP!Fresh
    <3>2. CASE payment[o] = "PENDING"
      BY <3>2
    <3>3. CASE payment[o] \in PP!Outcomes
      <4>1. PICK e \in PP!Outcomes : e = payment[o]
        BY <3>3
      <4>2. PP!Known(o, e)
        BY <1>1, <4>1 DEF SagaInv, PP!PaymentInv
      <4>3. e \in Pay!Outcomes
        BY DEF PP!Outcomes, Pay!Outcomes
      <4>4. CASE <<o, e>> \in published
        <5>1. <<o, e>> \in todo["inventory"]
          BY <2>1, <4>3, <4>4 DEF Explained, Outcomes
        <5> QED
          BY <4>3, <5>1
      <4>5. CASE <<o, e>> \in lost
        BY <4>3, <4>5 DEF Unheard
      <4>6. CASE PP!Announcing(o, e)
        BY <1>1, <4>3, <4>6, SameInFlight
      <4> QED
        BY <4>2, <4>4, <4>5, <4>6 DEF PP!Known
    <3> QED
      BY <3>1, <3>2, <3>3 DEF PP!Statuses
  <2> QED
    BY <2>3, <2>4
<1>2. SagaInv => HeldStockClaimed
  BY <1>1 DEF HeldStockClaimed
<1> QED
  BY <1>2, SagaIsSound, PTL

\* The lines of a guarded order that has an outcome are held, or follow it.
LEMMA StockFollowsOutcome ==
  ASSUME SagaInv, NEW o \in Guarded, NEW e \in Outcomes(o)
  PROVE  /\ Settled(o, IF e = "APPROVED" THEN "CONFIRMED" ELSE "RELEASED")
              \/ (Held(o) /\ \A x \in Outcomes(o) : <<o, x>> \in todo["inventory"])
         /\ order[o] = "PAID" => e = "APPROVED"
         /\ order[o] = "CANCELLED" => e # "APPROVED"
         /\ o \in shipped => e = "APPROVED"
         /\ payment[o] = "APPROVED" <=> e = "APPROVED"
<1>1. o \in Orders /\ e \in Pay!Outcomes
  BY DEF Guarded, Outcomes
<1>2. creating[o] = "done" /\ order[o] # "NONE"
  BY <1>1, OutcomeDecides
<1>3. e = "APPROVED" \/ e \in Pay!Closed
  BY <1>1 DEF Pay!Outcomes, Pay!Closed
<1>4. "APPROVED" \in Outcomes(o) <=> e = "APPROVED"
  BY <1>3, OneOutcome
<1>5. Outcomes(o) \cap Pay!Closed # {} <=> e # "APPROVED"
  BY <1>3, OneOutcome DEF Pay!Closed
<1>6. Followed(o)
  BY <1>1 DEF SagaInv, OrderInv
<1>7. PICK st \in Inv!Statuses : Settled(o, st) /\ Explained(o, st)
  BY <1>1 DEF SagaInv, OrderInv
<1>8. \/ st = IF e = "APPROVED" THEN "CONFIRMED" ELSE "RELEASED"
      \/ st = "RESERVED" /\ \A x \in Outcomes(o) : <<o, x>> \in todo["inventory"]
  BY <1>2, <1>4, <1>5, <1>7 DEF Explained, Inv!Statuses
<1>9. payment[o] = "APPROVED" <=> e = "APPROVED"
  <2>1. o \in Orders \ (raced \cup notified) /\ o \in Orders \ (raced \cup notified \cup revived)
    BY DEF Guarded
  <2>2. PP!Guarded(o) /\ PP!Calm(o)
    BY <2>1 DEF SagaInv, PP!PaymentInv
  <2>3. <<o, e>> \in published
    BY DEF Outcomes
  <2>4. CASE e = "APPROVED"
    BY <2>2, <2>3, <2>4 DEF PP!Guarded, PP!Told
  <2>5. CASE e \in Pay!Closed
    <3>1. payment[o] \in PP!Closed
      BY <2>2, <2>3, <2>5 DEF PP!Calm, PP!Known, Pay!Closed, PP!Closed
    <3> QED
      BY <2>5, <3>1 DEF Pay!Closed, PP!Closed
  <2> QED
    BY <1>3, <2>4, <2>5
<1> QED
  BY <1>1, <1>4, <1>5, <1>6, <1>7, <1>8, <1>9, OneState DEF Followed

\* An order and its stock never tell different stories, in whatever order the
\* groups get the events and however often, as long as the payment only went
\* through the status guards.
THEOREM OrdersMatchStock == Spec => []OrderMatchesStock
<1>1. ASSUME SagaInv, NEW o \in Guarded
      PROVE  /\ order[o] = "PAID" => Settled(o, "CONFIRMED") \/ Held(o)
             /\ order[o] = "CANCELLED" => Settled(o, "RELEASED") \/ Held(o)
             /\ o \in shipped => ~Settled(o, "RELEASED")
  <2>1. o \in Orders /\ Followed(o)
    BY <1>1 DEF Guarded, SagaInv, OrderInv
  <2>2. order[o] \in {"PAID", "CANCELLED"} \/ o \in shipped => \E e : e \in Outcomes(o)
    BY <2>1 DEF Followed
  <2>3. ASSUME NEW e \in Outcomes(o)
        PROVE  /\ order[o] = "PAID" => Settled(o, "CONFIRMED") \/ Held(o)
               /\ order[o] = "CANCELLED" => Settled(o, "RELEASED") \/ Held(o)
               /\ o \in shipped => Settled(o, "CONFIRMED") \/ Held(o)
    BY <1>1, StockFollowsOutcome
  <2>4. Settled(o, "CONFIRMED") \/ Held(o) => ~Settled(o, "RELEASED")
    BY <2>1, OneState
  <2> QED
    BY <2>2, <2>3, <2>4
<1>2. SagaInv => OrderMatchesStock
  BY <1>1 DEF OrderMatchesStock
<1> QED
  BY <1>2, SagaIsSound, PTL

\* For those, once every event about the order is handled, the four services
\* agree.
THEOREM ServicesInAgreement == Spec => []ServicesAgree
<1>1. ASSUME SagaInv, NEW o \in Guarded, Outcomes(o) # {},
             \A g \in Groups, e \in Pay!Outcomes : <<o, e>> \notin todo[g] \cup Pay!InFlight
      PROVE  IF payment[o] = "APPROVED"
               THEN order[o] = "PAID" /\ Settled(o, "CONFIRMED") /\ o \in shipped
               ELSE order[o] = "CANCELLED" /\ Settled(o, "RELEASED") /\ o \notin shipped
  <2>1. PICK e : e \in Outcomes(o)
    BY <1>1
  <2>2. o \in Orders /\ Followed(o) /\ e \in Pay!Outcomes
    BY <1>1, <2>1 DEF Guarded, SagaInv, OrderInv, Outcomes
  <2>3. \A g \in Groups : <<o, e>> \notin todo[g]
    BY <1>1, <2>2
  <2>4. order[o] \in {"PAID", "CANCELLED"} /\ (e = "APPROVED" => o \in shipped)
    BY <2>1, <2>2, <2>3 DEF Followed, Groups
  <2>5. Settled(o, IF e = "APPROVED" THEN "CONFIRMED" ELSE "RELEASED")
    BY <1>1, <2>1, <2>3, StockFollowsOutcome DEF Groups
  <2>6. /\ order[o] = "PAID" => e = "APPROVED"
        /\ order[o] = "CANCELLED" => e # "APPROVED"
        /\ o \in shipped => e = "APPROVED"
        /\ payment[o] = "APPROVED" <=> e = "APPROVED"
    BY <1>1, <2>1, StockFollowsOutcome
  <2> QED
    BY <2>4, <2>5, <2>6
<1>2. SagaInv => ServicesAgree
  BY <1>1 DEF ServicesAgree
<1> QED
  BY <1>2, SagaIsSound, PTL

\* Whoever has an order has its reservation rows, for good: what RetryPayment
\* reserves again breaks the primary key, and never succeeds.
THEOREM NoSecondReservation == Spec => []NeverReservedAgain
<1>1. ASSUME SagaInv, NEW o \in Orders, order[o] # "NONE", NEW s \in Inv!SkusOf(o)
      PROVE  Inv!DuplicateRow(o, s)
  <2>1. PICK st \in Inv!Statuses : Settled(o, st) /\ Explained(o, st)
    BY <1>1 DEF SagaInv, OrderInv
  <2>2. st # "NONE"
    BY <1>1, <2>1 DEF Explained, SagaInv, OrderInv, Created
  <2> QED
    BY <1>1, <2>1, <2>2 DEF Settled, Inv!DuplicateRow
<1>2. SagaInv => NeverReservedAgain
  BY <1>1 DEF NeverReservedAgain
<1> QED
  BY <1>2, SagaIsSound, PTL

\* No administrator has deleted a row or lowered a count under a reservation.
Untouched == orphaned = {} /\ lowered = {}

\* No line of any order breaks a CHECK when it is settled.
CanSettle == \A o \in Orders, t \in {"CONFIRMED", "RELEASED"} : Inv!KeepsChecks(o, t)

\* In the saga an order can always be settled, so leaving the settlement that
\* breaks a CHECK out of InventoryConsume and CreateUndo leaves nothing out.
THEOREM SettlementAlwaysPossible == Spec => []CanSettle
<1>1. IP!Spec => [](IP!StockInv)
  BY ComponentsAssumed, IP!StockCorrect DEF IP!StockCorrect
<1>2. IP!Spec => [](IP!SettleNeverBlocked)
  BY ComponentsAssumed, IP!SettlementNeverBlocked DEF IP!SettlementNeverBlocked
<1>3. Init => Untouched
  BY SameInventory DEF Init, IP!Init, Untouched
<1>4. ASSUME IP!StockInv, Untouched, [Next]_vars PROVE Untouched'
  <2>1. ASSUME NEW o \in Orders, Inv!Reserve(o) \/ \E t : Inv!SettleDone(o, t) PROVE Untouched'
    BY <1>4, <2>1 DEF Untouched, Inv!Reserve, Inv!ReserveAccepted, Inv!ReserveRejected,
          Inv!ReserveFailed, Inv!SettleDone, Inv!historyVars, Inv!ReserveLines
  <2>2. ASSUME NEW s \in Skus, NEW n \in StockLevels, Restock(s, n) PROVE Untouched'
    <3>1. reserved[s] <= onHand[s] /\ reserved[s] \in Nat /\ onHand[s] \in Nat /\ n \in Nat
      BY <1>4, SagaAssumption DEF Untouched, IP!StockInv, IP!NoOversell, IP!TypeOK
    <3>2. ~(n < reserved[s])
      BY <2>2, <3>1 DEF Restock
    <3> QED
      BY <1>4, <2>2, <3>2 DEF Untouched, Restock, Inv!UpsertItem
  <2>3. UNCHANGED invVars => Untouched'
    BY <1>4 DEF invVars, Untouched
  <2> QED
    BY <1>4, <2>1, <2>2, <2>3 DEF Next, vars, Create, Consume, CreateReserve, CreateSave,
       CreateSaveFails, CreatePublish, CreatePublishFails, CreateUndo, CreateCrash, PayConsumer,
       PayAge, PayRequest, PayContinue, PaySweep, PayFails, Announcing, Quietly, RetryPayment,
       Restock, Redeliver, OrdersConsume, InventoryConsume, ShippingConsume
<1>5. IP!SettleNeverBlocked /\ Untouched => CanSettle
  BY DEF CanSettle, IP!SettleNeverBlocked, IP!Targets, Untouched, IP!KeepsChecks, Inv!KeepsChecks,
         IP!HeldSkus, Inv!HeldSkus
<1> QED
  BY <1>1, <1>2, <1>3, <1>4, <1>5, InventoryImplemented, PTL DEF Spec

-----------------------------------------------------------------------------
(* The dashboard beside the saga (Dashboard).                              *)

\* The payments change by the steps of their model alone.
LEMMA PaymentSteps == [Next]_vars => PP!Next \/ UNCHANGED payment
<1> USE DEF PP!Next
<1>1. ASSUME NEW o \in Orders, PayConsumer(o) \/ PayAge(o) \/ CreatePublish(o) PROVE PP!Next
  BY <1>1, SamePayments DEF PayConsumer, PayAge, CreatePublish, Pay!Process
<1>2. ASSUME NEW c \in Calls, PayContinue(c) \/ \E o \in Orders : PayRequest(c, o) PROVE PP!Next
  BY <1>2, SamePayments DEF PayContinue, PayRequest, Pay!Continue, Pay!Request
<1>3. ASSUME NEW w \in Sweeps, PaySweep(w) PROVE PP!Next
  BY <1>3, SamePayments DEF PaySweep, Pay!Sweep
<1>4. ASSUME PayFails PROVE PP!Next
  BY <1>4, SamePayments DEF PayFails
<1>5. ASSUME NEW o \in Orders,
             \/ CreateReserve(o) \/ CreateSave(o) \/ CreateUndo(o) \/ CreateSaveFails(o)
             \/ CreatePublishFails(o) \/ CreateCrash(o) \/ RetryPayment(o) \/ ShippingConsume(o)
             \/ \E e \in Pay!Outcomes : OrdersConsume(o, e) \/ InventoryConsume(o, e)
      PROVE  UNCHANGED payment
  BY <1>5 DEF CreateReserve, CreateSave, CreateUndo, CreateSaveFails, CreatePublishFails,
              CreateCrash, RetryPayment, ShippingConsume, OrdersConsume, InventoryConsume, payVars
<1>6. ASSUME \/ \E g \in Groups, ev \in published : Redeliver(g, ev)
             \/ \E s \in Skus, n \in StockLevels : Restock(s, n)
      PROVE  UNCHANGED payment
  BY <1>6 DEF Redeliver, Restock, payVars
<1>7. UNCHANGED vars => UNCHANGED payment
  BY DEF vars, payVars
<1> QED
  BY <1>1, <1>2, <1>3, <1>4, <1>5, <1>6, <1>7 DEF Next, Create, Consume

\* What is tainted or torn stays so.
LEMMA GuardedShrinks == ASSUME [Next]_vars PROVE Guarded' \subseteq Guarded
<1>1. ASSUME NEW c \in Calls, NEW o \in Orders, PayRequest(c, o) PROVE Guarded' \subseteq Guarded
  BY <1>1 DEF PayRequest, Guarded, Quietly, sagaVars, Pay!ConfirmYape, Pay!FailYape,
              Pay!ExpireYape, Pay!CulqiWebhook, Pay!CreateCharge, Pay!Begin
<1>2. ASSUME NEW c \in Calls, PayContinue(c) PROVE UNCHANGED <<taints, torn>>
  BY <1>2 DEF PayContinue, Quietly, Announcing, sagaVars, Pay!ChargeAnswered, Pay!ChargeErrored,
              Pay!Update, Pay!Publish, Pay!taints, taints
<1>3. ASSUME NEW w \in Sweeps, PaySweep(w) PROVE Guarded' \subseteq Guarded
  BY <1>3 DEF PaySweep, Guarded, Quietly, Announcing, sagaVars, Pay!SweepRead, Pay!SweepUpdate,
              Pay!SweepPublish, Pay!taints
<1>4. ASSUME NEW o \in Orders, PayConsumer(o) \/ PayAge(o) PROVE UNCHANGED <<taints, torn>>
  BY <1>4 DEF PayConsumer, PayAge, Quietly, Announcing, sagaVars, Pay!ProcessRead, Pay!ProcessSave,
              Pay!ProcessPublish, Pay!Age, Pay!taints, taints
<1>5. ASSUME PayFails PROVE UNCHANGED <<taints, torn>>
  BY <1>5 DEF PayFails, Quietly, sagaVars, Pay!PublishFails, Pay!SweepPublishFails,
              Pay!ProcessPublishFails, Pay!Crash, Pay!taints, taints
<1>6. ASSUME NEW o \in Orders,
             \/ CreateReserve(o) \/ CreateSave(o) \/ CreateUndo(o) \/ CreateSaveFails(o)
             \/ CreateCrash(o) \/ RetryPayment(o) \/ ShippingConsume(o) \/ CreatePublish(o)
             \/ \E e \in Pay!Outcomes : OrdersConsume(o, e) \/ InventoryConsume(o, e)
      PROVE  UNCHANGED <<taints, torn>>
  BY <1>6 DEF CreateReserve, CreateSave, CreateUndo, CreateSaveFails, CreateCrash, RetryPayment,
              ShippingConsume, CreatePublish, OrdersConsume, InventoryConsume, payVars,
              Pay!OrderCreated, Pay!taints, taints
<1>7. ASSUME NEW o \in Orders, CreatePublishFails(o) PROVE Guarded' \subseteq Guarded
  BY <1>7 DEF CreatePublishFails, Guarded, taints
<1>8. ASSUME \/ \E g \in Groups, ev \in published : Redeliver(g, ev)
             \/ \E s \in Skus, n \in StockLevels : Restock(s, n)
      PROVE  UNCHANGED <<taints, torn>>
  BY <1>8 DEF Redeliver, Restock, payVars, sagaVars
<1>9. UNCHANGED vars => UNCHANGED <<taints, torn>>
  BY DEF vars, payVars, sagaVars
<1>10. UNCHANGED <<taints, torn>> => Guarded' \subseteq Guarded
  BY DEF taints, Guarded
<1> QED
  BY <1>1, <1>2, <1>3, <1>4, <1>5, <1>6, <1>7, <1>8, <1>9, <1>10 DEF Next, Create, Consume

\* A guarded order that is paid has an approved payment; one with an approved
\* payment is paid, or is about to hear of it.
LEMMA PaidIsApproved ==
  ASSUME SagaInv, NEW o \in Guarded
  PROVE  /\ order[o] = "PAID" => payment[o] = "APPROVED"
         /\ payment[o] = "APPROVED" =>
              \/ order[o] = "PAID" \/ Unheard(o)
              \/ <<o, "APPROVED">> \in todo["orders"] \cup Pay!InFlight
<1>1. o \in Orders /\ Followed(o) /\ "APPROVED" \in Pay!Outcomes /\ "APPROVED" \in PP!Outcomes
  BY DEF Guarded, SagaInv, OrderInv, Pay!Outcomes, PP!Outcomes
<1>2. order[o] = "PAID" => payment[o] = "APPROVED"
  BY <1>1, StockFollowsOutcome DEF Followed
<1>3. ASSUME payment[o] = "APPROVED", <<o, "APPROVED">> \in published
      PROVE  order[o] = "PAID" \/ <<o, "APPROVED">> \in todo["orders"]
  <2>1. "APPROVED" \in Outcomes(o)
    BY <1>1, <1>3 DEF Outcomes
  <2>2. order[o] # "CANCELLED"
    BY <2>1, StockFollowsOutcome
  <2> QED
    BY <1>1, <2>1, <2>2 DEF Followed
<1>4. payment[o] = "APPROVED" => PP!Known(o, "APPROVED")
  BY <1>1 DEF SagaInv, PP!PaymentInv
<1>5. PP!Announcing(o, "APPROVED") => <<o, "APPROVED">> \in Pay!InFlight
  BY <1>1, SameInFlight
<1> QED
  BY <1>1, <1>2, <1>3, <1>4, <1>5 DEF PP!Known, Unheard

\* The guarded orders of S have approved payments.
Approved(S) == \A o \in S \cap Guarded : payment[o] = "APPROVED"

\* Once approved, a guarded order's payment stays approved.
LEMMA ApprovedKept == ASSUME SagaInv, [Next]_vars, NEW S, Approved(S) PROVE Approved(S)'
<1>1. SUFFICES ASSUME NEW o \in S \cap Guarded, payment[o] = "APPROVED"
               PROVE  payment'[o] = "APPROVED"
  BY GuardedShrinks DEF Approved
<1>2. PP!PaymentInv /\ o \in Orders \ (raced \cup notified)
  BY DEF SagaInv, Guarded
<1>3. PP!Next => payment'[o] = "APPROVED"
  BY <1>1, <1>2, ComponentsAssumed, PP!ApprovedStays DEF PP!ApprovedStays
<1> QED
  BY <1>1, <1>3, PaymentSteps

\* What the page was answered, or reports, is about approved payments.
DashboardInv ==
  \/ \E paid, approved :
       /\ dashboard = [shown |-> FALSE, paid |-> paid, approved |-> approved]
       /\ paid = Unread \/ Approved(paid)
       /\ approved = Unread \/ Approved(approved)
  \/ \E paid, approved :
       /\ dashboard = Reconciliation(paid, approved)
       /\ Approved(paid) /\ Approved(approved)

\* It stays so while the saga goes on, and whichever answer comes first.
LEMMA DashboardStep ==
  ASSUME SagaInv, DashboardInv, [DashboardNext]_<<vars, dashboard>>
  PROVE  DashboardInv'
<1>1. ASSUME [Next]_vars, UNCHANGED dashboard PROVE DashboardInv'
  <2>1. \A S : Approved(S) => Approved(S)'
    BY <1>1, ApprovedKept
  <2> QED
    BY <1>1, <2>1 DEF DashboardInv
<1>2. ASSUME UNCHANGED vars, ~dashboard.shown, GetAllOrders \/ GetAllPayments \/ LoadDashboard
      PROVE  DashboardInv'
  <2>1. PICK paid, approved :
          /\ dashboard = [shown |-> FALSE, paid |-> paid, approved |-> approved]
          /\ paid = Unread \/ Approved(paid)
          /\ approved = Unread \/ Approved(approved)
    BY <1>2 DEF DashboardInv, Reconciliation
  <2>2. \A S : Approved(S) => Approved(S)'
    BY <1>2, ApprovedKept
  <2>3. Approved(PaidOrders)
    BY PaidIsApproved DEF Approved, PaidOrders
  <2>4. Approved(ApprovedPayments)
    BY DEF Approved, ApprovedPayments
  <2>5. CASE GetAllOrders
    <3>1. dashboard' = [shown |-> FALSE, paid |-> PaidOrders, approved |-> approved]
      BY <2>1, <2>5 DEF GetAllOrders
    <3> QED
      BY <2>1, <2>2, <2>3, <3>1 DEF DashboardInv
  <2>6. CASE GetAllPayments
    <3>1. dashboard' = [shown |-> FALSE, paid |-> paid, approved |-> ApprovedPayments]
      BY <2>1, <2>6 DEF GetAllPayments
    <3> QED
      BY <2>1, <2>2, <2>4, <3>1 DEF DashboardInv
  <2>7. CASE LoadDashboard
    <3>1. dashboard' = Reconciliation(paid, approved) /\ paid # Unread /\ approved # Unread
      BY <2>1, <2>7 DEF LoadDashboard
    <3> QED
      BY <2>1, <2>2, <3>1 DEF DashboardInv, Reconciliation
  <2> QED
    BY <1>2, <2>5, <2>6, <2>7
<1> QED
  BY <1>1, <1>2 DEF DashboardNext, GetAllOrders, GetAllPayments, LoadDashboard

\* What the dashboard reports of guarded orders is no discrepancy any more or
\* one that the saga is about to settle, although its two lists were read at
\* different moments.
THEOREM DashboardReportsSettle == DashboardSpec => []ReportsSettle
<1>1. DashboardSpec => [](SagaInv) /\ DashboardInit /\ [][DashboardNext]_<<vars, dashboard>>
  <2>1. DashboardInit => Init
    BY DEF DashboardInit
  <2>2. [DashboardNext]_<<vars, dashboard>> => [Next]_vars
    BY DEF DashboardNext, GetAllOrders, GetAllPayments, LoadDashboard
  <2> QED
    BY <2>1, <2>2, SagaIsSound, PTL DEF DashboardSpec, Spec
<1>2. DashboardInit => DashboardInv
  BY DEF DashboardInit, DashboardInv
<1>3. ASSUME SagaInv, DashboardInv PROVE ReportsSettle
  <2>1. CASE dashboard.shown
    <3>1. PICK paid, approved :
            dashboard = Reconciliation(paid, approved) /\ Approved(paid) /\ Approved(approved)
      BY <1>3, <2>1 DEF DashboardInv
    <3>2. /\ dashboard.paidOrdersWithoutPayment \subseteq paid
          /\ dashboard.approvedPaymentsWithoutOrder \subseteq approved
      BY <3>1 DEF Reconciliation
    <3>3. /\ \A o \in dashboard.paidOrdersWithoutPayment \cap Guarded : payment[o] = "APPROVED"
          /\ \A o \in dashboard.approvedPaymentsWithoutOrder \cap Guarded : payment[o] = "APPROVED"
      BY <3>1, <3>2 DEF Approved
    <3> QED
      BY <1>3, <3>3, PaidIsApproved DEF ReportsSettle
  <2> QED
    BY <2>1 DEF ReportsSettle
<1> QED
  BY <1>1, <1>2, <1>3, DashboardStep, PTL

=============================================================================
