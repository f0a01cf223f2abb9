------------------------------ MODULE Shipping ------------------------------
(***************************************************************************)
(* The shipping service: one shipments row per paid order, its history in  *)
(* shipment_events, the consumer of payment.approved that creates the      *)
(* shipment, and the administrator's requests that move its status.        *)
(*                                                                         *)
(* A request reads the row, checks the transition, and writes in a later   *)
(* transaction that does not look at the status again.  happened_at is     *)
(* NOW(), the time the writing transaction began, so beginning and writing *)
(* are steps of their own.  A payment belongs to one order, so the row is  *)
(* named by its order.                                                     *)
(***************************************************************************)
EXTENDS Integers, FiniteSets, Sequences

CONSTANTS Orders,      \* order ids
          Deliveries,  \* messages of payment.approved
          Updates,     \* requests to shipping.update_status, each made once
          MaxFaults    \* bound on crashes and failed publications

ASSUME ShippingAssumption == MaxFaults \in Nat

VARIABLES
  shipment,   \* shipments.status of each order, or "NONE"
  history,    \* its shipment_events, in the order of their ids
  clock,      \* the database's clock
  approvals,  \* the messages of payment.approved: where the consumer is
  updates,    \* the update requests and what they hold in memory
  announced,  \* orders whose shipping.created reached Kafka
  lost,       \* history: orders saved by a consumer that did not announce them
  raced,      \* history: orders a request read while another was to write them
  faults      \* number of crashes and failed publications so far

dbVars == <<shipment, history>>
shipmentVars == <<dbVars, clock, approvals, updates, announced, lost, raced, faults>>

Statuses == {"CREATED", "IN_TRANSIT", "DELIVERED", "FAILED"}

\* allowedTransitions
Allowed == [CREATED    |-> {"IN_TRANSIT", "FAILED"},
            IN_TRANSIT |-> {"DELIVERED", "FAILED"},
            FAILED     |-> {"CREATED"},
            DELIVERED  |-> {}]

Ready == [step |-> "ready"]
Done  == [step |-> "done"]

ShipmentInit ==
  /\ shipment = [o \in Orders |-> "NONE"]
  /\ history = [o \in Orders |-> <<>>]
  /\ clock = 0
  /\ approvals = [d \in Deliveries |-> Ready]
  /\ updates = [u \in Updates |-> Ready]
  /\ announced = {}
  /\ lost = {}
  /\ raced = {}
  /\ faults = 0

\* The time of the clock, which has moved on for whoever reads it next.
Tick == clock' = clock + 1

-----------------------------------------------------------------------------
(* payment.approved: CreateShipmentUseCase.                                *)

\* The payments service announced an approval; it may do so more than once.
PaymentApproved(d, o) ==
  /\ approvals[d] = Ready
  /\ approvals' = [approvals EXCEPT ![d] = [step |-> "waiting", order |-> o]]
  /\ UNCHANGED <<dbVars, clock, updates, announced, lost, faults, raced>>

\* findByPaymentId, and the new shipment with its first event.
CreateRead(d) ==
  LET o == approvals[d].order IN
  /\ approvals[d].step = "waiting"
  /\ IF shipment[o] = "NONE"
       THEN /\ approvals' = [approvals EXCEPT ![d] = [step |-> "save", order |-> o, at |-> clock]]
            /\ Tick
       ELSE /\ approvals' = [approvals EXCEPT ![d] = [step |-> "done", order |-> o]]
            /\ UNCHANGED clock
  /\ UNCHANGED <<dbVars, updates, announced, lost, faults, raced>>

\* save: ON CONFLICT (payment_id) DO NOTHING, and the events with the row.
Mutant_SilentSave(d) ==
  LET o == approvals[d].order IN
  /\ approvals[d].step = "save"
  /\ IF shipment[o] = "NONE"
       THEN /\ shipment' = [shipment EXCEPT ![o] = "CREATED"]
            /\ history' = [history EXCEPT ![o] =
                             <<[status |-> "CREATED", at |-> approvals[d].at]>>]
       ELSE UNCHANGED dbVars
  /\ approvals' = [approvals EXCEPT ![d] = [step |-> "done", order |-> o]]
  /\ UNCHANGED <<clock, updates, announced, lost, faults, raced>>
Mutant_CreateSave(d) ==
  LET o == approvals[d].order IN
  /\ approvals[d].step = "save"
  /\ shipment' = [shipment EXCEPT ![o] = "CREATED"]
  /\ history' = IF shipment[o] = "NONE"
                  THEN [history EXCEPT ![o] = <<[status |-> "CREATED", at |-> approvals[d].at]>>]
                  ELSE history
  /\ approvals' = [approvals EXCEPT ![d] = [step |-> "publish", order |-> o]]
  /\ UNCHANGED <<clock, updates, announced, lost, faults, raced>>
CreateSave(d) ==
  LET o == approvals[d].order IN
  /\ approvals[d].step = "save"
  /\ IF shipment[o] = "NONE"
       THEN /\ shipment' = [shipment EXCEPT ![o] = "CREATED"]
            /\ history' = [history EXCEPT ![o] =
                             <<[status |-> "CREATED", at |-> approvals[d].at]>>]
       ELSE UNCHANGED dbVars
  /\ approvals' = [approvals EXCEPT ![d] = [step |-> "publish", order |-> o]]
  /\ UNCHANGED <<clock, updates, announced, lost, faults, raced>>

CreatePublish(d) ==
  /\ approvals[d].step = "publish"
  /\ announced' = announced \cup {approvals[d].order}
  /\ approvals' = [approvals EXCEPT ![d].step = "done"]
  /\ UNCHANGED <<dbVars, clock, updates, lost, faults, raced>>

CreateShipment(d) == CreateRead(d) \/ CreateSave(d) \/ CreatePublish(d)

-----------------------------------------------------------------------------
(* shipping.update_status: UpdateShipmentStatusUseCase.                    *)

\* A request has read the row and will write it.
RowHeld(o) == \E u \in Updates : updates[u] \notin {Ready, Done} /\ updates[u].order = o

\* findByOrderId and the guard; a request that is refused changes nothing.
UpdateRead(u, o, s) ==
  /\ updates[u] = Ready
  /\ shipment[o] # "NONE" /\ s \in Allowed[shipment[o]]
  /\ updates' = [updates EXCEPT ![u] = [step |-> "begin", order |-> o, status |-> s]]
  /\ raced' = IF RowHeld(o) THEN raced \cup {o} ELSE raced
  /\ UNCHANGED <<dbVars, clock, approvals, announced, lost, faults>>

\* BEGIN
UpdateBegin(u) ==
  LET r == updates[u] IN
  /\ r.step = "begin"
  /\ updates' = [updates EXCEPT ![u] =
                   [step |-> "write", order |-> r.order, status |-> r.status, at |-> clock]]
  /\ Tick
  /\ UNCHANGED <<dbVars, approvals, announced, lost, faults, raced>>

\* UPDATE, INSERT and COMMIT: the row stays locked between them.
Mutant_UpdateWrite(u) ==
  LET r == updates[u] IN
  /\ r.step = "write"
  /\ shipment' = [shipment EXCEPT ![r.order] = r.status]
  /\ history' = [history EXCEPT ![r.order] =
                   Append(@, [status |-> r.status, at |-> Head(@).at])]
  /\ updates' = [updates EXCEPT ![u] = Done]
  /\ UNCHANGED <<clock, approvals, announced, lost, faults, raced>>
UpdateWrite(u) ==
  LET r == updates[u] IN
  /\ r.step = "write"
  /\ shipment' = [shipment EXCEPT ![r.order] = r.status]
  /\ history' = [history EXCEPT ![r.order] = Append(@, [status |-> r.status, at |-> r.at])]
  /\ updates' = [updates EXCEPT ![u] = Done]
  /\ UNCHANGED <<clock, approvals, announced, lost, faults, raced>>

Update(u) == UpdateBegin(u) \/ UpdateWrite(u)

-----------------------------------------------------------------------------
(* Kafka refuses a publication, or the process dies.                       *)

Fault == faults < MaxFaults /\ faults' = faults + 1

InFlight == {approvals[d].order : d \in {e \in Deliveries : approvals[e].step = "publish"}}

\* The consumer throws: the message comes again.
CreatePublishFails(d) ==
  /\ approvals[d].step = "publish"
  /\ Fault
  /\ lost' = lost \cup {approvals[d].order}
  /\ approvals' = [approvals EXCEPT ![d].step = "waiting"]
  /\ UNCHANGED <<dbVars, clock, updates, announced, raced>>

\* Handlers in memory are gone; messages not acknowledged come again, and so
\* may some that were.  An open transaction is rolled back.
Redelivered(again) ==
  [d \in Deliveries |-> IF d \in again \/ approvals[d].step \in {"save", "publish"}
                          THEN [step |-> "waiting", order |-> approvals[d].order]
                          ELSE approvals[d]]

Crash ==
  /\ Fault
  /\ lost' = lost \cup InFlight
  /\ \E again \in SUBSET {d \in Deliveries : approvals[d].step = "done"} :
       approvals' = Redelivered(again)
  /\ updates' = [u \in Updates |-> IF updates[u] = Ready THEN Ready ELSE Done]
  /\ UNCHANGED <<dbVars, clock, announced, raced>>

-----------------------------------------------------------------------------
(* withEvents: ORDER BY happened_at, rows of the same time in any order.   *)

MayBeListedBefore(o, i, j) == history[o][i].at <= history[o][j].at

-----------------------------------------------------------------------------
ShipmentNext ==
  \/ \E d \in Deliveries, o \in Orders : PaymentApproved(d, o)
  \/ \E d \in Deliveries : CreateShipment(d) \/ CreatePublishFails(d)
  \/ \E u \in Updates, o \in Orders, s \in Statuses : UpdateRead(u, o, s)
  \/ \E u \in Updates : Update(u)
  \/ Crash

ShipmentSpec == ShipmentInit /\ [][ShipmentNext]_shipmentVars

\* The consumer polls and an accepted request goes on.
FairShipmentSpec ==
  /\ ShipmentSpec
  /\ \A d \in Deliveries : WF_shipmentVars(CreateShipment(d))
  /\ \A u \in Updates : WF_shipmentVars(Update(u))

-----------------------------------------------------------------------------
(* Properties.                                                             *)

\* The history a customer is shown accounts for the shipment's status however
\* creations and updates interleave and repeat: it starts with the creation,
\* its last row is the current status, and it is empty only without a row.
HistoryExplainsStatus ==
  \A o \in Orders :
    IF history[o] = <<>> THEN shipment[o] = "NONE"
    ELSE /\ history[o][1].status = "CREATED"
         /\ history[o][Len(history[o])].status = shipment[o]

\* The list of events that customers and administrators see is in the order in
\* which they were written, unless a request read the row while another was to write it.
TimelineInOrder ==
  \A o \in Orders \ raced : \A j \in DOMAIN history[o] : \A i \in 1..(j - 1) :
    ~MayBeListedBefore(o, j, i)

\* Every approval that Kafka delivers ends in a shipment that is announced,
\* or whose announcement was lost, in spite of crashes and failures.
ApprovalShips ==
  \A d \in Deliveries, o \in Orders :
    approvals[d] = [step |-> "waiting", order |-> o]
      ~> shipment[o] # "NONE" /\ o \in announced \cup lost

=============================================================================
