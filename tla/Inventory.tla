----------------------------- MODULE Inventory -----------------------------
(***************************************************************************)
(* The stock repository of the inventory service: the rows of              *)
(* inventory_items, inventory_reservations and stock_movements, and every  *)
(* operation that writes them.  Each operation of the code is one database *)
(* transaction, which locks the rows it reads, and here one step.          *)
(*                                                                         *)
(* A SKU is a (product_id, variant_id) pair, the key of inventory_items.   *)
(* Lines[o][s] is the quantity of s in order o, 0 when o has no line for   *)
(* s: it is fixed when the order is created and every later call for the   *)
(* order carries the same lines.                                           *)
(***************************************************************************)
EXTENDS Integers, FiniteSets, Sequences

CONSTANTS Orders,       \* order ids
          Skus,         \* (product_id, variant_id) pairs
          Lines,        \* Lines[o][s], the units of s that order o asks for
          StockLevels   \* the on-hand quantities an administrator may set

ASSUME InventoryAssumption ==
  /\ IsFiniteSet(Orders)
  /\ Lines \in [Orders -> [Skus -> Nat]]
  /\ StockLevels \subseteq Nat

VARIABLES
  rows,       \* SKUs that have an inventory_items row
  onHand,     \* quantity_on_hand; 0 where there is no row
  reserved,   \* quantity_reserved; 0 where there is no row
  active,     \* SKUs whose row has status ACTIVE
  status,     \* inventory_reservations.status of (order, SKU), or "NONE"
  ledger,     \* movement_type of the stock_movements rows of (order, SKU)
  answer,     \* what the last call made for the order came back with
  orphaned,   \* history: SKUs whose row was deleted under a live reservation
  lowered     \* history: SKUs last set by hand below what is reserved

stockVars   == <<rows, onHand, reserved, active>>
recordVars  == <<status, ledger>>
historyVars == <<orphaned, lowered>>
vars        == <<stockVars, recordVars, answer, historyVars>>

Statuses == {"NONE", "RESERVED", "CONFIRMED", "RELEASED"}
Targets  == {"CONFIRMED", "RELEASED"}
Answers  == {"none", "reserved", "rejected", "failed", "settled"}

-----------------------------------------------------------------------------
SkusOf(o) == {s \in Skus : Lines[o][s] > 0}

\* The lines of the order that still hold stock: the rows the transition
\* selects with status = 'RESERVED'.
HeldSkus(o) == {s \in Skus : status[o][s] = "RESERVED"}

\* The individual units of s that RESERVED rows stand for, one pair <<o, i>>
\* per unit, so that counting them adds the quantities up.
HeldUnits(s) ==
  UNION {{o} \X (1..Lines[o][s]) : o \in {h \in Orders : status[h][s] = "RESERVED"}}

Available(s) == onHand[s] - reserved[s]

Mutant_CanReserve(o, s) == s \in rows \cap active /\ onHand[s] >= Lines[o][s]
CanReserve(o, s) == s \in rows \cap active /\ Available(s) >= Lines[o][s]

\* INSERT INTO inventory_reservations breaks the primary key when the order
\* already has a row for the SKU, whatever its status.
Mutant_DuplicateRow(o, s) == status[o][s] = "RESERVED"
DuplicateRow(o, s) == status[o][s] # "NONE"

Init ==
  /\ rows = {}
  /\ onHand = [s \in Skus |-> 0]
  /\ reserved = [s \in Skus |-> 0]
  /\ active = {}
  /\ status = [o \in Orders |-> [s \in Skus |-> "NONE"]]
  /\ ledger = [o \in Orders |-> [s \in Skus |-> <<>>]]
  /\ answer = [o \in Orders |-> "none"]
  /\ orphaned = {}
  /\ lowered = {}

-----------------------------------------------------------------------------
(* reserve: every line in one transaction, all of them or none.            *)

Answer(o, a) == answer' = [answer EXCEPT ![o] = a]

\* The writes of the lines in S: COMMITted only when no line was rejected.
ReserveLines(o, S) ==
  /\ reserved' = [s \in Skus |-> IF s \in S THEN reserved[s] + Lines[o][s]
                                            ELSE reserved[s]]
  /\ status' = [status EXCEPT ![o] = [s \in Skus |-> IF s \in S THEN "RESERVED" ELSE @[s]]]
  /\ ledger' = [ledger EXCEPT ![o] = [s \in Skus |-> IF s \in S THEN Append(@[s], "RESERVE")
                                                                ELSE @[s]]]
  /\ UNCHANGED <<rows, onHand, active, historyVars>>

ReserveAccepted(o) ==
  /\ \A s \in SkusOf(o) : CanReserve(o, s) /\ ~DuplicateRow(o, s)
  /\ ReserveLines(o, SkusOf(o))
  /\ Answer(o, "reserved")

\* Some line was rejected: ROLLBACK, the caller gets the results.
ReserveRejected(o) ==
  /\ \E s \in SkusOf(o) : ~CanReserve(o, s)
  /\ \A s \in SkusOf(o) : CanReserve(o, s) => ~DuplicateRow(o, s)
  /\ Answer(o, "rejected")
  /\ UNCHANGED <<stockVars, recordVars, historyVars>>

\* An INSERT broke the primary key: ROLLBACK and throw.
ReserveFailed(o) ==
  /\ \E s \in SkusOf(o) : CanReserve(o, s) /\ DuplicateRow(o, s)
  /\ Answer(o, "failed")
  /\ UNCHANGED <<stockVars, recordVars, historyVars>>

Reserve(o) == ReserveAccepted(o) \/ ReserveRejected(o) \/ ReserveFailed(o)

-----------------------------------------------------------------------------
(* confirmReservation and releaseReservation: settle every RESERVED row of *)
(* the order, in one transaction.  An UPDATE of a missing inventory_items  *)
(* row changes nothing and is not an error; one that would make a quantity *)
(* negative breaks a CHECK of the table and rolls everything back.         *)

KeepsChecks(o, target) ==
  \A s \in HeldSkus(o) \cap rows :
    /\ reserved[s] >= Lines[o][s]
    /\ target = "CONFIRMED" => onHand[s] >= Lines[o][s]

Movement(target) == IF target = "CONFIRMED" THEN "COMMIT" ELSE "RELEASE"

\* f less the quantities of the order's held lines that have a row.
TakeHeld(f, o) ==
  [s \in Skus |-> IF s \in HeldSkus(o) \cap rows THEN f[s] - Lines[o][s] ELSE f[s]]

SettleDone(o, target) ==
  /\ KeepsChecks(o, target)
  /\ reserved' = TakeHeld(reserved, o)
  /\ onHand' = IF target = "CONFIRMED" THEN TakeHeld(onHand, o) ELSE onHand
  /\ status' = [status EXCEPT ![o] =
                 [s \in Skus |-> IF s \in HeldSkus(o) THEN target ELSE @[s]]]
  /\ ledger' = [ledger EXCEPT ![o] =
                 [s \in Skus |-> IF s \in HeldSkus(o) THEN Append(@[s], Movement(target))
                                                      ELSE @[s]]]
  /\ Answer(o, "settled")
  /\ UNCHANGED <<rows, active, historyVars>>

SettleFailed(o, target) ==
  /\ ~KeepsChecks(o, target)
  /\ Answer(o, "failed")
  /\ UNCHANGED <<stockVars, recordVars, historyVars>>

ConfirmReservation(o) == SettleDone(o, "CONFIRMED") \/ SettleFailed(o, "CONFIRMED")
ReleaseReservation(o) == SettleDone(o, "RELEASED") \/ SettleFailed(o, "RELEASED")

-----------------------------------------------------------------------------
(* The administrator's operations and the catalog's events.                *)

\* upsertItem: sets the absolute on-hand quantity and the status of a row it
\* creates when there is none; quantity_reserved of an existing row stays.
UpsertItem(s, n, a) ==
  /\ rows' = rows \cup {s}
  /\ onHand' = [onHand EXCEPT ![s] = n]
  /\ active' = IF a THEN active \cup {s} ELSE active \ {s}
  /\ lowered' = IF n < reserved[s] THEN lowered \cup {s} ELSE lowered \ {s}
  /\ UNCHANGED <<reserved, recordVars, answer, orphaned>>

\* ensureItem: catalog.product.created and catalog.variant.created insert an
\* empty row, with the status of the product; ON CONFLICT DO NOTHING.
Mutant_EnsureItem(s, a) ==
  /\ rows' = rows \cup {s}
  /\ active' = IF a THEN active \cup {s} ELSE active
  /\ reserved' = [reserved EXCEPT ![s] = 0]
  /\ UNCHANGED <<onHand, recordVars, answer, historyVars>>
EnsureItem(s, a) ==
  /\ s \notin rows
  /\ rows' = rows \cup {s}
  /\ active' = IF a THEN active \cup {s} ELSE active
  /\ UNCHANGED <<onHand, reserved, recordVars, answer, historyVars>>

\* deleteItem: the row goes whatever is reserved on it.
DeleteItem(s) ==
  /\ s \in rows
  /\ rows' = rows \ {s}
  /\ onHand' = [onHand EXCEPT ![s] = 0]
  /\ reserved' = [reserved EXCEPT ![s] = 0]
  /\ active' = active \ {s}
  /\ orphaned' = IF HeldUnits(s) # {} THEN orphaned \cup {s} ELSE orphaned \ {s}
  /\ lowered' = lowered \ {s}
  /\ UNCHANGED <<recordVars, answer>>

Next ==
  \/ \E o \in Orders : Reserve(o) \/ ConfirmReservation(o) \/ ReleaseReservation(o)
  \/ \E s \in Skus, a \in BOOLEAN : EnsureItem(s, a)
  \/ \E s \in Skus, n \in StockLevels, a \in BOOLEAN : UpsertItem(s, n, a)
  \/ \E s \in Skus : DeleteItem(s)

Spec == Init /\ [][Next]_vars

-----------------------------------------------------------------------------
(* Properties.                                                             *)

\* Every column keeps its type and its CHECK: quantities stay at or above 0
\* whatever administrators do to the rows (001_schema.sql, inventory_items).
TypeOK ==
  /\ rows \subseteq Skus /\ active \subseteq rows
  /\ onHand \in [Skus -> Nat] /\ reserved \in [Skus -> Nat]
  /\ \A s \in Skus \ rows : onHand[s] = 0 /\ reserved[s] = 0
  /\ status \in [Orders -> [Skus -> Statuses]]
  /\ ledger \in [Orders -> [Skus -> Seq({"RESERVE", "COMMIT", "RELEASE"})]]
  /\ answer \in [Orders -> Answers]
  /\ orphaned \subseteq Skus /\ lowered \subseteq Skus

\* No phantom reservation: the counter quantity_reserved never exceeds the
\* units of the RESERVED rows, so no stock is blocked for an order that does
\* not hold it, even after rows were deleted and created again.
ReservedBacked == \A s \in Skus : reserved[s] <= Cardinality(HeldUnits(s))

\* The counter and the reservation rows agree exactly, and a held unit has a
\* row to settle on, unless the row was deleted while an order held units.
ReservedExact ==
  \A s \in Skus \ orphaned :
    /\ reserved[s] = Cardinality(HeldUnits(s))
    /\ HeldUnits(s) # {} => s \in rows

\* Stock is never promised twice: what is reserved is on hand, except on a
\* SKU whose count was last set by hand below what was already reserved.
NoOversell == \A s \in Skus \ lowered : reserved[s] <= onHand[s]

\* The handlers of payment.approved, payment.failed and payment.expired can
\* always settle an order: none of its UPDATEs breaks a CHECK (which would
\* have the event delivered again for ever) unless an administrator deleted
\* or lowered one of its SKUs.
SettleNeverBlocked ==
  \A o \in Orders, t \in Targets :
    SkusOf(o) \cap (orphaned \cup lowered) = {} => KeepsChecks(o, t)

\* An order is reserved and settled as a whole: its lines never differ.
AllOrNothing ==
  \A o \in Orders : \A s, t \in SkusOf(o) : status[o][s] = status[o][t]

MovementsOf(st) == CASE st = "NONE"      -> <<>>
                     [] st = "RESERVED"  -> <<"RESERVE">>
                     [] st = "CONFIRMED" -> <<"RESERVE", "COMMIT">>
                     [] st = "RELEASED"  -> <<"RESERVE", "RELEASE">>

\* stock_movements explains every reservation: one RESERVE, then at most one
\* COMMIT or RELEASE, however often the events that cause them are delivered.
LedgerMatches ==
  \A o \in Orders, s \in Skus : ledger[o][s] = MovementsOf(status[o][s])

\* A caller acts on what is true: while no later call was made for the order,
\* the answer "reserved" means that every line is held, and a settlement that
\* returned normally left no line held.
AnswerHonest ==
  \A o \in Orders :
    /\ answer[o] = "reserved" => \A s \in SkusOf(o) : status[o][s] = "RESERVED"
    /\ answer[o] = "settled" => \A s \in SkusOf(o) : status[o][s] # "RESERVED"

\* The first of the competing outcomes of an order wins: a confirmed line is
\* never released, nor a released one confirmed or reserved again.
SettledOnce ==
  [][\A o \in Orders, s \in Skus :
       status[o][s] \in Targets => status'[o][s] = status[o][s]]_vars

\* Confirming a line takes its units off the shelf, unless its row had been
\* deleted under the reservation.
ConfirmTakesStock ==
  [][\A o \in Orders, s \in Skus \ orphaned :
       status[o][s] = "RESERVED" /\ status'[o][s] = "CONFIRMED"
         => onHand'[s] = onHand[s] - Lines[o][s]]_vars

=============================================================================
