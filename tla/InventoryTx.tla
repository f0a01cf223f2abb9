---------------------------- MODULE InventoryTx ----------------------------
(***************************************************************************)
(* The transactions of the stock repository, opened up: reserve locks and  *)
(* checks the items of an order one line after the other, in the order of  *)
(* the request; a settlement locks the order's reservation rows, then      *)
(* updates the items in the order of their keys.  Row locks are held until *)
(* COMMIT or ROLLBACK, other transactions see no write before that, and    *)
(* Postgres ends a deadlock by aborting one of the waiting transactions.   *)
(* Administrators' statements are transactions of their own.               *)
(*                                                                         *)
(* The variables of Inventory are the committed rows; tx[t] is what the    *)
(* transaction on connection t has done so far and still has to do.  A     *)
(* missing row cannot be locked.                                           *)
(***************************************************************************)
EXTENDS Integers, FiniteSets, Sequences, SequencesExt

CONSTANTS Orders, Skus, Lines, StockLevels,  \* Inventory
          Request,   \* Request[o]: the order's SKUs, in the order of its items
          ByKey,     \* all SKUs, by product_id and variant_id
          Txs,       \* connections, each running one transaction after the other
          MaxDeletes \* bound on the deletions of items

ASSUME InventoryTxAssumption ==
  /\ Lines \in [Orders -> [Skus -> Nat]]
  /\ \A o \in Orders : /\ Request[o] \in Seq(Skus)
                       /\ ToSet(Request[o]) = {s \in Skus : Lines[o][s] > 0}
  /\ ByKey \in Seq(Skus) /\ ToSet(ByKey) = Skus
  /\ MaxDeletes \in Nat

VARIABLES
  rows, onHand, reserved, active, status, ledger, answer, orphaned, lowered,
  tx,        \* the transaction of each connection, or Idle
  deletes    \* number of items deleted so far

Inv == INSTANCE Inventory

dbVars      == <<rows, onHand, reserved, active, status, ledger>>
historyVars == <<orphaned, lowered>>
vars        == <<dbVars, answer, historyVars, tx, deletes>>

Idle == [op |-> "idle"]

\* left: SKUs still to visit; written: SKUs whose item was updated; locked:
\* items locked; rejected: whether a line was.
Reserving(o) ==
  [op |-> "reserve", order |-> o, left |-> ToSet(Request[o]),
   written |-> {}, locked |-> {}, rejected |-> FALSE]
\* held: the reservation rows that were selected, and are locked.
Settling(o, target, held) ==
  [op |-> "settle", order |-> o, target |-> target, held |-> held,
   left |-> held, written |-> {}, locked |-> {}]

\* Where a transaction comes by the items it visits.
Mutant_Path(task) == Request[task.order]
Path(task) == IF task.op = "reserve" THEN Request[task.order] ELSE ByKey

\* The item that comes next, of those still to visit.
NextPlace(t) == Min({i \in DOMAIN Path(tx[t]) : Path(tx[t])[i] \in tx[t].left})
NextItem(t)  == Path(tx[t])[NextPlace(t)]

Running   == {t \in Txs : tx[t] # Idle}
Settlers(o) == {t \in Running : tx[t].op = "settle" /\ tx[t].order = o}

Init == Inv!Init /\ tx = [t \in Txs |-> Idle] /\ deletes = 0

-----------------------------------------------------------------------------
(* Locks.                                                                  *)

Holders(s) == {t \in Running : s \in tx[t].locked}

\* Whoever t waits for to lock the next item.
WaitsFor(t) ==
  IF t \in Running /\ tx[t].left # {} THEN Holders(NextItem(t)) \ {t} ELSE {}

Unblocked(t) == WaitsFor(t) = {}

\* The transactions t waits for, directly or through others.
Ahead(t) ==
  {u \in Txs : \A S \in SUBSET Txs :
     (\A v \in S \cup {t} : WaitsFor(v) \subseteq S) => u \in S}

Deadlocked(t) == t \in Running /\ ~Unblocked(t) /\ t \in Ahead(t)

\* The order's caller waits for the answer of its last call.
Begin(t, task) ==
  /\ tx' = [tx EXCEPT ![t] = task]
  /\ answer' = [answer EXCEPT ![task.order] = "none"]
  /\ UNCHANGED <<dbVars, historyVars, deletes>>

End(t, a) ==
  /\ tx' = [tx EXCEPT ![t] = Idle]
  /\ answer' = [answer EXCEPT ![tx[t].order] = a]

\* ROLLBACK, and the connection goes back to the pool: nothing was written
\* for others to see.
Rollback(t, a) == End(t, a) /\ UNCHANGED <<dbVars, historyVars, deletes>>

-----------------------------------------------------------------------------
(* reserve                                                                 *)

Quantity(t, s) == Lines[tx[t].order][s]

BeginReserve(t, o) ==
  /\ tx[t] = Idle
  /\ Begin(t, Reserving(o))

\* SELECT ... FOR UPDATE of the next item.
AtLine(t) == t \in Running /\ tx[t].left # {} /\ Unblocked(t)

Mutant_Locked(t, s) == IF s \in rows /\ tx[t].op = "settle" THEN tx[t].locked \cup {s} ELSE tx[t].locked
Locked(t, s) == IF s \in rows THEN tx[t].locked \cup {s} ELSE tx[t].locked

\* UPDATE of the counter, INSERT of the reservation and of the movement.
ReserveLine(t) ==
  LET s == NextItem(t) IN
  /\ AtLine(t) /\ tx[t].op = "reserve"
  /\ Inv!CanReserve(tx[t].order, s) /\ ~Inv!DuplicateRow(tx[t].order, s)
  /\ tx' = [tx EXCEPT ![t] = [tx[t] EXCEPT !.left = tx[t].left \ {s}, !.locked = Locked(t, s),
                                           !.written = tx[t].written \cup {s}]]
  /\ UNCHANGED <<dbVars, answer, historyVars, deletes>>

RejectLine(t) ==
  LET s == NextItem(t) IN
  /\ AtLine(t) /\ tx[t].op = "reserve"
  /\ ~Inv!CanReserve(tx[t].order, s)
  /\ tx' = [tx EXCEPT ![t] = [tx[t] EXCEPT !.left = tx[t].left \ {s}, !.locked = Locked(t, s),
                                           !.rejected = TRUE]]
  /\ UNCHANGED <<dbVars, answer, historyVars, deletes>>

\* The INSERT of the reservation breaks the primary key.
ReserveThrows(t) ==
  LET s == NextItem(t) IN
  /\ AtLine(t) /\ tx[t].op = "reserve"
  /\ Inv!CanReserve(tx[t].order, s) /\ Inv!DuplicateRow(tx[t].order, s)
  /\ Rollback(t, "failed")

\* The rows of S get the new status and a movement.
Record(o, S, st, movement) ==
  /\ status' = [status EXCEPT ![o] = [s \in Skus |-> IF s \in S THEN st ELSE @[s]]]
  /\ ledger' = [ledger EXCEPT ![o] = [s \in Skus |-> IF s \in S THEN Append(@[s], movement)
                                                                ELSE @[s]]]

ReserveCommit(t) ==
  /\ t \in Running /\ tx[t].op = "reserve" /\ tx[t].left = {}
  /\ ~tx[t].rejected
  /\ reserved' = [s \in Skus |-> IF s \in tx[t].written THEN reserved[s] + Quantity(t, s)
                                                        ELSE reserved[s]]
  /\ Record(tx[t].order, tx[t].written, "RESERVED", "RESERVE")
  /\ End(t, "reserved")
  /\ UNCHANGED <<rows, onHand, active, historyVars, deletes>>

ReserveRollback(t) ==
  /\ t \in Running /\ tx[t].op = "reserve" /\ tx[t].left = {}
  /\ tx[t].rejected
  /\ Rollback(t, "rejected")

-----------------------------------------------------------------------------
(* confirmReservation and releaseReservation                               *)

\* SELECT ... FOR UPDATE of the rows that are RESERVED, once no other
\* settlement of the order has them locked; rows it settled are skipped.
BeginSettle(t, o, target) ==
  /\ tx[t] = Idle /\ Settlers(o) = {}
  /\ Begin(t, Settling(o, target, Inv!HeldSkus(o)))

\* The units the item has for the UPDATE to take without breaking a CHECK.
Covered(t, s) ==
  /\ reserved[s] >= Quantity(t, s)
  /\ tx[t].target = "CONFIRMED" => onHand[s] >= Quantity(t, s)

\* UPDATE of an item that exists, or of none.
SettleLine(t) ==
  LET s == NextItem(t) IN
  /\ AtLine(t) /\ tx[t].op = "settle"
  /\ s \in rows => Covered(t, s)
  /\ tx' = [tx EXCEPT ![t] = [tx[t] EXCEPT !.left = tx[t].left \ {s}, !.locked = Locked(t, s),
                   !.written = IF s \in rows THEN tx[t].written \cup {s} ELSE tx[t].written]]
  /\ UNCHANGED <<dbVars, answer, historyVars, deletes>>

SettleThrows(t) ==
  LET s == NextItem(t) IN
  /\ AtLine(t) /\ tx[t].op = "settle"
  /\ s \in rows /\ ~Covered(t, s)
  /\ Rollback(t, "failed")

\* f less the quantities of the items that were updated.
Taken(f, t) ==
  [s \in Skus |-> IF s \in tx[t].written THEN f[s] - Quantity(t, s) ELSE f[s]]

SettleCommit(t) ==
  /\ t \in Running /\ tx[t].op = "settle" /\ tx[t].left = {}
  /\ reserved' = Taken(reserved, t)
  /\ onHand' = IF tx[t].target = "CONFIRMED" THEN Taken(onHand, t) ELSE onHand
  /\ Record(tx[t].order, tx[t].held, tx[t].target, Inv!Movement(tx[t].target))
  /\ End(t, "settled")
  /\ UNCHANGED <<rows, active, historyVars, deletes>>

-----------------------------------------------------------------------------
(* Postgres, and the administrators.                                       *)

DeadlockAbort(t) == Deadlocked(t) /\ Rollback(t, "failed")

\* A single statement waits for the lock of its row.  Items are ACTIVE, the
\* default: an inactive one is locked and rejected like one without stock.
\* ensureItem inserts a row as upsertItem does, and is left out.
Administer ==
  /\ \E s \in {r \in Skus : Holders(r) = {}} :
       \/ \E n \in StockLevels : Inv!UpsertItem(s, n, TRUE) /\ UNCHANGED deletes
       \/ deletes < MaxDeletes /\ deletes' = deletes + 1 /\ Inv!DeleteItem(s)
  /\ UNCHANGED tx

Continue(t) ==
  \/ ReserveLine(t) \/ RejectLine(t) \/ ReserveThrows(t)
  \/ ReserveCommit(t) \/ ReserveRollback(t)
  \/ SettleLine(t) \/ SettleThrows(t) \/ SettleCommit(t)
  \/ DeadlockAbort(t)

Next ==
  \/ \E t \in Txs, o \in Orders :
       \/ BeginReserve(t, o)
       \/ \E target \in Inv!Targets : BeginSettle(t, o, target)
  \/ \E t \in Txs : Continue(t)
  \/ Administer

Spec == Init /\ [][Next]_vars

-----------------------------------------------------------------------------
(* Properties.                                                             *)

\* Interleaved transactions amount to whole operations one after the other:
\* every change of the committed rows is a step of Inventory, so what holds
\* of Inventory's rows holds of the database, unless an item was deleted while
\* an order held it.
CommitsAreSteps == [][orphaned = {} => Inv!Next]_dbVars

\* Settlements lock in the order of the keys, so only reservations, which
\* lock in the order of the request, can close a circle of waiting.
DeadlockNeedsReserve ==
  \A t \in Txs : Deadlocked(t) => \E u \in Ahead(t) :
    u \in Ahead(u) /\ tx[u].op = "reserve"

=============================================================================
