----------------------------- MODULE StockTwin -----------------------------
(***************************************************************************)
(* The port StockRepositoryPort has two implementations: the one on        *)
(* Postgres (Inventory) and InMemoryStockRepository, which stands in for   *)
(* it where there is no database; no module of the code provides it at     *)
(* present.  Here every call is made to both.                              *)
(*                                                                         *)
(* They are known to part when an order is reserved a second time (one     *)
(* throws, the other overwrites), when a row is deleted under a            *)
(* reservation, and when stock is set below what is reserved: from then on *)
(* the second one is not followed any more.                                *)
(***************************************************************************)
EXTENDS Inventory, FiniteSetsExt

VARIABLE memory   \* the Maps stock and reservations, and the last answers; or Parted

twinVars == <<vars, memory>>

Parted == [items |-> "parted"]
NoItem == [row |-> FALSE]

\* A StockItem; quantityAvailable and isAvailable are stored with it.
Item(n, res, a) == [row |-> TRUE, onHand |-> n, reserved |-> res, active |-> a,
                    available |-> n - res, isAvailable |-> a /\ n - res > 0]

TwinInit ==
  /\ Init
  /\ memory = [items  |-> [s \in Skus |-> NoItem],
               held   |-> [o \in Orders |-> [s \in Skus |-> "NONE"]],
               answer |-> [o \in Orders |-> "none"]]

Least0(n) == Max({0, n})

-----------------------------------------------------------------------------
(* The operations of InMemoryStockRepository on m.                         *)

\* reserve, the loop over the items: those that can be are taken.
Takes(m, o) == {s \in SkusOf(o) : /\ m.items[s].row /\ m.items[s].active
                                  /\ m.items[s].onHand - m.items[s].reserved >= Lines[o][s]}

Taken(item, n) == [item EXCEPT !.reserved = @ + n, !.available = item.onHand - item.reserved - n,
                               !.isAvailable = item.onHand - item.reserved - n > 0]

\* ... and given back when another one was not, or what releasing gives back.
Mutant_GivenBack(item, n) ==
  LET res == Least0(item.reserved - n) IN
  [item EXCEPT !.reserved = res, !.isAvailable = item.active /\ item.onHand - res > 0]
GivenBack(item, n) == Item(item.onHand, Least0(item.reserved - n), item.active)

MemReserve(m, o) ==
  LET took  == [s \in Skus |-> IF s \in Takes(m, o) THEN Taken(m.items[s], Lines[o][s])
                                                    ELSE m.items[s]]
      given == [s \in Skus |-> IF s \in Takes(m, o) THEN GivenBack(took[s], Lines[o][s])
                                                    ELSE took[s]]
  IN IF Takes(m, o) = SkusOf(o)
       THEN [items  |-> took,
             held   |-> [m.held EXCEPT ![o] =
                           [s \in Skus |-> IF s \in SkusOf(o) THEN "RESERVED" ELSE "NONE"]],
             answer |-> [m.answer EXCEPT ![o] = "reserved"]]
       ELSE [m EXCEPT !.items = given, !.answer[o] = "rejected"]

Confirmed(item, n) ==
  Item(Least0(item.onHand - n), Least0(item.reserved - n), item.active)

\* A reservation whose item is gone is passed over and stays RESERVED.
MemSettle(m, o, target) ==
  LET S == {s \in Skus : m.held[o][s] = "RESERVED" /\ m.items[s].row} IN
  [items  |-> [s \in Skus |->
                IF s \notin S THEN m.items[s]
                ELSE IF target = "CONFIRMED" THEN Confirmed(m.items[s], Lines[o][s])
                ELSE GivenBack(m.items[s], Lines[o][s])],
   held   |-> [m.held EXCEPT ![o] = [s \in Skus |-> IF s \in S THEN target ELSE @[s]]],
   answer |-> [m.answer EXCEPT ![o] = "settled"]]

MemUpsert(m, s, n, a) ==
  [m EXCEPT !.items[s] = Item(n, IF m.items[s].row THEN m.items[s].reserved ELSE 0, a)]

MemEnsure(m, s, a) == IF m.items[s].row THEN m ELSE [m EXCEPT !.items[s] = Item(0, 0, a)]

MemDelete(m, s) == [m EXCEPT !.items[s] = NoItem]

-----------------------------------------------------------------------------
(* Every call is made to both.                                             *)

Follow(m, parts) == memory' = IF memory = Parted \/ parts THEN Parted ELSE m

ReserveBoth(o) ==
  /\ Reserve(o)
  /\ Follow(MemReserve(memory, o), \E s \in Skus : status[o][s] # "NONE")

SettleBoth(o, target) ==
  /\ IF target = "CONFIRMED" THEN ConfirmReservation(o) ELSE ReleaseReservation(o)
  /\ Follow(MemSettle(memory, o, target), FALSE)

UpsertBoth(s, n, a) ==
  /\ UpsertItem(s, n, a)
  /\ Follow(MemUpsert(memory, s, n, a), s \in lowered')

EnsureBoth(s, a) == EnsureItem(s, a) /\ Follow(MemEnsure(memory, s, a), FALSE)

DeleteBoth(s) == DeleteItem(s) /\ Follow(MemDelete(memory, s), s \in orphaned')

TwinNext ==
  \/ \E o \in Orders : ReserveBoth(o)
  \/ \E o \in Orders, t \in Targets : SettleBoth(o, t)
  \/ \E s \in Skus, n \in StockLevels, a \in BOOLEAN : UpsertBoth(s, n, a)
  \/ \E s \in Skus, a \in BOOLEAN : EnsureBoth(s, a)
  \/ \E s \in Skus : DeleteBoth(s)

TwinSpec == TwinInit /\ [][TwinNext]_twinVars

-----------------------------------------------------------------------------
(* Properties.                                                             *)

\* What is developed and tried out against the one repository holds for the
\* other: after the same calls both have the same items, with the derived
\* fields as Postgres computes them, the same reservations, and gave the same
\* answers, although one locks rows and rolls back where the other undoes its
\* changes by hand: until a call of the kinds named above.
TwinsAgree ==
  memory = Parted \/
    /\ memory.items = [s \in Skus |-> IF s \in rows THEN Item(onHand[s], reserved[s], s \in active)
                                                    ELSE NoItem]
    /\ memory.held = status
    /\ memory.answer = answer

=============================================================================
