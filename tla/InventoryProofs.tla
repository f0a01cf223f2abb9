-------------------------- MODULE InventoryProofs --------------------------
(***************************************************************************)
(* Proofs about Inventory, and about the in-memory repository beside it    *)
(* (StockTwin), for every set of orders, SKUs, order lines and stock       *)
(* levels.  The quantity reserved on a SKU is compared with a count of     *)
(* unit pairs, so the proofs need cardinalities and no induction.          *)
(***************************************************************************)
EXTENDS StockTwin, FiniteSetTheorems, SequenceTheorems, TLAPS

Block(o, s) == {o} \X (1..Lines[o][s])

\* HeldUnits(s) as a function of the reservation rows st, so that a lemma
\* about it applies before and after a step.
Units(st, s) == UNION {Block(o, s) : o \in {h \in Orders : st[h][s] = "RESERVED"}}

-----------------------------------------------------------------------------
(* Counting units.                                                         *)

\* A reservation row of quantity q stands for exactly q units.
LEMMA BlockCount ==
  ASSUME NEW o \in Orders, NEW s \in Skus
  PROVE  /\ IsFiniteSet(Block(o, s))
         /\ Cardinality(Block(o, s)) = Lines[o][s]
<1> DEFINE q == Lines[o][s]
<1>1. q \in Nat
  BY InventoryAssumption
<1>2. IsFiniteSet({o}) /\ Cardinality({o}) = 1
  BY FS_Singleton
<1>3. IsFiniteSet(1..q) /\ Cardinality(1..q) = q
  <2>1. /\ IsFiniteSet(1..q)
        /\ Cardinality(1..q) = IF 1 > q THEN 0 ELSE q - 1 + 1
    BY <1>1, FS_Interval
  <2> QED BY <1>1, <2>1
<1>4. /\ IsFiniteSet({o} \X (1..q))
      /\ Cardinality({o} \X (1..q)) = Cardinality({o}) * Cardinality(1..q)
  BY <1>2, <1>3, FS_Product
<1> QED BY <1>1, <1>2, <1>3, <1>4 DEF Block

\* The units held on a SKU are finitely many, so they can be counted.
LEMMA UnitsFinite ==
  ASSUME NEW st, NEW s \in Skus
  PROVE  IsFiniteSet(Units(st, s)) /\ Cardinality(Units(st, s)) \in Nat
<1> DEFINE H == {h \in Orders : st[h][s] = "RESERVED"}
           B == {Block(o, s) : o \in H}
           f == [o \in H |-> Block(o, s)]
<1>1. IsFiniteSet(H)
  BY InventoryAssumption, FS_Subset
<1>2. f \in Surjection(H, B)
  BY DEF Surjection
<1>3. IsFiniteSet(B)
  BY <1>1, <1>2, FS_Surjection
<1>4. \A T \in B : IsFiniteSet(T)
  BY BlockCount
<1>5. IsFiniteSet(UNION B)
  BY <1>3, <1>4, FS_UNION
<1>6. IsFiniteSet(Units(st, s))
  BY <1>5 DEF Units
<1> QED BY <1>6, FS_CardinalityType

\* When one more order holds its line of s, the count grows by its quantity.
LEMMA UnitsAdded ==
  ASSUME NEW st, NEW tt, NEW o \in Orders, NEW s \in Skus,
         st[o][s] # "RESERVED", tt[o][s] = "RESERVED",
         \A h \in Orders \ {o} : (tt[h][s] = "RESERVED") <=> (st[h][s] = "RESERVED")
  PROVE  Cardinality(Units(tt, s)) = Cardinality(Units(st, s)) + Lines[o][s]
<1>1. Units(tt, s) = Units(st, s) \cup Block(o, s)
  BY DEF Units
<1>2. Units(st, s) \cap Block(o, s) = {}
  BY DEF Units, Block
<1>3. Cardinality(Units(st, s) \cap Block(o, s)) = 0
  BY <1>2, FS_EmptySet
<1>4. IsFiniteSet(Units(st, s)) /\ Cardinality(Units(st, s)) \in Nat
  BY UnitsFinite
<1>5. IsFiniteSet(Block(o, s)) /\ Cardinality(Block(o, s)) = Lines[o][s]
  BY BlockCount
<1>6. Cardinality(Units(st, s) \cup Block(o, s))
        = Cardinality(Units(st, s)) + Cardinality(Block(o, s)) - 0
  BY <1>3, <1>4, <1>5, FS_Union
<1>7. Lines[o][s] \in Nat
  BY InventoryAssumption
<1> QED BY <1>1, <1>4, <1>5, <1>6, <1>7

\* The count depends on nothing but which orders hold their line of s.
LEMMA UnitsUnchanged ==
  ASSUME NEW st, NEW tt, NEW s \in Skus,
         \A h \in Orders : (tt[h][s] = "RESERVED") <=> (st[h][s] = "RESERVED")
  PROVE  Units(tt, s) = Units(st, s)
BY DEF Units

\* HeldUnits counts the rows of status.
LEMMA HeldIsUnits == \A s \in Skus : HeldUnits(s) = Units(status, s)
BY DEF HeldUnits, Units, Block

-----------------------------------------------------------------------------
(* Type correctness.                                                       *)

\* Whatever reserve comes back with, columns keep their types.
LEMMA ReserveType ==
  ASSUME TypeOK, NEW o \in Orders, Reserve(o)
  PROVE  TypeOK'
<1>1. CASE ReserveAccepted(o)
  <2>1. \A s \in Skus : Lines[o][s] \in Nat
    BY InventoryAssumption
  <2>2. \A s \in SkusOf(o) : s \in rows
    BY <1>1 DEF ReserveAccepted, CanReserve
  <2>3. reserved' \in [Skus -> Nat]
    BY <1>1, <2>1 DEF ReserveAccepted, ReserveLines, TypeOK
  <2>4. status' \in [Orders -> [Skus -> Statuses]]
    BY <1>1 DEF ReserveAccepted, ReserveLines, TypeOK, Statuses
  <2>5. ledger' \in [Orders -> [Skus -> Seq({"RESERVE", "COMMIT", "RELEASE"})]]
    BY <1>1 DEF ReserveAccepted, ReserveLines, TypeOK
  <2>6. answer' \in [Orders -> Answers]
    BY <1>1 DEF ReserveAccepted, Answer, Answers, TypeOK
  <2>7. \A s \in Skus \ rows' : onHand'[s] = 0 /\ reserved'[s] = 0
    BY <1>1, <2>2 DEF ReserveAccepted, ReserveLines, TypeOK
  <2> QED
    BY <1>1, <2>3, <2>4, <2>5, <2>6, <2>7
       DEF ReserveAccepted, ReserveLines, historyVars, TypeOK
<1>2. CASE ReserveRejected(o) \/ ReserveFailed(o)
  BY <1>2 DEF ReserveRejected, ReserveFailed, Answer, Answers, TypeOK,
              stockVars, recordVars, historyVars
<1> QED BY <1>1, <1>2 DEF Reserve

\* So they do when an order is settled: the CHECKs hold or nothing is written.
LEMMA SettleType ==
  ASSUME TypeOK, NEW o \in Orders, NEW target \in Targets,
         SettleDone(o, target) \/ SettleFailed(o, target)
  PROVE  TypeOK'
<1>1. CASE SettleDone(o, target)
  <2>1. \A s \in Skus : Lines[o][s] \in Nat
    BY InventoryAssumption
  <2>2. reserved' \in [Skus -> Nat]
    BY <1>1, <2>1 DEF SettleDone, KeepsChecks, TakeHeld, HeldSkus, TypeOK
  <2>3. onHand' \in [Skus -> Nat]
    BY <1>1, <2>1 DEF SettleDone, KeepsChecks, TakeHeld, HeldSkus, TypeOK
  <2>4. status' \in [Orders -> [Skus -> Statuses]]
    BY <1>1 DEF SettleDone, TypeOK, Statuses, Targets
  <2>5. Movement(target) \in {"RESERVE", "COMMIT", "RELEASE"}
    BY DEF Movement
  <2>6. ledger' \in [Orders -> [Skus -> Seq({"RESERVE", "COMMIT", "RELEASE"})]]
    BY <1>1, <2>5 DEF SettleDone, TypeOK
  <2>7. answer' \in [Orders -> Answers]
    BY <1>1 DEF SettleDone, Answer, Answers, TypeOK
  <2>8. \A s \in Skus \ rows' : onHand'[s] = 0 /\ reserved'[s] = 0
    BY <1>1 DEF SettleDone, TakeHeld, HeldSkus, TypeOK
  <2> QED
    BY <1>1, <2>2, <2>3, <2>4, <2>6, <2>7, <2>8 DEF SettleDone, historyVars, TypeOK
<1>2. CASE SettleFailed(o, target)
  BY <1>2 DEF SettleFailed, Answer, Answers, TypeOK, stockVars, recordVars, historyVars
<1> QED BY <1>1, <1>2

\* Every step keeps the columns' types and the CHECKs of inventory_items.
LEMMA TypeStep == TypeOK /\ [Next]_vars => TypeOK'
<1> SUFFICES ASSUME TypeOK, [Next]_vars PROVE TypeOK'
  OBVIOUS
<1>1. ASSUME NEW o \in Orders, Reserve(o) PROVE TypeOK'
  BY <1>1, ReserveType
<1>2. ASSUME NEW o \in Orders, ConfirmReservation(o) PROVE TypeOK'
  BY <1>2, SettleType DEF ConfirmReservation, Targets
<1>3. ASSUME NEW o \in Orders, ReleaseReservation(o) PROVE TypeOK'
  BY <1>3, SettleType DEF ReleaseReservation, Targets
<1>4. ASSUME NEW s \in Skus, NEW a \in BOOLEAN, EnsureItem(s, a) PROVE TypeOK'
  BY <1>4 DEF EnsureItem, TypeOK, recordVars, historyVars
<1>5. ASSUME NEW s \in Skus, DeleteItem(s) PROVE TypeOK'
  BY <1>5 DEF DeleteItem, TypeOK, recordVars
<1>6. ASSUME NEW s \in Skus, NEW n \in StockLevels, NEW a \in BOOLEAN, UpsertItem(s, n, a)
      PROVE TypeOK'
  BY <1>6, InventoryAssumption DEF UpsertItem, TypeOK, recordVars
<1>7. CASE UNCHANGED vars
  BY <1>7 DEF vars, stockVars, recordVars, historyVars, TypeOK
<1> QED
  BY <1>1, <1>2, <1>3, <1>4, <1>5, <1>6, <1>7 DEF Next

\* Empty tables are of the right types.
LEMMA TypeInit == Init => TypeOK
BY DEF Init, TypeOK, Statuses, Answers

\* No sequence of calls, events and administrator's edits makes a quantity
\* negative or leaves quantities behind where there is no row.
THEOREM TypeCorrect == Spec => []TypeOK
BY TypeInit, TypeStep, PTL DEF Spec

-----------------------------------------------------------------------------
(* What the steps do to the counter and to the units it stands for.        *)

\* An accepted reservation adds the same quantity to both.
LEMMA ReserveEffect ==
  ASSUME TypeOK, NEW o \in Orders, ReserveAccepted(o), NEW s \in Skus
  PROVE  \E d \in Nat :
           /\ reserved'[s] = reserved[s] + d
           /\ Cardinality(HeldUnits(s))' = Cardinality(HeldUnits(s)) + d
           /\ d > 0 => s \in rows /\ Available(s) >= d
<1>1. Lines[o][s] \in Nat
  BY InventoryAssumption
<1>2. \A h \in Orders \ {o} : (status'[h][s] = "RESERVED") <=> (status[h][s] = "RESERVED")
  BY DEF ReserveAccepted, ReserveLines, TypeOK
<1>3. HeldUnits(s) = Units(status, s) /\ HeldUnits(s)' = Units(status', s)
  BY HeldIsUnits DEF HeldUnits, Units, Block
<1>4. CASE s \in SkusOf(o)
  <2>1. status[o][s] # "RESERVED" /\ status'[o][s] = "RESERVED"
    BY <1>4 DEF ReserveAccepted, ReserveLines, DuplicateRow, TypeOK
  <2>2. Cardinality(Units(status', s)) = Cardinality(Units(status, s)) + Lines[o][s]
    BY <1>2, <2>1, UnitsAdded
  <2>3. reserved'[s] = reserved[s] + Lines[o][s]
    BY <1>4 DEF ReserveAccepted, ReserveLines
  <2>4. s \in rows /\ Available(s) >= Lines[o][s]
    BY <1>4 DEF ReserveAccepted, CanReserve
  <2> QED BY <1>1, <1>3, <2>2, <2>3, <2>4
<1>5. CASE s \notin SkusOf(o)
  <2>1. reserved'[s] = reserved[s] /\ status'[o][s] = status[o][s]
    BY <1>5 DEF ReserveAccepted, ReserveLines, TypeOK
  <2>2. Units(status', s) = Units(status, s)
    BY <1>2, <2>1, UnitsUnchanged
  <2>3. reserved[s] \in Nat /\ Cardinality(Units(status, s)) \in Nat
    BY UnitsFinite DEF TypeOK
  <2> QED BY <1>3, <2>1, <2>2, <2>3
<1> QED BY <1>4, <1>5

\* A settlement takes the line's quantity q off the units, and off the
\* columns of the row when there is one.
LEMMA SettleEffect ==
  ASSUME TypeOK, NEW o \in Orders, NEW target \in Targets, SettleDone(o, target),
         NEW s \in Skus
  PROVE  \E q \in Nat :
           /\ Cardinality(HeldUnits(s)) = Cardinality(HeldUnits(s))' + q
           /\ s \in rows => /\ reserved[s] = reserved'[s] + q
                            /\ target = "CONFIRMED" => onHand[s] = onHand'[s] + q
                            /\ target = "RELEASED" => onHand[s] = onHand'[s]
           /\ s \notin rows => reserved'[s] = reserved[s] /\ onHand'[s] = onHand[s]
           /\ s \in HeldSkus(o) => q = Lines[o][s]
<1>1. Lines[o][s] \in Nat
  BY InventoryAssumption
<1>2. \A h \in Orders \ {o} : (status[h][s] = "RESERVED") <=> (status'[h][s] = "RESERVED")
  BY DEF SettleDone, TypeOK
<1>3. HeldUnits(s) = Units(status, s) /\ HeldUnits(s)' = Units(status', s)
  BY HeldIsUnits DEF HeldUnits, Units, Block
<1>4. /\ Cardinality(Units(status, s)) \in Nat /\ Cardinality(Units(status', s)) \in Nat
      /\ reserved[s] \in Nat /\ onHand[s] \in Nat
  BY UnitsFinite DEF TypeOK
<1>5. CASE s \in HeldSkus(o)
  <2>1. status[o][s] = "RESERVED" /\ status'[o][s] # "RESERVED"
    BY <1>5 DEF SettleDone, HeldSkus, TypeOK, Targets
  <2>2. Cardinality(Units(status, s)) = Cardinality(Units(status', s)) + Lines[o][s]
    BY <1>2, <2>1, UnitsAdded
  <2>3. s \in rows => /\ reserved'[s] = reserved[s] - Lines[o][s]
                      /\ target = "CONFIRMED" => onHand'[s] = onHand[s] - Lines[o][s]
                      /\ target = "RELEASED" => onHand'[s] = onHand[s]
    BY <1>5 DEF SettleDone, TakeHeld
  <2>4. s \notin rows => reserved'[s] = reserved[s] /\ onHand'[s] = onHand[s]
    BY DEF SettleDone, TakeHeld
  <2> QED BY <1>1, <1>3, <1>4, <2>2, <2>3, <2>4
<1>6. CASE s \notin HeldSkus(o)
  <2>1. reserved'[s] = reserved[s] /\ onHand'[s] = onHand[s] /\ status'[o][s] = status[o][s]
    BY <1>6 DEF SettleDone, TakeHeld, TypeOK
  <2>2. Units(status', s) = Units(status, s)
    BY <1>2, <2>1, UnitsUnchanged
  <2> QED BY <1>3, <1>4, <1>6, <2>1, <2>2
<1> QED BY <1>5, <1>6

\* A step that leaves the reservation rows alone leaves the units alone.
LEMMA HeldUnchanged ==
  ASSUME status' = status, NEW s \in Skus
  PROVE  HeldUnits(s)' = HeldUnits(s)
BY DEF HeldUnits

\* Counts are numbers, and 0 where nothing is held, before and after a step.
LEMMA HeldCount ==
  ASSUME NEW s \in Skus
  PROVE  /\ Cardinality(HeldUnits(s)) \in Nat
         /\ Cardinality(HeldUnits(s)) = 0 <=> HeldUnits(s) = {}
         /\ Cardinality(HeldUnits(s))' \in Nat
         /\ Cardinality(HeldUnits(s))' = 0 <=> HeldUnits(s)' = {}
<1>1. HeldUnits(s) = Units(status, s) /\ HeldUnits(s)' = Units(status', s)
  BY HeldIsUnits DEF HeldUnits, Units, Block
<1>2. IsFiniteSet(Units(status, s)) /\ IsFiniteSet(Units(status', s))
  BY UnitsFinite
<1> QED BY <1>1, <1>2, UnitsFinite, FS_EmptySet

-----------------------------------------------------------------------------
(* The counters: one inductive invariant, a part per property.             *)

StockInv == TypeOK /\ ReservedBacked /\ ReservedExact /\ NoOversell

\* Empty tables hold and promise nothing.
LEMMA StockInit == Init => StockInv
<1> SUFFICES ASSUME Init PROVE StockInv
  OBVIOUS
<1>1. TypeOK
  BY TypeInit
<1>2. \A s \in Skus : HeldUnits(s) = {}
  BY DEF Init, HeldUnits
<1>3. \A s \in Skus : Cardinality(HeldUnits(s)) = 0
  BY <1>2, FS_EmptySet
<1> QED BY <1>1, <1>2, <1>3 DEF Init, StockInv, ReservedBacked, ReservedExact, NoOversell

\* A reservation takes available units only, and counts them.
LEMMA StockReserve ==
  ASSUME StockInv, NEW o \in Orders, ReserveAccepted(o)
  PROVE  ReservedBacked' /\ ReservedExact' /\ NoOversell'
<1> USE DEF StockInv
<1>1. rows' = rows /\ onHand' = onHand /\ orphaned' = orphaned /\ lowered' = lowered
  BY DEF ReserveAccepted, ReserveLines, historyVars
<1>2. ASSUME NEW s \in Skus
      PROVE  /\ reserved'[s] <= Cardinality(HeldUnits(s))'
             /\ s \notin orphaned => /\ reserved'[s] = Cardinality(HeldUnits(s))'
                                     /\ HeldUnits(s)' # {} => s \in rows
             /\ s \notin lowered => reserved'[s] <= onHand[s]
  <2>1. PICK d \in Nat : /\ reserved'[s] = reserved[s] + d
                         /\ Cardinality(HeldUnits(s))' = Cardinality(HeldUnits(s)) + d
                         /\ d > 0 => s \in rows /\ Available(s) >= d
    BY ReserveEffect
  <2>2. /\ reserved[s] \in Nat /\ onHand[s] \in Nat
        /\ reserved[s] <= Cardinality(HeldUnits(s))
        /\ s \notin orphaned => /\ reserved[s] = Cardinality(HeldUnits(s))
                                /\ HeldUnits(s) # {} => s \in rows
        /\ s \notin lowered => reserved[s] <= onHand[s]
    BY DEF TypeOK, ReservedBacked, ReservedExact, NoOversell
  <2> QED BY <2>1, <2>2, HeldCount DEF Available
<1> QED BY <1>1, <1>2 DEF ReservedBacked, ReservedExact, NoOversell

\* A settlement takes what the row stands for off the counter and the shelf.
LEMMA StockSettle ==
  ASSUME StockInv, NEW o \in Orders, NEW target \in Targets, SettleDone(o, target)
  PROVE  ReservedBacked' /\ ReservedExact' /\ NoOversell'
<1> USE DEF StockInv
<1>1. rows' = rows /\ orphaned' = orphaned /\ lowered' = lowered
  BY DEF SettleDone, historyVars
<1>2. ASSUME NEW s \in Skus
      PROVE  /\ reserved'[s] <= Cardinality(HeldUnits(s))'
             /\ s \notin orphaned => /\ reserved'[s] = Cardinality(HeldUnits(s))'
                                     /\ HeldUnits(s)' # {} => s \in rows
             /\ s \notin lowered => reserved'[s] <= onHand'[s]
  <2>1. PICK q \in Nat :
           /\ Cardinality(HeldUnits(s)) = Cardinality(HeldUnits(s))' + q
           /\ s \in rows => /\ reserved[s] = reserved'[s] + q
                            /\ target = "CONFIRMED" => onHand[s] = onHand'[s] + q
                            /\ target = "RELEASED" => onHand[s] = onHand'[s]
           /\ s \notin rows => reserved'[s] = reserved[s] /\ onHand'[s] = onHand[s]
    BY SettleEffect
  <2>2. /\ reserved[s] \in Nat /\ onHand[s] \in Nat
        /\ s \notin rows => reserved[s] = 0 /\ onHand[s] = 0
        /\ reserved[s] <= Cardinality(HeldUnits(s))
        /\ s \notin orphaned => /\ reserved[s] = Cardinality(HeldUnits(s))
                                /\ HeldUnits(s) # {} => s \in rows
        /\ s \notin lowered => reserved[s] <= onHand[s]
    BY DEF TypeOK, ReservedBacked, ReservedExact, NoOversell
  <2>3. reserved'[s] \in Nat /\ onHand'[s] \in Nat
    BY SettleType DEF TypeOK
  <2>4. target = "CONFIRMED" \/ target = "RELEASED"
    BY DEF Targets
  <2>5. CASE s \in rows
    BY <2>1, <2>2, <2>3, <2>4, <2>5, HeldCount
  <2>6. CASE s \notin rows
    BY <2>1, <2>2, <2>3, <2>6, HeldCount
  <2> QED BY <2>5, <2>6
<1> QED BY <1>1, <1>2 DEF ReservedBacked, ReservedExact, NoOversell

\* An administrator's edit and a catalog event change one row and no unit.
LEMMA StockEdit ==
  ASSUME StockInv, NEW s \in Skus,
         \/ \E a \in BOOLEAN : EnsureItem(s, a)
         \/ DeleteItem(s)
         \/ \E n \in StockLevels, a \in BOOLEAN : UpsertItem(s, n, a)
  PROVE  ReservedBacked' /\ ReservedExact' /\ NoOversell'
<1> USE DEF StockInv
<1>1. status' = status
  BY DEF EnsureItem, DeleteItem, UpsertItem, recordVars
<1>2. \A r \in Skus : HeldUnits(r)' = HeldUnits(r)
  BY <1>1, HeldUnchanged
<1>3. \A r \in Skus : /\ reserved[r] \in Nat /\ onHand[r] \in Nat
                      /\ Cardinality(HeldUnits(r)) \in Nat
                      /\ Cardinality(HeldUnits(r)) = 0 <=> HeldUnits(r) = {}
  BY HeldCount DEF TypeOK
<1>4. CASE \E a \in BOOLEAN : EnsureItem(s, a)
  BY <1>2, <1>3, <1>4 DEF EnsureItem, historyVars, ReservedBacked, ReservedExact, NoOversell
<1>5. CASE DeleteItem(s)
  <2>1. ReservedBacked'
    BY <1>2, <1>3, <1>5 DEF DeleteItem, ReservedBacked, TypeOK
  <2>2. ReservedExact'
    BY <1>2, <1>3, <1>5 DEF DeleteItem, ReservedExact, TypeOK
  <2>3. NoOversell'
    BY <1>5 DEF DeleteItem, NoOversell, TypeOK
  <2> QED BY <2>1, <2>2, <2>3
<1>6. ASSUME NEW n \in StockLevels, NEW a \in BOOLEAN, UpsertItem(s, n, a)
      PROVE  ReservedBacked' /\ ReservedExact' /\ NoOversell'
  <2>1. n \in Nat
    BY InventoryAssumption
  <2>2. ReservedBacked' /\ ReservedExact'
    BY <1>2, <1>6 DEF UpsertItem, ReservedBacked, ReservedExact
  <2>3. NoOversell'
    BY <1>3, <1>6, <2>1 DEF UpsertItem, NoOversell, TypeOK
  <2> QED BY <2>2, <2>3
<1> QED BY <1>4, <1>5, <1>6

\* So every step keeps the counters right.
LEMMA StockStep == StockInv /\ [Next]_vars => StockInv'
<1> SUFFICES ASSUME StockInv, [Next]_vars PROVE StockInv'
  OBVIOUS
<1> DEFINE P == ReservedBacked' /\ ReservedExact' /\ NoOversell'
<1>1. ASSUME status' = status, stockVars' = stockVars, historyVars' = historyVars PROVE P
  <2>1. \A s \in Skus : HeldUnits(s)' = HeldUnits(s)
    BY <1>1, HeldUnchanged
  <2> QED BY <1>1, <2>1 DEF StockInv, ReservedBacked, ReservedExact, NoOversell,
                            stockVars, historyVars
<1>2. ASSUME NEW o \in Orders, Reserve(o) PROVE P
  BY <1>1, <1>2, StockReserve DEF Reserve, ReserveRejected, ReserveFailed, recordVars
<1>3. ASSUME NEW o \in Orders, NEW t \in Targets, SettleDone(o, t) \/ SettleFailed(o, t)
      PROVE  P
  BY <1>1, <1>3, StockSettle DEF SettleFailed, recordVars
<1>4. ASSUME NEW o \in Orders, ConfirmReservation(o) \/ ReleaseReservation(o) PROVE P
  BY <1>3, <1>4 DEF ConfirmReservation, ReleaseReservation, Targets
<1>5. ASSUME NEW s \in Skus, (\E a \in BOOLEAN : EnsureItem(s, a)) \/ DeleteItem(s) PROVE P
  BY <1>5, StockEdit
<1>6. ASSUME NEW s \in Skus, NEW n \in StockLevels, NEW a \in BOOLEAN, UpsertItem(s, n, a)
      PROVE  P
  BY <1>6, StockEdit
<1>7. ASSUME UNCHANGED vars PROVE P
  BY <1>1, <1>7 DEF vars, recordVars
<1>8. P
  BY <1>2, <1>4, <1>5, <1>6, <1>7 DEF Next
<1> QED BY <1>8, TypeStep DEF StockInv

\* They always are.
LEMMA StockCorrect == Spec => []StockInv
BY StockInit, StockStep, PTL DEF Spec

\* quantity_reserved never exceeds the units of the RESERVED rows.
THEOREM ReservationsBacked == Spec => []ReservedBacked
<1>1. StockInv => ReservedBacked
  BY DEF StockInv
<1> QED BY <1>1, StockCorrect, PTL

\* Counter and reservation rows agree on every SKU whose row was not deleted
\* under a reservation.
THEOREM ReservationsExact == Spec => []ReservedExact
<1>1. StockInv => ReservedExact
  BY DEF StockInv
<1> QED BY <1>1, StockCorrect, PTL

\* reserve, confirm, release, ensure and delete never promise the same unit
\* twice: only a count set by hand can fall below what is reserved.
THEOREM StockNotOversold == Spec => []NoOversell
<1>1. StockInv => NoOversell
  BY DEF StockInv
<1> QED BY <1>1, StockCorrect, PTL

-----------------------------------------------------------------------------
(* Settlement.                                                             *)

\* A RESERVED line of an undisturbed SKU always finds a row with enough units.
LEMMA HeldLineCovered ==
  ASSUME StockInv, NEW o \in Orders, NEW s \in SkusOf(o), status[o][s] = "RESERVED",
         s \notin orphaned
  PROVE  s \in rows /\ reserved[s] >= Lines[o][s]
<1>1. s \in Skus /\ Lines[o][s] \in Nat /\ Lines[o][s] > 0
  BY InventoryAssumption DEF SkusOf
<1>2. Block(o, s) \subseteq HeldUnits(s)
  BY <1>1 DEF Block, HeldUnits
<1>3. IsFiniteSet(HeldUnits(s))
  BY <1>1, HeldIsUnits, UnitsFinite
<1>4. Cardinality(Block(o, s)) <= Cardinality(HeldUnits(s))
  BY <1>2, <1>3, FS_Subset
<1>5. Cardinality(Block(o, s)) = Lines[o][s]
  BY <1>1, BlockCount
<1>6. reserved[s] = Cardinality(HeldUnits(s)) /\ (HeldUnits(s) # {} => s \in rows)
  BY <1>1 DEF StockInv, ReservedExact
<1>7. HeldUnits(s) # {}
  <2>1. <<o, 1>> \in Block(o, s)
    BY <1>1 DEF Block
  <2> QED BY <1>2, <2>1
<1> QED BY <1>4, <1>5, <1>6, <1>7

\* The handlers of the payment outcomes never break a CHECK on SKUs that no
\* administrator deleted or lowered under a reservation.
THEOREM SettlementNeverBlocked == Spec => []SettleNeverBlocked
<1>1. StockInv => SettleNeverBlocked
  <2> SUFFICES ASSUME StockInv, NEW o \in Orders, NEW t \in Targets,
                      SkusOf(o) \cap (orphaned \cup lowered) = {},
                      NEW s \in HeldSkus(o) \cap rows
               PROVE  reserved[s] >= Lines[o][s] /\ onHand[s] >= Lines[o][s]
    BY DEF SettleNeverBlocked, KeepsChecks
  <2>1. s \in Skus /\ status[o][s] = "RESERVED" /\ Lines[o][s] \in Nat
    BY InventoryAssumption DEF HeldSkus
  <2>2. reserved[s] \in Nat /\ onHand[s] \in Nat
    BY <2>1 DEF StockInv, TypeOK
  <2>3. CASE s \in SkusOf(o)
    <3>1. reserved[s] >= Lines[o][s]
      BY <2>1, <2>3, HeldLineCovered
    <3>2. reserved[s] <= onHand[s]
      BY <2>1, <2>3 DEF StockInv, NoOversell
    <3> QED BY <2>1, <2>2, <3>1, <3>2
  <2>4. CASE s \notin SkusOf(o)
    BY <2>1, <2>2, <2>4 DEF SkusOf
  <2> QED BY <2>3, <2>4
<1> QED BY <1>1, StockCorrect, PTL

\* No step moves some lines of an order and not the others.
LEMMA AllOrNothingStep == TypeOK /\ AllOrNothing /\ [Next]_vars => AllOrNothing'
<1> SUFFICES ASSUME TypeOK, AllOrNothing, [Next]_vars PROVE AllOrNothing'
  OBVIOUS
<1>1. ASSUME status' = status PROVE AllOrNothing'
  BY <1>1 DEF AllOrNothing, SkusOf
<1>2. ASSUME NEW o \in Orders, ReserveAccepted(o) PROVE AllOrNothing'
  BY <1>2 DEF ReserveAccepted, ReserveLines, AllOrNothing, SkusOf, TypeOK
<1>3. ASSUME NEW o \in Orders, NEW t \in Targets, SettleDone(o, t) PROVE AllOrNothing'
  BY <1>3 DEF SettleDone, HeldSkus, AllOrNothing, SkusOf, TypeOK
<1>4. ASSUME NEW o \in Orders, Reserve(o) PROVE AllOrNothing'
  BY <1>1, <1>2, <1>4 DEF Reserve, ReserveRejected, ReserveFailed, recordVars
<1>5. ASSUME NEW o \in Orders, ConfirmReservation(o) \/ ReleaseReservation(o)
      PROVE  AllOrNothing'
  BY <1>1, <1>3, <1>5
     DEF ConfirmReservation, ReleaseReservation, SettleFailed, Targets, recordVars
<1>6. CASE \/ \E s \in Skus, a \in BOOLEAN : EnsureItem(s, a)
          \/ \E s \in Skus : DeleteItem(s)
  BY <1>1, <1>6 DEF EnsureItem, DeleteItem, recordVars
<1>7. CASE \E s \in Skus, n \in StockLevels, a \in BOOLEAN : UpsertItem(s, n, a)
  BY <1>1, <1>7 DEF UpsertItem, recordVars
<1>8. CASE UNCHANGED vars
  BY <1>1, <1>8 DEF vars, recordVars
<1> QED BY <1>4, <1>5, <1>6, <1>7, <1>8 DEF Next

\* The lines of an order are reserved together and settled together.
THEOREM OrdersAllOrNothing == Spec => []AllOrNothing
<1>1. Init => AllOrNothing
  BY DEF Init, AllOrNothing, SkusOf
<1> QED BY <1>1, AllOrNothingStep, TypeCorrect, PTL DEF Spec

\* Each movement extends the ledger of a line from one status to the next.
LEMMA MovementsExtend ==
  /\ Append(MovementsOf("NONE"), "RESERVE") = MovementsOf("RESERVED")
  /\ \A t \in Targets : Append(MovementsOf("RESERVED"), Movement(t)) = MovementsOf(t)
<1>1. MovementsOf("NONE") = <<>> /\ MovementsOf("RESERVED") = <<"RESERVE">>
  BY DEF MovementsOf
<1>2. Append(<<>>, "RESERVE") = <<"RESERVE">>
  OBVIOUS
<1>3. \A x \in {"COMMIT", "RELEASE"} : Append(<<"RESERVE">>, x) = <<"RESERVE", x>>
  <2> SUFFICES ASSUME NEW x \in {"COMMIT", "RELEASE"}
               PROVE  Append(<<"RESERVE">>, x) = <<"RESERVE", x>>
    OBVIOUS
  <2> DEFINE S == {"RESERVE", "COMMIT", "RELEASE"}
             p == Append(<<"RESERVE">>, x)
             q == <<"RESERVE", x>>
  <2>1. <<"RESERVE">> \in Seq(S) /\ x \in S /\ q \in Seq(S)
    OBVIOUS
  <2>2. p \in Seq(S) /\ Len(p) = 2 /\ p[1] = "RESERVE" /\ p[2] = x
    BY <2>1, AppendProperties
  <2>3. Len(q) = 2 /\ q[1] = "RESERVE" /\ q[2] = x
    OBVIOUS
  <2>4. \A i \in 1..Len(p) : p[i] = q[i]
    BY <2>2, <2>3
  <2> HIDE DEF p, q
  <2>5. p = q
    BY <2>1, <2>2, <2>3, <2>4, SeqEqual
  <2> QED BY <2>5 DEF p, q
<1>4. MovementsOf("CONFIRMED") = <<"RESERVE", "COMMIT">> /\ Movement("CONFIRMED") = "COMMIT"
  BY DEF MovementsOf, Movement
<1>5. MovementsOf("RELEASED") = <<"RESERVE", "RELEASE">> /\ Movement("RELEASED") = "RELEASE"
  BY DEF MovementsOf, Movement
<1> QED BY <1>1, <1>2, <1>3, <1>4, <1>5 DEF Targets

\* Every step that moves a reservation writes its movement.
LEMMA LedgerStep == TypeOK /\ LedgerMatches /\ [Next]_vars => LedgerMatches'
<1> SUFFICES ASSUME TypeOK, LedgerMatches, [Next]_vars PROVE LedgerMatches'
  OBVIOUS
<1>1. ASSUME status' = status, ledger' = ledger PROVE LedgerMatches'
  BY <1>1 DEF LedgerMatches
<1>2. ASSUME NEW o \in Orders, ReserveAccepted(o) PROVE LedgerMatches'
  BY <1>2, MovementsExtend
     DEF ReserveAccepted, ReserveLines, DuplicateRow, SkusOf, LedgerMatches, TypeOK
<1>3. ASSUME NEW o \in Orders, NEW t \in Targets, SettleDone(o, t) PROVE LedgerMatches'
  BY <1>3, MovementsExtend DEF SettleDone, HeldSkus, LedgerMatches, TypeOK
<1>4. ASSUME NEW o \in Orders, Reserve(o) PROVE LedgerMatches'
  BY <1>1, <1>2, <1>4 DEF Reserve, ReserveRejected, ReserveFailed, recordVars
<1>5. ASSUME NEW o \in Orders, ConfirmReservation(o) \/ ReleaseReservation(o)
      PROVE  LedgerMatches'
  BY <1>1, <1>3, <1>5
     DEF ConfirmReservation, ReleaseReservation, SettleFailed, Targets, recordVars
<1>6. CASE \/ \E s \in Skus, a \in BOOLEAN : EnsureItem(s, a)
          \/ \E s \in Skus : DeleteItem(s)
  BY <1>1, <1>6 DEF EnsureItem, DeleteItem, recordVars
<1>7. CASE \E s \in Skus, n \in StockLevels, a \in BOOLEAN : UpsertItem(s, n, a)
  BY <1>1, <1>7 DEF UpsertItem, recordVars
<1>8. CASE UNCHANGED vars
  BY <1>1, <1>8 DEF vars, recordVars
<1> QED BY <1>4, <1>5, <1>6, <1>7, <1>8 DEF Next

\* Every reservation has one RESERVE movement and at most one settlement.
THEOREM LedgerCorrect == Spec => []LedgerMatches
<1>1. Init => LedgerMatches
  BY DEF Init, LedgerMatches, MovementsOf
<1> QED BY <1>1, LedgerStep, TypeCorrect, PTL DEF Spec

\* The first of competing outcomes wins for good.
THEOREM SettledForGood == Spec => SettledOnce
<1> DEFINE A == \A o \in Orders, s \in Skus :
                  status[o][s] \in Targets => status'[o][s] = status[o][s]
<1>1. ASSUME TypeOK, [Next]_vars PROVE A
  <2>1. ASSUME status' = status PROVE A
    BY <2>1
  <2>2. ASSUME NEW o \in Orders, ReserveAccepted(o) PROVE A
    BY <2>2 DEF ReserveAccepted, ReserveLines, DuplicateRow, TypeOK, Targets
  <2>3. ASSUME NEW o \in Orders, NEW t \in Targets, SettleDone(o, t) PROVE A
    BY <2>3 DEF SettleDone, HeldSkus, TypeOK, Targets
  <2>4. ASSUME NEW o \in Orders, Reserve(o) PROVE A
    BY <2>1, <2>2, <2>4 DEF Reserve, ReserveRejected, ReserveFailed, recordVars
  <2>5. ASSUME NEW o \in Orders, ConfirmReservation(o) \/ ReleaseReservation(o) PROVE A
    BY <2>1, <2>3, <2>5
       DEF ConfirmReservation, ReleaseReservation, SettleFailed, Targets, recordVars
  <2>6. ASSUME NEW s \in Skus, (\E a \in BOOLEAN : EnsureItem(s, a)) \/ DeleteItem(s) PROVE A
    BY <2>1, <2>6 DEF EnsureItem, DeleteItem, recordVars
  <2>7. ASSUME NEW s \in Skus, NEW n \in StockLevels, NEW a \in BOOLEAN, UpsertItem(s, n, a)
        PROVE  A
    BY <2>1, <2>7 DEF UpsertItem, recordVars
  <2>8. ASSUME UNCHANGED vars PROVE A
    BY <2>1, <2>8 DEF vars, recordVars
  <2> QED BY <1>1, <2>4, <2>5, <2>6, <2>7, <2>8 DEF Next
<1>2. TypeOK /\ [Next]_vars => [A]_vars
  BY <1>1
<1> QED BY <1>2, TypeCorrect, PTL DEF Spec, SettledOnce

\* A later step of another order leaves true what a caller was told.
LEMMA AnswerStep == TypeOK /\ AnswerHonest /\ [Next]_vars => AnswerHonest'
<1> SUFFICES ASSUME TypeOK, AnswerHonest, [Next]_vars PROVE AnswerHonest'
  OBVIOUS
<1> USE DEF AnswerHonest, SkusOf
<1>1. ASSUME status' = status, answer' = answer PROVE AnswerHonest'
  BY <1>1
<1>2. ASSUME NEW o \in Orders, status' = status, Answer(o, "rejected") \/ Answer(o, "failed")
      PROVE  AnswerHonest'
  BY <1>2 DEF Answer, TypeOK
<1>3. ASSUME NEW o \in Orders, ReserveAccepted(o) PROVE AnswerHonest'
  BY <1>3 DEF ReserveAccepted, ReserveLines, Answer, TypeOK
<1>4. ASSUME NEW o \in Orders, NEW t \in Targets, SettleDone(o, t) PROVE AnswerHonest'
  BY <1>4 DEF SettleDone, HeldSkus, Answer, TypeOK, Targets
<1>5. ASSUME NEW o \in Orders, Reserve(o) PROVE AnswerHonest'
  BY <1>2, <1>3, <1>5 DEF Reserve, ReserveRejected, ReserveFailed, recordVars
<1>6. ASSUME NEW o \in Orders, ConfirmReservation(o) \/ ReleaseReservation(o)
      PROVE  AnswerHonest'
  BY <1>2, <1>4, <1>6
     DEF ConfirmReservation, ReleaseReservation, SettleFailed, Targets, recordVars
<1>7. CASE \/ \E s \in Skus, a \in BOOLEAN : EnsureItem(s, a)
          \/ \E s \in Skus : DeleteItem(s)
  BY <1>1, <1>7 DEF EnsureItem, DeleteItem, recordVars
<1>8. CASE \E s \in Skus, n \in StockLevels, a \in BOOLEAN : UpsertItem(s, n, a)
  BY <1>1, <1>8 DEF UpsertItem, recordVars
<1>9. CASE UNCHANGED vars
  BY <1>1, <1>9 DEF vars, recordVars
<1> QED BY <1>5, <1>6, <1>7, <1>8, <1>9 DEF Next

\* What a caller is told about an order is true until the next call for it.
THEOREM AnswersHonest == Spec => []AnswerHonest
<1>1. Init => AnswerHonest
  BY DEF Init, AnswerHonest
<1> QED BY <1>1, AnswerStep, TypeCorrect, PTL DEF Spec

\* Every confirmed unit leaves the shelf, unless its row was deleted under
\* the reservation.
THEOREM ConfirmedUnitsLeave == Spec => ConfirmTakesStock
<1> DEFINE A == \A o \in Orders, s \in Skus \ orphaned :
                  status[o][s] = "RESERVED" /\ status'[o][s] = "CONFIRMED"
                    => onHand'[s] = onHand[s] - Lines[o][s]
<1>1. ASSUME StockInv, [Next]_vars PROVE A
  <2> USE DEF StockInv
  <2>1. ASSUME status' = status PROVE A
    BY <2>1
  <2>2. ASSUME NEW o \in Orders, ReserveAccepted(o) PROVE A
    BY <2>2 DEF ReserveAccepted, ReserveLines, TypeOK
  <2>3. ASSUME NEW o \in Orders, NEW t \in Targets, SettleDone(o, t) PROVE A
    <3> SUFFICES ASSUME NEW h \in Orders, NEW s \in Skus \ orphaned,
                        status[h][s] = "RESERVED", status'[h][s] = "CONFIRMED"
                 PROVE  onHand'[s] = onHand[s] - Lines[h][s]
      OBVIOUS
    <3> HIDE DEF A
    <3>0. s \in Skus /\ s \notin orphaned
      OBVIOUS
    <3>1. h = o /\ t = "CONFIRMED" /\ s \in HeldSkus(o)
      BY <2>3 DEF SettleDone, HeldSkus, TypeOK, Targets
    <3>2. Lines[o][s] \in Nat /\ onHand[s] \in Nat
      BY <1>1, <3>0, InventoryAssumption DEF TypeOK
    <3>3. onHand' = TakeHeld(onHand, o)
      BY <2>3, <3>1 DEF SettleDone
    <3>4. CASE s \in SkusOf(o)
      <4>1. s \in rows
        BY <1>1, <3>0, <3>1, <3>4, HeldLineCovered DEF HeldSkus
      <4> QED BY <3>0, <3>1, <3>3, <4>1 DEF TakeHeld
    <3>5. CASE s \notin SkusOf(o)
      <4>1. Lines[o][s] = 0
        BY <3>0, <3>2, <3>5 DEF SkusOf
      <4> QED BY <3>0, <3>1, <3>2, <3>3, <4>1 DEF TakeHeld
    <3> QED BY <3>4, <3>5
  <2>4. ASSUME NEW o \in Orders, Reserve(o) PROVE A
    BY <2>1, <2>2, <2>4 DEF Reserve, ReserveRejected, ReserveFailed, recordVars
  <2>5. ASSUME NEW o \in Orders, ConfirmReservation(o) \/ ReleaseReservation(o) PROVE A
    BY <2>1, <2>3, <2>5
       DEF ConfirmReservation, ReleaseReservation, SettleFailed, Targets, recordVars
  <2>6. ASSUME NEW s \in Skus, (\E a \in BOOLEAN : EnsureItem(s, a)) \/ DeleteItem(s) PROVE A
    BY <2>1, <2>6 DEF EnsureItem, DeleteItem, recordVars
  <2>7. ASSUME NEW s \in Skus, NEW n \in StockLevels, NEW a \in BOOLEAN, UpsertItem(s, n, a)
        PROVE  A
    BY <2>1, <2>7 DEF UpsertItem, recordVars
  <2>8. ASSUME UNCHANGED vars PROVE A
    BY <2>1, <2>8 DEF vars, recordVars
  <2> QED BY <1>1, <2>4, <2>5, <2>6, <2>7, <2>8 DEF Next
<1>2. StockInv /\ [Next]_vars => [A]_vars
  BY <1>1
<1> QED BY <1>2, StockCorrect, PTL DEF Spec, ConfirmTakesStock

-----------------------------------------------------------------------------
(* The in-memory repository (StockTwin).                                   *)

Active(s) == s \in active

\* The item of s with h units on hand and r reserved.
ItemOf(s, h, r) == Item(h, r, Active(s))

\* What the Maps hold after the same calls.
InMemory ==
  [items  |-> [s \in Skus |-> IF s \in rows THEN ItemOf(s, onHand[s], reserved[s]) ELSE NoItem],
   held   |-> status,
   answer |-> answer]

\* Reservation rows stand for lines of their order.
RowsAreLines == \A o \in Orders, s \in Skus : status[o][s] # "NONE" => s \in SkusOf(o)

\* As long as the repositories are compared no row was deleted, and no count
\* lowered, under a reservation.
TwinInv ==
  /\ StockInv /\ RowsAreLines
  /\ memory = Parted \/ (memory = InMemory /\ orphaned = {} /\ lowered = {})

\* Math.max(0, n).
LEMMA Least0Is == \A n \in Int : Least0(n) = IF n >= 0 THEN n ELSE 0
<1> SUFFICES ASSUME NEW n \in Int PROVE Least0(n) = IF n >= 0 THEN n ELSE 0
  OBVIOUS
<1> DEFINE m == IF n >= 0 THEN n ELSE 0
<1>1. m \in {0, n} /\ \A y \in {0, n} : m >= y
  OBVIOUS
<1>2. \A x \in {0, n} : (\A y \in {0, n} : x >= y) => x = m
  OBVIOUS
<1>3. Least0(n) \in {0, n} /\ \A y \in {0, n} : Least0(n) >= y
  BY <1>1 DEF Least0, Max
<1> QED
  BY <1>2, <1>3

\* Until they part, a settlement finds every line it settles in a row that has
\* enough of it.
LEMMA HeldLinesReady ==
  ASSUME StockInv, RowsAreLines, orphaned = {}, lowered = {},
         NEW o \in Orders, NEW s \in HeldSkus(o)
  PROVE  s \in rows /\ reserved[s] >= Lines[o][s] /\ onHand[s] >= Lines[o][s]
<1>1. s \in Skus /\ s \in SkusOf(o) /\ status[o][s] = "RESERVED"
  BY DEF HeldSkus, RowsAreLines
<1>2. s \in rows /\ reserved[s] >= Lines[o][s]
  BY <1>1, HeldLineCovered
<1>3. reserved[s] <= onHand[s]
  BY <1>1 DEF StockInv, NoOversell
<1>4. reserved[s] \in Nat /\ onHand[s] \in Nat /\ Lines[o][s] \in Nat
  BY <1>1, InventoryAssumption DEF StockInv, TypeOK
<1> QED
  BY <1>2, <1>3, <1>4

\* Giving units back, and taking them off the shelf.
LEMMA GivenBackIs ==
  ASSUME NEW h \in Int, NEW r \in Int, NEW n \in Int, NEW a
  PROVE  GivenBack(Item(h, r, a), n) = Item(h, Least0(r - n), a)
<1>1. PICK x : x = Item(h, r, a)
  OBVIOUS
<1>2. x.onHand = h /\ x.reserved = r /\ x.active = a
  BY <1>1 DEF Item
<1> QED
  BY <1>1, <1>2 DEF GivenBack

\* The same for units that leave the shelf.
LEMMA ConfirmedIs ==
  ASSUME NEW h \in Int, NEW r \in Int, NEW n \in Int, NEW a
  PROVE  Confirmed(Item(h, r, a), n) = Item(Least0(h - n), Least0(r - n), a)
<1>1. PICK x : x = Item(h, r, a)
  OBVIOUS
<1>2. x.onHand = h /\ x.reserved = r /\ x.active = a
  BY <1>1 DEF Item
<1> QED
  BY <1>1, <1>2 DEF Confirmed

\* The fields of an item.
LEMMA ItemHas ==
  \A s, h, r : LET x == ItemOf(s, h, r) IN x.row /\ x.onHand = h /\ x.reserved = r
BY DEF ItemOf, Item

\* Taking units off an active item.
LEMMA TakenIs ==
  ASSUME NEW h \in Nat, NEW r \in Nat, NEW n \in Nat, NEW a, a = TRUE
  PROVE  Taken(Item(h, r, a), n) = Item(h, r + n, a)
<1>1. h - (r + n) = h - r - n
  OBVIOUS
<1>2. PICK x : x = Item(h, r, a)
  OBVIOUS
<1>3. x.onHand = h /\ x.reserved = r /\ x.active = a
  BY <1>2 DEF Item
<1>4. PICK b : b = (h - r - n > 0)
  OBVIOUS
<1>5. Taken(x, n) = [x EXCEPT !.reserved = r + n, !.available = h - r - n, !.isAvailable = b]
  BY <1>3, <1>4 DEF Taken
<1>6. Taken(x, n) = [row |-> TRUE, onHand |-> h, reserved |-> r + n, active |-> a,
                     available |-> h - r - n, isAvailable |-> b]
  BY <1>2, <1>5 DEF Item
<1>7. Item(h, r + n, a) = [row |-> TRUE, onHand |-> h, reserved |-> r + n, active |-> a,
                           available |-> h - r - n, isAvailable |-> b]
  BY <1>1, <1>4 DEF Item
<1> QED
  BY <1>2, <1>6, <1>7

\* A step that leaves rows and their status alone.
LEMMA InMemoryNext ==
  ASSUME UNCHANGED <<rows, active>>
  PROVE  InMemory' =
           [items  |-> [s \in Skus |-> IF s \in rows THEN ItemOf(s, onHand'[s], reserved'[s])
                                                     ELSE NoItem],
            held   |-> status',
            answer |-> answer']
<1>1. \A s \in Skus : Active(s)' = Active(s)
  BY DEF Active
<1> QED
  BY <1>1 DEF InMemory, ItemOf

\* A reservation takes the same items, and answers the same.
LEMMA ReserveAgrees ==
  ASSUME TypeOK, NEW o \in Orders, Reserve(o), \A s \in Skus : status[o][s] = "NONE"
  PROVE  MemReserve(InMemory, o) = InMemory'
<1> DEFINE m == InMemory
<1>1. /\ \A s \in Skus : Lines[o][s] \in Nat /\ onHand[s] \in Nat /\ reserved[s] \in Nat
      /\ \A s \in SkusOf(o) : s \in Skus
  BY InventoryAssumption DEF TypeOK, SkusOf
<1>2. \A s \in Skus : m.items[s] = IF s \in rows THEN ItemOf(s, onHand[s], reserved[s]) ELSE NoItem
  BY DEF InMemory
<1>3. Takes(m, o) = {s \in SkusOf(o) : CanReserve(o, s)}
  <2>1. ASSUME NEW s \in SkusOf(o)
        PROVE  (/\ m.items[s].row /\ m.items[s].active
                /\ m.items[s].onHand - m.items[s].reserved >= Lines[o][s])
               <=> CanReserve(o, s)
    <3>1. CASE s \in rows
      <4>1. m.items[s] = Item(onHand[s], reserved[s], Active(s))
        BY <1>1, <1>2, <3>1 DEF ItemOf
      <4>2. /\ m.items[s].row /\ m.items[s].active = Active(s)
            /\ m.items[s].onHand = onHand[s] /\ m.items[s].reserved = reserved[s]
        BY <4>1 DEF Item
      <4> QED
        BY <3>1, <4>2 DEF CanReserve, Available, Active
    <3>2. CASE s \notin rows
      BY <1>1, <1>2, <3>2 DEF NoItem, CanReserve
    <3> QED
      BY <3>1, <3>2
  <2> QED
    BY <2>1 DEF Takes
<1>4. ASSUME NEW s \in SkusOf(o), CanReserve(o, s)
      PROVE  /\ m.items[s] = ItemOf(s, onHand[s], reserved[s])
             /\ Taken(m.items[s], Lines[o][s]) = ItemOf(s, onHand[s], reserved[s] + Lines[o][s])
  <2>1. s \in Skus /\ s \in rows /\ Active(s) = TRUE
    BY <1>1, <1>4 DEF CanReserve, Active
  <2>2. m.items[s] = ItemOf(s, onHand[s], reserved[s])
    BY <1>2, <2>1
  <2>3. PICK a : a = Active(s)
    OBVIOUS
  <2>4. Taken(Item(onHand[s], reserved[s], a), Lines[o][s])
          = Item(onHand[s], reserved[s] + Lines[o][s], a)
    BY <1>1, <2>1, <2>3, TakenIs
  <2> QED
    BY <2>2, <2>3, <2>4 DEF ItemOf
<1>5. \A s \in SkusOf(o) : ~DuplicateRow(o, s)
  BY <1>1 DEF DuplicateRow
<1>6. CASE ReserveAccepted(o)
  <2>1. Takes(m, o) = SkusOf(o) /\ \A s \in SkusOf(o) : CanReserve(o, s) /\ s \in rows
    BY <1>3, <1>6 DEF ReserveAccepted, CanReserve
  <2>2. /\ reserved' = [s \in Skus |-> IF s \in SkusOf(o) THEN reserved[s] + Lines[o][s]
                                                          ELSE reserved[s]]
        /\ status' = [status EXCEPT ![o] =
                        [s \in Skus |-> IF s \in SkusOf(o) THEN "RESERVED" ELSE @[s]]]
        /\ answer' = [answer EXCEPT ![o] = "reserved"]
        /\ UNCHANGED <<rows, onHand, active>>
    BY <1>6 DEF ReserveAccepted, ReserveLines, Answer
  <2> DEFINE took == [s \in Skus |-> IF s \in SkusOf(o) THEN Taken(m.items[s], Lines[o][s])
                                                        ELSE m.items[s]]
  <2>3. MemReserve(m, o) =
          [items  |-> took,
           held   |-> [m.held EXCEPT ![o] =
                         [s \in Skus |-> IF s \in SkusOf(o) THEN "RESERVED" ELSE "NONE"]],
           answer |-> [m.answer EXCEPT ![o] = "reserved"]]
    BY <2>1 DEF MemReserve
  <2>4. took = InMemory'.items
    <3>1. \A s \in Skus :
            took[s] = IF s \in rows THEN ItemOf(s, onHand'[s], reserved'[s]) ELSE NoItem
      BY <1>2, <1>4, <2>1, <2>2
    <3> QED
      BY <2>2, <3>1, InMemoryNext
  <2>5. [m.held EXCEPT ![o] = [s \in Skus |-> IF s \in SkusOf(o) THEN "RESERVED" ELSE "NONE"]]
          = status'
    BY <2>2 DEF InMemory, TypeOK
  <2>6. [m.answer EXCEPT ![o] = "reserved"] = answer'
    BY <2>2 DEF InMemory
  <2>7. InMemory' = [items |-> took, held |-> status', answer |-> answer']
    BY <2>2, <2>4, InMemoryNext
  <2> QED
    BY <2>3, <2>5, <2>6, <2>7
<1>7. CASE ReserveRejected(o)
  <2>1. Takes(m, o) # SkusOf(o)
    BY <1>3, <1>7 DEF ReserveRejected
  <2>2. ASSUME NEW s \in Takes(m, o)
        PROVE  GivenBack(Taken(m.items[s], Lines[o][s]), Lines[o][s]) = m.items[s]
    <3>1. s \in Skus /\ s \in SkusOf(o) /\ CanReserve(o, s)
      BY <1>1, <1>3
    <3>2. PICK h, r, n \in Nat : h = onHand[s] /\ r = reserved[s] /\ n = Lines[o][s]
      BY <1>1, <3>1
    <3>3. /\ m.items[s] = ItemOf(s, h, r)
          /\ Taken(m.items[s], n) = ItemOf(s, h, r + n)
      BY <1>4, <3>1, <3>2
    <3>4. r + n \in Int /\ h \in Int /\ n \in Int /\ r + n - n = r
      OBVIOUS
    <3>5. GivenBack(ItemOf(s, h, r + n), n) = ItemOf(s, h, Least0(r + n - n))
      BY <3>4, GivenBackIs DEF ItemOf
    <3>6. Least0(r + n - n) = r
      BY <3>4, Least0Is
    <3> QED
      BY <3>2, <3>3, <3>5, <3>6
  <2>3. /\ UNCHANGED <<rows, onHand, reserved, active, status>>
        /\ answer' = [answer EXCEPT ![o] = "rejected"]
    BY <1>7 DEF ReserveRejected, Answer, stockVars, recordVars
  <2> DEFINE took  == [s \in Skus |-> IF s \in Takes(m, o) THEN Taken(m.items[s], Lines[o][s])
                                                          ELSE m.items[s]]
             given == [s \in Skus |-> IF s \in Takes(m, o) THEN GivenBack(took[s], Lines[o][s])
                                                          ELSE took[s]]
  <2>4. given = m.items
    <3>1. \A s \in Skus : given[s] = m.items[s]
      BY <2>2
    <3>2. m.items = [s \in Skus |-> m.items[s]]
      BY DEF InMemory
    <3> QED
      BY <3>1, <3>2
  <2>5. MemReserve(m, o) = [m EXCEPT !.items = given, !.answer[o] = "rejected"]
    BY <2>1 DEF MemReserve
  <2>6. MemReserve(m, o) = [items |-> m.items, held |-> status, answer |-> answer']
    BY <2>3, <2>4, <2>5 DEF InMemory
  <2>7. InMemory' = [items |-> m.items, held |-> status, answer |-> answer']
    BY <2>3, InMemoryNext DEF InMemory
  <2> QED
    BY <2>6, <2>7
<1> QED
  BY <1>5, <1>6, <1>7 DEF Reserve, ReserveFailed

\* Until they part a settlement never fails, and settles the same.
LEMMA SettleAgrees ==
  ASSUME StockInv, RowsAreLines, orphaned = {}, lowered = {}, NEW o \in Orders,
         NEW target \in Targets, SettleDone(o, target) \/ SettleFailed(o, target)
  PROVE  MemSettle(InMemory, o, target) = InMemory'
<1> DEFINE m == InMemory
<1>1. \A s \in HeldSkus(o) :
        s \in rows /\ reserved[s] >= Lines[o][s] /\ onHand[s] >= Lines[o][s]
  BY HeldLinesReady
<1>2. SettleDone(o, target)
  BY <1>1 DEF SettleFailed, KeepsChecks
<1>3. /\ reserved' = [s \in Skus |-> IF s \in HeldSkus(o) THEN reserved[s] - Lines[o][s]
                                                          ELSE reserved[s]]
      /\ onHand' = IF target = "CONFIRMED"
                     THEN [s \in Skus |-> IF s \in HeldSkus(o) THEN onHand[s] - Lines[o][s]
                                                               ELSE onHand[s]]
                     ELSE onHand
      /\ status' = [status EXCEPT ![o] = [s \in Skus |-> IF s \in HeldSkus(o) THEN target ELSE @[s]]]
      /\ answer' = [answer EXCEPT ![o] = "settled"]
      /\ UNCHANGED <<rows, active>>
  BY <1>1, <1>2 DEF SettleDone, TakeHeld, Answer
<1>4. \A s \in Skus : /\ Lines[o][s] \in Nat /\ onHand[s] \in Nat /\ reserved[s] \in Nat
                      /\ (s \in active) \in BOOLEAN
  BY InventoryAssumption DEF StockInv, TypeOK
<1>5. \A s \in Skus : m.items[s] = IF s \in rows THEN ItemOf(s, onHand[s], reserved[s])
                                                 ELSE NoItem
  BY DEF InMemory
<1>6. {s \in Skus : m.held[o][s] = "RESERVED" /\ m.items[s].row} = HeldSkus(o)
  <2>1. \A s \in HeldSkus(o) : m.items[s].row
    BY <1>1, <1>4, <1>5, ItemHas DEF HeldSkus
  <2> QED
    BY <2>1 DEF InMemory, HeldSkus
<1>7. ASSUME NEW s \in HeldSkus(o)
      PROVE  (IF target = "CONFIRMED" THEN Confirmed(m.items[s], Lines[o][s])
                                      ELSE GivenBack(m.items[s], Lines[o][s]))
             = ItemOf(s, onHand'[s], reserved'[s])
  <2>1. s \in Skus /\ s \in rows
    BY <1>1 DEF HeldSkus
  <2>2. m.items[s] = ItemOf(s, onHand[s], reserved[s])
    BY <1>5, <2>1
  <2>3. /\ Least0(reserved[s] - Lines[o][s]) = reserved'[s]
        /\ target = "CONFIRMED" => Least0(onHand[s] - Lines[o][s]) = onHand'[s]
    BY <1>1, <1>3, <1>4, <2>1, Least0Is
  <2>4. target # "CONFIRMED" => onHand'[s] = onHand[s]
    BY <1>3
  <2>5. PICK h, r, n \in Int : h = onHand[s] /\ r = reserved[s] /\ n = Lines[o][s]
    BY <1>4, <2>1
  <2>6. m.items[s] = ItemOf(s, h, r)
    BY <2>2, <2>5
  <2>7. Confirmed(m.items[s], n) = ItemOf(s, Least0(h - n), Least0(r - n))
    BY <2>6, ConfirmedIs DEF ItemOf
  <2>8. GivenBack(m.items[s], n) = ItemOf(s, h, Least0(r - n))
    BY <2>6, GivenBackIs DEF ItemOf
  <2> QED
    BY <2>3, <2>4, <2>5, <2>7, <2>8
<1> DEFINE settled == [s \in Skus |->
                        IF s \notin HeldSkus(o) THEN m.items[s]
                        ELSE IF target = "CONFIRMED" THEN Confirmed(m.items[s], Lines[o][s])
                        ELSE GivenBack(m.items[s], Lines[o][s])]
<1>8. settled = InMemory'.items
  <2>1. ASSUME NEW s \in Skus
        PROVE  settled[s] = IF s \in rows THEN ItemOf(s, onHand'[s], reserved'[s]) ELSE NoItem
    <3>1. CASE s \in HeldSkus(o)
      BY <1>1, <1>7, <3>1
    <3>2. CASE s \notin HeldSkus(o)
      BY <1>3, <1>5, <3>2
    <3> QED
      BY <3>1, <3>2
  <2>2. InMemory'.items = [s \in Skus |-> IF s \in rows
                                            THEN ItemOf(s, onHand'[s], reserved'[s])
                                            ELSE NoItem]
    BY <1>3, InMemoryNext
  <2> QED
    BY <2>1, <2>2
<1>9. MemSettle(m, o, target) =
        [items  |-> settled,
         held   |-> [m.held EXCEPT ![o] = [s \in Skus |-> IF s \in HeldSkus(o) THEN target ELSE @[s]]],
         answer |-> [m.answer EXCEPT ![o] = "settled"]]
  BY <1>6 DEF MemSettle
<1> QED
  BY <1>3, <1>8, <1>9, InMemoryNext DEF InMemory

\* So does what administrators and catalog events do.
LEMMA EditsAgree ==
  ASSUME TypeOK, NEW s \in Skus, NEW a \in BOOLEAN
  PROVE  /\ \A n \in StockLevels : UpsertItem(s, n, a) => MemUpsert(InMemory, s, n, a) = InMemory'
         /\ EnsureItem(s, a) => MemEnsure(InMemory, s, a) = InMemory'
         /\ DeleteItem(s) => MemDelete(InMemory, s) = InMemory'
<1> DEFINE m == InMemory
<1>1. m.items = [t \in Skus |-> IF t \in rows THEN ItemOf(t, onHand[t], reserved[t]) ELSE NoItem]
  BY DEF InMemory
<1>2. ASSUME NEW x, NEW items, NEW h, NEW r,
             items = [m.items EXCEPT ![s] = x],
             onHand' = [onHand EXCEPT ![s] = h], reserved' = [reserved EXCEPT ![s] = r],
             UNCHANGED <<status, answer>>,
             \A t \in Skus \ {s} : /\ t \in rows' <=> t \in rows
                                   /\ t \in active' <=> t \in active,
             x = IF s \in rows' THEN Item(h, r, Active(s)') ELSE NoItem
      PROVE  [m EXCEPT !.items = items] = InMemory'
  <2>1. \A t \in Skus \ {s} : Active(t)' = Active(t)
    BY <1>2 DEF Active
  <2>2. InMemory' =
          [items  |-> [t \in Skus |-> IF t \in rows' THEN Item(onHand'[t], reserved'[t], Active(t)')
                                                     ELSE NoItem],
           held   |-> status',
           answer |-> answer']
    BY DEF InMemory, ItemOf
  <2>3. ASSUME NEW t \in Skus
        PROVE  items[t] = IF t \in rows' THEN Item(onHand'[t], reserved'[t], Active(t)') ELSE NoItem
    <3>1. CASE t = s
      BY <1>1, <1>2, <3>1 DEF TypeOK
    <3>2. CASE t # s
      <4>1. onHand'[t] = onHand[t] /\ reserved'[t] = reserved[t]
        BY <1>2, <3>2 DEF TypeOK
      <4>2. items[t] = IF t \in rows THEN Item(onHand[t], reserved[t], Active(t)) ELSE NoItem
        BY <1>1, <1>2, <3>2 DEF ItemOf
      <4> QED
        BY <1>2, <2>1, <3>2, <4>1, <4>2
    <3> QED
      BY <3>1, <3>2
  <2>4. items = [t \in Skus |-> items[t]]
    BY <1>1, <1>2
  <2>5. [m EXCEPT !.items = items] = [items |-> items, held |-> status, answer |-> answer]
    <3>1. PICK old : old = m.items
      OBVIOUS
    <3>2. m = [items |-> old, held |-> status, answer |-> answer]
      BY <3>1 DEF InMemory
    <3> QED
      BY <3>2
  <2> QED
    BY <1>2, <2>2, <2>3, <2>4, <2>5
<1>3. s \in rows => m.items[s].row /\ m.items[s].reserved = reserved[s]
  BY <1>1 DEF ItemOf, Item
<1>4. s \notin rows => ~m.items[s].row /\ reserved[s] = 0 /\ onHand[s] = 0 /\ s \notin active
  BY <1>1 DEF NoItem, TypeOK
<1>5. onHand = [onHand EXCEPT ![s] = onHand[s]] /\ reserved = [reserved EXCEPT ![s] = reserved[s]]
  BY DEF TypeOK
<1>6. ASSUME NEW n \in StockLevels, UpsertItem(s, n, a) PROVE MemUpsert(m, s, n, a) = InMemory'
  <2>1. Active(s)' = a
    BY <1>6 DEF UpsertItem, Active
  <2>2. MemUpsert(m, s, n, a) = [m EXCEPT !.items = [m.items EXCEPT ![s] = Item(n, reserved[s], a)]]
    BY <1>3, <1>4 DEF MemUpsert, InMemory
  <2>3. PICK x : x = Item(n, reserved[s], a)
    OBVIOUS
  <2>4. /\ onHand' = [onHand EXCEPT ![s] = n] /\ reserved' = [reserved EXCEPT ![s] = reserved[s]]
        /\ UNCHANGED <<status, answer>>
        /\ \A t \in Skus \ {s} : (t \in rows' <=> t \in rows) /\ (t \in active' <=> t \in active)
        /\ s \in rows'
    BY <1>5, <1>6 DEF UpsertItem, recordVars
  <2>5. x = IF s \in rows' THEN Item(n, reserved[s], Active(s)') ELSE NoItem
    BY <2>1, <2>3, <2>4
  <2> QED
    BY <1>2, <2>2, <2>3, <2>4, <2>5
<1>7. ASSUME EnsureItem(s, a) PROVE MemEnsure(m, s, a) = InMemory'
  <2>1. Active(s)' = a
    BY <1>4, <1>7 DEF EnsureItem, Active
  <2>2. MemEnsure(m, s, a) = [m EXCEPT !.items = [m.items EXCEPT ![s] = Item(0, 0, a)]]
    BY <1>4, <1>7 DEF EnsureItem, MemEnsure, InMemory
  <2>3. PICK x : x = Item(0, 0, a)
    OBVIOUS
  <2>4. /\ onHand' = [onHand EXCEPT ![s] = 0] /\ reserved' = [reserved EXCEPT ![s] = 0]
        /\ UNCHANGED <<status, answer>>
        /\ \A t \in Skus \ {s} : (t \in rows' <=> t \in rows) /\ (t \in active' <=> t \in active)
        /\ s \in rows'
    BY <1>4, <1>5, <1>7 DEF EnsureItem, recordVars
  <2>5. x = IF s \in rows' THEN Item(0, 0, Active(s)') ELSE NoItem
    BY <2>1, <2>3, <2>4
  <2> QED
    BY <1>2, <2>2, <2>3, <2>4, <2>5
<1>8. ASSUME DeleteItem(s) PROVE MemDelete(m, s) = InMemory'
  <2>1. MemDelete(m, s) = [m EXCEPT !.items = [m.items EXCEPT ![s] = NoItem]]
    BY DEF MemDelete, InMemory
  <2> QED
    BY <1>2, <1>8, <2>1 DEF DeleteItem, recordVars
<1> QED
  BY <1>6, <1>7, <1>8

\* Rows are inserted for the lines of an order.
LEMMA RowsStep == TypeOK /\ RowsAreLines /\ [Next]_vars => RowsAreLines'
<1> SUFFICES ASSUME TypeOK, RowsAreLines, [Next]_vars PROVE RowsAreLines'
  OBVIOUS
<1>1. ASSUME status' = status PROVE RowsAreLines'
  BY <1>1 DEF RowsAreLines, SkusOf
<1>2. ASSUME NEW o \in Orders, NEW S, NEW t, \A s \in S : s \in SkusOf(o),
             status' = [status EXCEPT ![o] = [s \in Skus |-> IF s \in S THEN t ELSE @[s]]]
      PROVE  RowsAreLines'
  <2>1. \A h \in Orders, s \in Skus :
          status'[h][s] = IF h = o /\ s \in S THEN t ELSE status[h][s]
    BY <1>2 DEF TypeOK
  <2> QED
    BY <1>2, <2>1 DEF RowsAreLines, SkusOf
<1>3. ASSUME NEW o \in Orders, Reserve(o) PROVE RowsAreLines'
  <2>1. CASE ReserveAccepted(o)
    BY <1>2, <2>1 DEF ReserveAccepted, ReserveLines
  <2>2. CASE ReserveRejected(o) \/ ReserveFailed(o)
    BY <1>1, <2>2 DEF ReserveRejected, ReserveFailed, recordVars
  <2> QED
    BY <1>3, <2>1, <2>2 DEF Reserve
<1>4. ASSUME NEW o \in Orders, NEW t \in Targets, SettleDone(o, t) \/ SettleFailed(o, t)
      PROVE  RowsAreLines'
  <2>1. CASE SettleDone(o, t)
    <3>1. \A s \in HeldSkus(o) : s \in SkusOf(o)
      BY DEF HeldSkus, RowsAreLines
    <3> QED
      BY <1>2, <2>1, <3>1 DEF SettleDone
  <2>2. CASE SettleFailed(o, t)
    BY <1>1, <2>2 DEF SettleFailed, recordVars
  <2> QED
    BY <1>4, <2>1, <2>2
<1>5. ASSUME NEW o \in Orders, ConfirmReservation(o) \/ ReleaseReservation(o) PROVE RowsAreLines'
  BY <1>4, <1>5 DEF ConfirmReservation, ReleaseReservation, Targets
<1>6. CASE \/ \E s \in Skus, a \in BOOLEAN : EnsureItem(s, a)
           \/ \E s \in Skus : DeleteItem(s)
           \/ \E s \in Skus, n \in StockLevels, a \in BOOLEAN : UpsertItem(s, n, a)
           \/ UNCHANGED vars
  BY <1>1, <1>6 DEF EnsureItem, DeleteItem, UpsertItem, vars, recordVars
<1> QED
  BY <1>3, <1>5, <1>6 DEF Next

\* Until the repositories part nothing was orphaned or lowered.
LEMMA TwinStep == TwinInv /\ [TwinNext]_twinVars => TwinInv'
<1> SUFFICES ASSUME TwinInv, [TwinNext]_twinVars PROVE TwinInv'
  OBVIOUS
<1>1. [Next]_vars
  BY DEF TwinNext, twinVars, Next, ReserveBoth, SettleBoth, UpsertBoth, EnsureBoth, DeleteBoth
<1>2. StockInv'
  BY <1>1, StockStep DEF TwinInv
<1>3. RowsAreLines'
  BY <1>1, RowsStep DEF TwinInv, StockInv
<1>4. SUFFICES ASSUME memory' # Parted
               PROVE  memory' = InMemory' /\ orphaned' = {} /\ lowered' = {}
  BY <1>2, <1>3 DEF TwinInv
<1>5. ASSUME memory # Parted
      PROVE  StockInv /\ TypeOK /\ RowsAreLines /\ memory = InMemory /\ orphaned = {} /\ lowered = {}
  BY <1>5 DEF TwinInv, StockInv
<1>6. ASSUME NEW o \in Orders, ReserveBoth(o)
      PROVE  memory' = InMemory' /\ orphaned' = {} /\ lowered' = {}
  <2>1. /\ memory # Parted /\ memory' = MemReserve(memory, o)
        /\ \A s \in Skus : status[o][s] = "NONE"
    BY <1>4, <1>6 DEF ReserveBoth, Follow
  <2>2. UNCHANGED historyVars
    BY <1>6 DEF ReserveBoth, Reserve, ReserveAccepted, ReserveRejected, ReserveFailed, ReserveLines
  <2> QED
    BY <1>5, <1>6, <2>1, <2>2, ReserveAgrees DEF ReserveBoth, historyVars
<1>7. ASSUME NEW o \in Orders, NEW t \in Targets, SettleBoth(o, t)
      PROVE  memory' = InMemory' /\ orphaned' = {} /\ lowered' = {}
  <2>1. memory # Parted /\ memory' = MemSettle(memory, o, t)
    BY <1>4, <1>7 DEF SettleBoth, Follow
  <2>2. SettleDone(o, t) \/ SettleFailed(o, t)
    BY <1>7 DEF SettleBoth, ConfirmReservation, ReleaseReservation, Targets
  <2>3. UNCHANGED historyVars
    BY <2>2 DEF SettleDone, SettleFailed
  <2> QED
    BY <1>5, <2>1, <2>2, <2>3, SettleAgrees DEF historyVars
<1>8. ASSUME NEW s \in Skus, NEW n \in StockLevels, NEW a \in BOOLEAN, UpsertBoth(s, n, a)
      PROVE  memory' = InMemory' /\ orphaned' = {} /\ lowered' = {}
  <2>1. memory # Parted /\ memory' = MemUpsert(memory, s, n, a) /\ s \notin lowered'
    BY <1>4, <1>8 DEF UpsertBoth, Follow
  <2>2. orphaned' = {} /\ lowered' = {}
    BY <1>5, <1>8, <2>1 DEF UpsertBoth, UpsertItem
  <2> QED
    BY <1>5, <1>8, <2>1, <2>2, EditsAgree DEF UpsertBoth
<1>9. ASSUME NEW s \in Skus, NEW a \in BOOLEAN, EnsureBoth(s, a) \/ DeleteBoth(s)
      PROVE  memory' = InMemory' /\ orphaned' = {} /\ lowered' = {}
  <2>1. memory # Parted
    BY <1>4, <1>9 DEF EnsureBoth, DeleteBoth, Follow
  <2>2. CASE EnsureBoth(s, a)
    <3>1. memory' = MemEnsure(memory, s, a)
      BY <1>4, <2>2 DEF EnsureBoth, Follow
    <3>2. orphaned' = {} /\ lowered' = {}
      BY <1>5, <2>1, <2>2 DEF EnsureBoth, EnsureItem, historyVars
    <3> QED
      BY <1>5, <2>1, <2>2, <3>1, <3>2, EditsAgree DEF EnsureBoth
  <2>3. CASE DeleteBoth(s)
    <3>1. memory' = MemDelete(memory, s) /\ s \notin orphaned'
      BY <1>4, <2>3 DEF DeleteBoth, Follow
    <3>2. orphaned' = {} /\ lowered' = {}
      BY <1>5, <2>1, <2>3, <3>1 DEF DeleteBoth, DeleteItem
    <3> QED
      BY <1>5, <2>1, <2>3, <3>1, <3>2, EditsAgree DEF DeleteBoth
  <2> QED
    BY <1>9, <2>2, <2>3
<1>10. CASE UNCHANGED twinVars
  BY <1>4, <1>5, <1>10 DEF twinVars, vars, stockVars, recordVars, historyVars, InMemory, ItemOf, Active
<1> QED
  BY <1>6, <1>7, <1>8, <1>9, <1>10 DEF TwinNext

\* Both start with nothing.
LEMMA TwinStarts == TwinInit => TwinInv
<1> SUFFICES ASSUME TwinInit PROVE TwinInv
  OBVIOUS
<1>1. StockInv
  BY StockInit DEF TwinInit
<1> QED
  BY <1>1 DEF TwinInit, Init, TwinInv, InMemory, RowsAreLines

\* The calls made to both are calls of Inventory, so its theorems hold here.
THEOREM TwinIsInventory == TwinSpec => Spec
<1>1. TwinInit => Init
  BY DEF TwinInit
<1>2. [TwinNext]_twinVars => [Next]_vars
  BY DEF TwinNext, twinVars, Next, ReserveBoth, SettleBoth, UpsertBoth, EnsureBoth, DeleteBoth
<1> QED
  BY <1>1, <1>2, PTL DEF TwinSpec, Spec

\* What is tried out against the in-memory repository holds for the one on
\* Postgres: after the same calls both have the same items and reservations
\* and gave the same answers, until a second reservation of an order, or an
\* administrator's edit under a reservation, parts them.
THEOREM RepositoriesAgree == TwinSpec => []TwinsAgree
<1>1. TwinInv => TwinsAgree
  BY DEF TwinInv, InMemory, ItemOf, Active, TwinsAgree
<1> QED
  BY <1>1, TwinStarts, TwinStep, PTL DEF TwinSpec

=============================================================================
