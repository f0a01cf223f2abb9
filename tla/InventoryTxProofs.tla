------------------------- MODULE InventoryTxProofs -------------------------
(***************************************************************************)
(* Proofs about InventoryTx, for any orders, SKUs, requests, connections   *)
(* and quantities: interleaved transactions amount to whole operations of  *)
(* Inventory, and only reservations close circles of waiting.              *)
(***************************************************************************)
EXTENDS InventoryTx, WellFoundedInduction, TLAPS

Reservations ==
  [op : {"reserve"}, order : Orders, left : SUBSET Skus,
   written : SUBSET Skus, locked : SUBSET Skus, rejected : BOOLEAN]
Settlements ==
  [op : {"settle"}, order : Orders, target : Inv!Targets, held : SUBSET Skus,
   left : SUBSET Skus, written : SUBSET Skus, locked : SUBSET Skus]

TxType ==
  /\ rows \subseteq Skus
  /\ onHand = [s \in Skus |-> onHand[s]] /\ reserved = [s \in Skus |-> reserved[s]]
  /\ status \in [Orders -> [Skus -> Inv!Statuses]]
  /\ ledger = [o \in Orders |-> ledger[o]]
  /\ \A o \in Orders : ledger[o] = [s \in Skus |-> ledger[o][s]]
  /\ tx \in [Txs -> {Idle} \cup Reservations \cup Settlements]

\* Only existing items are locked, each by one transaction, and what a
\* transaction wrote it has locked; one settlement of an order runs at a time.
LocksHold ==
  /\ \A t \in Running : tx[t].written \subseteq tx[t].locked /\ tx[t].locked \subseteq rows
  /\ \A t, u \in Running : t # u => tx[t].locked \cap tx[u].locked = {}
  /\ \A t, u \in Running : tx[t].op = "settle" /\ tx[u].op = "settle"
                           /\ tx[t].order = tx[u].order => t = u

\* A reservation's writes will not conflict: its lines still pass the check.
ReserveSound(t) ==
  LET o == tx[t].order IN
  /\ tx[t].written \cup tx[t].left \subseteq Inv!SkusOf(o)
  /\ ~tx[t].rejected => tx[t].written \cup tx[t].left = Inv!SkusOf(o)
  /\ \A s \in tx[t].written : Inv!CanReserve(o, s) /\ ~Inv!DuplicateRow(o, s)

\* A settlement settles all that its order holds, and the items it updated
\* still cover it; only items of deleted rows were passed over.
SettleSound(t) ==
  LET o == tx[t].order IN
  /\ tx[t].held # {} => tx[t].held = Inv!HeldSkus(o)
  /\ tx[t].written \cup tx[t].left \subseteq tx[t].held
  /\ tx[t].held \subseteq tx[t].written \cup tx[t].left \cup orphaned
  /\ \A s \in tx[t].written : Covered(t, s)

\* r comes before s in the order of the keys.
Precedes(r, s) ==
  \E i \in DOMAIN ByKey : ByKey[i] = r /\ \A j \in DOMAIN ByKey : ByKey[j] = s => i < j

LocksInOrder(t) == \A r \in tx[t].locked, s \in tx[t].left : Precedes(r, s)

Sound(t) ==
  /\ tx[t].op = "reserve" => ReserveSound(t)
  /\ tx[t].op = "settle" => SettleSound(t) /\ LocksInOrder(t)

\* Reservation rows are lines of their orders; while one is RESERVED its item
\* is there, or was deleted under it.
RowsSound ==
  \A o \in Orders, s \in Skus : status[o][s] # "NONE" =>
    s \in Inv!SkusOf(o) /\ (status[o][s] = "RESERVED" => s \in rows \cup orphaned)

TxInv == TxType /\ LocksHold /\ RowsSound /\ \A t \in Running : Sound(t)

-----------------------------------------------------------------------------
(* Transactions and the items they visit.                                  *)

\* A transaction that runs reserves or settles.
LEMMA Kinds ==
  ASSUME TxType, NEW t \in Running
  PROVE  /\ t \in Txs /\ tx[t] \in Reservations \cup Settlements
         /\ tx[t].op \in {"reserve", "settle"} /\ tx[t].order \in Orders
         /\ tx[t].left \subseteq Skus /\ tx[t].written \subseteq Skus /\ tx[t].locked \subseteq Skus
         /\ tx[t].op = "reserve" <=> tx[t] \in Reservations
         /\ tx[t].op = "settle" <=> tx[t] \in Settlements
BY DEF TxType, Running, Reservations, Settlements, Idle

\* Tasks are not Idle.
LEMMA NotIdle == \A task \in Reservations \cup Settlements : task # Idle
BY DEF Reservations, Settlements, Idle

\* A set of numbers has a smallest one.
LEMMA Smallest ==
  ASSUME NEW S \in SUBSET Nat, S # {}
  PROVE  \E m \in S : \A n \in S : m <= n
<1>1. PICK m \in S : \A n \in S : <<n, m>> \notin OpToRel(<, Nat)
  BY NatLessThanWellFounded, WFMin
<1>2. \A n \in S : ~(n < m)
  BY <1>1 DEF OpToRel
<1> QED
  BY <1>2

\* The item that comes next is one still to visit, the first on the path.
LEMMA NextIsLeft ==
  ASSUME TxInv, NEW t \in Running, tx[t].left # {}
  PROVE  /\ NextItem(t) \in tx[t].left
         /\ NextPlace(t) \in DOMAIN Path(tx[t]) /\ NextPlace(t) \in Nat
         /\ \A i \in DOMAIN Path(tx[t]) : Path(tx[t])[i] \in tx[t].left => NextPlace(t) <= i
<1> DEFINE path   == Path(tx[t])
           places == {i \in DOMAIN path : path[i] \in tx[t].left}
<1>1. tx[t].left \subseteq ToSet(path)
  <2>1. CASE tx[t].op = "reserve"
    <3>1. tx[t].left \subseteq Inv!SkusOf(tx[t].order) /\ tx[t].order \in Orders
      BY <2>1, Kinds DEF TxInv, Sound, ReserveSound
    <3> QED
      BY <2>1, <3>1, InventoryTxAssumption DEF Path, Inv!SkusOf
  <2>2. CASE tx[t].op # "reserve"
    BY <2>2, Kinds, InventoryTxAssumption DEF Path, TxInv
  <2> QED
    BY <2>1, <2>2
<1>2. path \in Seq(Skus)
  BY Kinds, InventoryTxAssumption DEF Path, TxInv
<1>3. places \in SUBSET Nat
  BY <1>2
<1>4. places # {}
  BY <1>1 DEF ToSet
<1>5. PICK m \in places : \A i \in places : m <= i
  BY <1>3, <1>4, Smallest
<1>6. NextPlace(t) \in places /\ \A i \in places : NextPlace(t) <= i
  <2>1. NextPlace(t) = Min(places)
    BY DEF NextPlace
  <2>2. \E x \in places : \A y \in places : x <= y
    BY <1>5
  <2> HIDE DEF places
  <2> QED
    BY <2>1, <2>2 DEF Min
<1> QED
  BY <1>3, <1>6 DEF NextItem

\* What is next for an unblocked transaction nobody else has locked.
LEMMA Unheld ==
  ASSUME TxInv, NEW t, AtLine(t)
  PROVE  /\ t \in Running /\ NextItem(t) \in tx[t].left
         /\ \A u \in Running \ {t} : NextItem(t) \notin tx[u].locked
BY NextIsLeft DEF AtLine, Unblocked, WaitsFor, Holders

\* What a transaction knows stays true while the others leave its items and
\* its reservation rows alone.
LEMMA SoundKept ==
  ASSUME TxInv, NEW u \in Running, UNCHANGED tx[u],
         \A s \in tx[u].locked : /\ s \in rows' /\ (s \in active' <=> s \in active)
                                 /\ onHand'[s] = onHand[s] /\ reserved'[s] = reserved[s],
         \A s \in tx[u].written : tx[u].op = "reserve" =>
           status'[tx[u].order][s] = status[tx[u].order][s],
         tx[u].op = "settle" /\ tx[u].held # {} => UNCHANGED Inv!HeldSkus(tx[u].order),
         tx[u].op = "settle" => tx[u].held \cap orphaned \subseteq orphaned'
  PROVE  Sound(u)'
<1>1. Sound(u) /\ tx[u].written \subseteq tx[u].locked /\ tx[u].locked \subseteq rows
  BY DEF TxInv, LocksHold
<1>2. CASE tx[u].op = "reserve"
  <2>1. \A s \in tx[u].written : Inv!CanReserve(tx[u].order, s)' /\ ~Inv!DuplicateRow(tx[u].order, s)'
    BY <1>1, <1>2 DEF Sound, ReserveSound, Inv!CanReserve, Inv!DuplicateRow, Inv!Available
  <2> QED
    BY <1>1, <1>2, <2>1 DEF Sound, ReserveSound, Inv!SkusOf
<1>3. CASE tx[u].op = "settle"
  <2>1. \A s \in tx[u].written : Covered(u, s)'
    BY <1>1, <1>3 DEF Sound, SettleSound, Covered, Quantity
  <2>2. SettleSound(u)'
    BY <1>1, <1>3, <2>1 DEF Sound, SettleSound
  <2> QED
    BY <1>1, <1>3, <2>2 DEF Sound, LocksInOrder
<1> QED
  BY <1>2, <1>3 DEF Sound

-----------------------------------------------------------------------------
(* The steps that write nothing for others to see.                         *)

\* A transaction that goes on keeps the invariant if what it has locked by
\* then is its own and what it knows by then is true.
LEMMA TaskKeeps ==
  ASSUME TxInv, NEW t \in Txs, NEW task \in {Idle} \cup Reservations \cup Settlements,
         tx' = [tx EXCEPT ![t] = task], UNCHANGED <<dbVars, historyVars>>,
         task # Idle =>
           /\ task.written \subseteq task.locked /\ task.locked \subseteq rows
           /\ \A u \in Running \ {t} : task.locked \cap tx[u].locked = {}
           /\ task.op = "settle" => \A u \in Running \ {t} :
                ~(tx[u].op = "settle" /\ tx[u].order = task.order)
           /\ Sound(t)'
  PROVE  TxInv'
<1>1. /\ tx'[t] = task /\ \A u \in Txs \ {t} : tx'[u] = tx[u]
      /\ tx' \in [Txs -> {Idle} \cup Reservations \cup Settlements]
  BY DEF TxInv, TxType
<1>2. Running' \ {t} = Running \ {t} /\ (t \in Running' <=> task # Idle)
  BY <1>1 DEF Running
<1>3. TxType' /\ RowsSound'
  BY <1>1 DEF TxInv, TxType, RowsSound, dbVars, historyVars, Inv!SkusOf
<1>4. LocksHold'
  BY <1>1, <1>2 DEF TxInv, LocksHold, dbVars
<1>5. ASSUME NEW u \in Running \ {t} PROVE Sound(u)'
  <2>1. UNCHANGED tx[u] /\ u \in Running
    BY <1>1 DEF Running
  <2>2. /\ tx[u].locked \subseteq rows
        /\ UNCHANGED Inv!HeldSkus(tx[u].order)
    BY <2>1 DEF TxInv, LocksHold, Inv!HeldSkus, dbVars
  <2> QED
    BY <2>1, <2>2, SoundKept DEF dbVars, historyVars
<1>6. \A u \in Running' : Sound(u)'
  BY <1>2, <1>5
<1> QED
  BY <1>3, <1>4, <1>6 DEF TxInv

\* BEGIN.
LEMMA BeginKeeps ==
  ASSUME TxInv, NEW t \in Txs, NEW o \in Orders,
         BeginReserve(t, o) \/ \E target \in Inv!Targets : BeginSettle(t, o, target)
  PROVE  TxInv'
<1>1. CASE BeginReserve(t, o)
  <2>1. /\ Reserving(o) \in Reservations
        /\ Reserving(o).left = Inv!SkusOf(o) /\ Reserving(o).written = {}
        /\ Reserving(o).locked = {} /\ Reserving(o).op = "reserve" /\ Reserving(o).order = o
    BY InventoryTxAssumption DEF Reserving, Reservations, Inv!SkusOf
  <2>2. tx' = [tx EXCEPT ![t] = Reserving(o)] /\ UNCHANGED <<dbVars, historyVars>>
    BY <1>1 DEF BeginReserve, Begin
  <2>3. tx'[t] = Reserving(o)
    BY <2>2 DEF TxInv, TxType
  <2>4. Sound(t)'
    BY <2>1, <2>3 DEF Sound, ReserveSound, Inv!SkusOf
  <2> QED
    BY <2>1, <2>2, <2>4, TaskKeeps
<1>2. ASSUME NEW target \in Inv!Targets, BeginSettle(t, o, target) PROVE TxInv'
  <2> DEFINE task == Settling(o, target, Inv!HeldSkus(o))
  <2>1. /\ task \in Settlements
        /\ task.left = Inv!HeldSkus(o) /\ task.held = Inv!HeldSkus(o) /\ task.written = {}
        /\ task.locked = {} /\ task.op = "settle" /\ task.order = o
    BY DEF Settling, Settlements, Inv!HeldSkus
  <2>2. tx' = [tx EXCEPT ![t] = task] /\ UNCHANGED <<dbVars, historyVars>>
    BY <1>2 DEF BeginSettle, Begin
  <2>3. tx'[t] = task
    BY <2>2 DEF TxInv, TxType
  <2>4. UNCHANGED Inv!HeldSkus(o)
    BY <2>2 DEF Inv!HeldSkus, dbVars
  <2>5. \A u \in Running \ {t} : ~(tx[u].op = "settle" /\ tx[u].order = task.order)
    BY <1>2, <2>1 DEF BeginSettle, Settlers
  <2> HIDE DEF task
  <2>6. SettleSound(t)'
    BY <2>1, <2>3, <2>4 DEF SettleSound
  <2>7. Sound(t)'
    BY <2>1, <2>3, <2>6 DEF Sound, LocksInOrder
  <2> QED
    BY <2>1, <2>2, <2>5, <2>7, TaskKeeps
<1> QED
  BY <1>1, <1>2

\* The next item is locked, if there is one.
LEMMA LockTaken ==
  ASSUME TxInv, NEW t, AtLine(t)
  PROVE  /\ NextItem(t) \in Skus
         /\ Locked(t, NextItem(t)) \subseteq rows
         /\ tx[t].written \subseteq Locked(t, NextItem(t))
         /\ NextItem(t) \in rows => NextItem(t) \in Locked(t, NextItem(t))
         /\ Locked(t, NextItem(t)) \subseteq tx[t].locked \cup {NextItem(t)}
         /\ \A u \in Running \ {t} : Locked(t, NextItem(t)) \cap tx[u].locked = {}
<1>1. t \in Running /\ NextItem(t) \in tx[t].left /\ tx[t].left \subseteq Skus
  BY Unheld, Kinds DEF TxInv
<1>2. /\ tx[t].written \subseteq tx[t].locked /\ tx[t].locked \subseteq rows
      /\ \A u \in Running \ {t} : tx[t].locked \cap tx[u].locked = {}
  BY <1>1 DEF TxInv, LocksHold
<1> QED
  BY <1>1, <1>2, Unheld DEF Locked

\* A line is reserved, or rejected.
LEMMA ReserveLineKeeps ==
  ASSUME TxInv, NEW t \in Txs, ReserveLine(t) \/ RejectLine(t)
  PROVE  TxInv'
<1> DEFINE s == NextItem(t)
           o == tx[t].order
<1>1. t \in Running /\ AtLine(t) /\ tx[t] \in Reservations /\ tx[t].op = "reserve" /\ s \in tx[t].left
  BY Unheld, Kinds DEF ReserveLine, RejectLine, TxInv
<1>2. PICK written, rejected :
        /\ rejected \in BOOLEAN
        /\ \/ written = tx[t].written \cup {s} /\ rejected = tx[t].rejected
              /\ Inv!CanReserve(o, s) /\ ~Inv!DuplicateRow(o, s)
           \/ written = tx[t].written /\ rejected = TRUE
        /\ tx' = [tx EXCEPT ![t] =
             [op |-> "reserve", order |-> o, left |-> tx[t].left \ {s}, written |-> written,
              locked |-> Locked(t, s), rejected |-> rejected]]
        /\ UNCHANGED <<dbVars, historyVars>>
  <2>. /\ tx[t] = [op |-> "reserve", order |-> o, left |-> tx[t].left, written |-> tx[t].written,
                    locked |-> tx[t].locked, rejected |-> tx[t].rejected]
       /\ tx[t].rejected \in BOOLEAN
    BY <1>1 DEF Reservations
  <2>. tx = [u \in Txs |-> tx[u]]
    BY DEF TxInv, TxType
  <2> DEFINE with(left, locked, written, rejected) ==
               [op |-> "reserve", order |-> o, left |-> left, written |-> written,
                locked |-> locked, rejected |-> rejected]
             next == [[tx[t] EXCEPT !.left = tx[t].left \ {s}] EXCEPT !.locked = Locked(t, s)]
  <2>1. next = with(tx[t].left \ {s}, Locked(t, s), tx[t].written, tx[t].rejected)
    <3>1. [tx[t] EXCEPT !.left = tx[t].left \ {s}]
            = with(tx[t].left \ {s}, tx[t].locked, tx[t].written, tx[t].rejected)
      OBVIOUS
    <3>2. [with(tx[t].left \ {s}, tx[t].locked, tx[t].written, tx[t].rejected)
             EXCEPT !.locked = Locked(t, s)]
            = with(tx[t].left \ {s}, Locked(t, s), tx[t].written, tx[t].rejected)
      OBVIOUS
    <3> QED
      BY <3>1, <3>2
  <2>2. CASE ReserveLine(t)
    <3>1. [next EXCEPT !.written = tx[t].written \cup {s}]
            = with(tx[t].left \ {s}, Locked(t, s), tx[t].written \cup {s}, tx[t].rejected)
      <4>1. [with(tx[t].left \ {s}, Locked(t, s), tx[t].written, tx[t].rejected)
               EXCEPT !.written = tx[t].written \cup {s}]
              = with(tx[t].left \ {s}, Locked(t, s), tx[t].written \cup {s}, tx[t].rejected)
        OBVIOUS
      <4> QED
        BY <2>1, <4>1
    <3>2. tx' = [tx EXCEPT ![t] = [next EXCEPT !.written = tx[t].written \cup {s}]]
      BY <2>2 DEF ReserveLine
    <3>3. tx' = [tx EXCEPT ![t] = with(tx[t].left \ {s}, Locked(t, s), tx[t].written \cup {s},
                                       tx[t].rejected)]
      BY <3>1, <3>2
    <3> QED
      BY <2>2, <3>3 DEF ReserveLine
  <2>3. CASE RejectLine(t)
    <3>1. [next EXCEPT !.rejected = TRUE]
            = with(tx[t].left \ {s}, Locked(t, s), tx[t].written, TRUE)
      <4>1. \A b : [with(tx[t].left \ {s}, Locked(t, s), tx[t].written, tx[t].rejected)
                      EXCEPT !.rejected = b]
                      = with(tx[t].left \ {s}, Locked(t, s), tx[t].written, b)
        OBVIOUS
      <4> QED
        BY <2>1, <4>1
    <3>2. tx' = [tx EXCEPT ![t] = [next EXCEPT !.rejected = TRUE]]
      BY <2>3 DEF RejectLine
    <3>3. tx' = [tx EXCEPT ![t] = with(tx[t].left \ {s}, Locked(t, s), tx[t].written, TRUE)]
      BY <3>1, <3>2
    <3> QED
      BY <2>3, <3>3 DEF RejectLine
  <2> QED
    BY <2>2, <2>3
<1> DEFINE task == [op |-> "reserve", order |-> o, left |-> tx[t].left \ {s}, written |-> written,
                    locked |-> Locked(t, s), rejected |-> rejected]
<1>3. /\ s \in Skus /\ Locked(t, s) \subseteq rows /\ tx[t].written \subseteq Locked(t, s)
      /\ s \in rows => s \in Locked(t, s)
      /\ \A u \in Running \ {t} : Locked(t, s) \cap tx[u].locked = {}
  BY <1>1, LockTaken
<1>4. Inv!CanReserve(o, s) => s \in rows
  BY DEF Inv!CanReserve
<1>5. task \in Reservations /\ task.written \subseteq task.locked
  BY <1>1, <1>2, <1>3, <1>4 DEF Reservations, TxInv, TxType
<1>6. Sound(t) /\ o \in Orders
  BY <1>1, Kinds DEF TxInv
<1>7. tx'[t] = task
  BY <1>2 DEF TxInv, TxType
<1>8. /\ \A r : Inv!CanReserve(o, r)' <=> Inv!CanReserve(o, r)
      /\ \A r : Inv!DuplicateRow(o, r)' <=> Inv!DuplicateRow(o, r)
  BY <1>1, <1>2, <1>7 DEF Inv!CanReserve, Inv!DuplicateRow, Inv!Available, dbVars
<1>9. Sound(t)'
  BY <1>1, <1>2, <1>6, <1>7, <1>8 DEF Sound, ReserveSound, Inv!SkusOf
<1> HIDE DEF task
<1>10. tx' = [tx EXCEPT ![t] = task] /\ task.op = "reserve" /\ task.locked = Locked(t, s)
  BY <1>2 DEF task
<1> QED
  BY <1>2, <1>3, <1>5, <1>9, <1>10, TaskKeeps

\* The items that are locked come before those still to visit.
LEMMA LineInOrder ==
  ASSUME TxInv, NEW t, AtLine(t), tx[t].op = "settle",
         NEW r \in tx[t].left \ {NextItem(t)}
  PROVE  Precedes(NextItem(t), r)
<1>1. Path(tx[t]) = ByKey /\ ByKey \in Seq(Skus)
  BY InventoryTxAssumption DEF Path
<1>2. /\ NextPlace(t) \in DOMAIN ByKey /\ ByKey[NextPlace(t)] = NextItem(t) /\ NextPlace(t) \in Nat
      /\ \A i \in DOMAIN ByKey : ByKey[i] \in tx[t].left => NextPlace(t) <= i
  BY <1>1, NextIsLeft DEF AtLine, NextItem
<1>3. \A j \in DOMAIN ByKey : ByKey[j] = r => NextPlace(t) < j
  <2>1. SUFFICES ASSUME NEW j \in DOMAIN ByKey, ByKey[j] = r PROVE NextPlace(t) < j
    OBVIOUS
  <2>2. NextPlace(t) <= j /\ NextPlace(t) # j /\ j \in Nat
    BY <1>1, <1>2, <2>1
  <2> QED
    BY <1>2, <2>2
<1> QED
  BY <1>2, <1>3 DEF Precedes

\* An item is updated, or passed over.
LEMMA SettleLineKeeps == ASSUME TxInv, NEW t \in Txs, SettleLine(t) PROVE TxInv'
<1> DEFINE s == NextItem(t)
           o == tx[t].order
<1>1. t \in Running /\ AtLine(t) /\ tx[t] \in Settlements /\ tx[t].op = "settle" /\ s \in tx[t].left
  BY Unheld, Kinds DEF SettleLine, TxInv
<1>2. PICK written :
        /\ written = IF s \in rows THEN tx[t].written \cup {s} ELSE tx[t].written
        /\ s \in rows => Covered(t, s)
        /\ tx' = [tx EXCEPT ![t] =
             [op |-> "settle", order |-> o, target |-> tx[t].target, held |-> tx[t].held,
              left |-> tx[t].left \ {s}, written |-> written, locked |-> Locked(t, s)]]
        /\ UNCHANGED <<dbVars, historyVars>>
  <2>1. tx[t] = [op |-> "settle", order |-> o, target |-> tx[t].target, held |-> tx[t].held,
                 left |-> tx[t].left, written |-> tx[t].written, locked |-> tx[t].locked]
    BY <1>1 DEF Settlements
  <2>2. tx = [u \in Txs |-> tx[u]]
    BY DEF TxInv, TxType
  <2> DEFINE with(left, locked, written) ==
               [op |-> "settle", order |-> o, target |-> tx[t].target, held |-> tx[t].held,
                left |-> left, written |-> written, locked |-> locked]
             updated == IF s \in rows THEN tx[t].written \cup {s} ELSE tx[t].written
  <2>3. [tx[t] EXCEPT !.left = tx[t].left \ {s}, !.locked = Locked(t, s), !.written = updated]
          = with(tx[t].left \ {s}, Locked(t, s), updated)
    <3>1. [tx[t] EXCEPT !.left = tx[t].left \ {s}]
            = with(tx[t].left \ {s}, tx[t].locked, tx[t].written)
      BY <2>1
    <3>2. [with(tx[t].left \ {s}, tx[t].locked, tx[t].written) EXCEPT !.locked = Locked(t, s)]
            = with(tx[t].left \ {s}, Locked(t, s), tx[t].written)
      OBVIOUS
    <3>3. [with(tx[t].left \ {s}, Locked(t, s), tx[t].written) EXCEPT !.written = updated]
            = with(tx[t].left \ {s}, Locked(t, s), updated)
      OBVIOUS
    <3> QED
      BY <3>1, <3>2, <3>3
  <2>4. tx' = [tx EXCEPT ![t] = [tx[t] EXCEPT !.left = tx[t].left \ {s}, !.locked = Locked(t, s),
                                              !.written = updated]]
    BY DEF SettleLine
  <2>5. tx' = [tx EXCEPT ![t] = with(tx[t].left \ {s}, Locked(t, s), updated)]
    BY <2>3, <2>4
  <2> QED
    BY <2>5 DEF SettleLine
<1> DEFINE task == [op |-> "settle", order |-> o, target |-> tx[t].target, held |-> tx[t].held,
                    left |-> tx[t].left \ {s}, written |-> written, locked |-> Locked(t, s)]
<1>3. /\ s \in Skus /\ Locked(t, s) \subseteq rows /\ tx[t].written \subseteq Locked(t, s)
      /\ s \in rows => s \in Locked(t, s)
      /\ Locked(t, s) \subseteq tx[t].locked \cup {s}
      /\ \A u \in Running \ {t} : Locked(t, s) \cap tx[u].locked = {}
  BY <1>1, LockTaken
<1>4. task \in Settlements /\ task.written \subseteq task.locked
  BY <1>1, <1>2, <1>3 DEF Settlements, TxInv, TxType
<1>5. SettleSound(t) /\ LocksInOrder(t) /\ o \in Orders
  BY <1>1, Kinds DEF TxInv, Sound
<1>6. tx'[t] = task
  BY <1>2 DEF TxInv, TxType
<1>7. \A r : Covered(t, r)' <=> Covered(t, r)
  BY <1>2, <1>6 DEF Covered, Quantity, dbVars
<1>8. s \in rows \cup orphaned
  <2>1. s \in Inv!HeldSkus(o)
    BY <1>1, <1>5 DEF SettleSound
  <2> QED
    BY <1>5, <2>1 DEF Inv!HeldSkus, TxInv, RowsSound
<1>9. UNCHANGED <<Inv!HeldSkus(o), orphaned>>
  BY <1>2 DEF Inv!HeldSkus, dbVars, historyVars
<1>10. SettleSound(t)'
  <2>1. /\ tx'[t].order = o /\ tx'[t].held = tx[t].held /\ tx'[t].left = tx[t].left \ {s}
        /\ tx'[t].written = written
    BY <1>6
  <2>2. written \subseteq tx[t].written \cup {s}
    BY <1>2
  <2>3. \A r \in written : Covered(t, r)
    BY <1>2, <1>5 DEF SettleSound
  <2>4. tx[t].written \cup {s} \subseteq written \cup orphaned
    BY <1>2, <1>8
  <2> HIDE DEF task
  <2>5. /\ tx'[t].written \cup tx'[t].left \subseteq tx'[t].held
        /\ tx'[t].held \subseteq tx'[t].written \cup tx'[t].left \cup orphaned'
    BY <1>1, <1>5, <1>9, <2>1, <2>2, <2>4 DEF SettleSound
  <2>6. tx'[t].held # {} => tx'[t].held = Inv!HeldSkus(o)'
    BY <1>5, <1>9, <2>1 DEF SettleSound
  <2>7. \A r \in tx'[t].written : Covered(t, r)'
    BY <1>7, <2>1, <2>3
  <2> QED
    BY <2>1, <2>5, <2>6, <2>7 DEF SettleSound
<1>11. LocksInOrder(t)'
  <2>1. \A r \in tx[t].left \ {s} : Precedes(s, r)
    BY <1>1, LineInOrder
  <2> QED
    BY <1>3, <1>5, <1>6, <2>1 DEF LocksInOrder
<1>12. Sound(t)'
  BY <1>6, <1>10, <1>11 DEF Sound
<1>13. \A u \in Running \ {t} : ~(tx[u].op = "settle" /\ tx[u].order = o)
  BY <1>1 DEF TxInv, LocksHold
<1> HIDE DEF task
<1>14. tx' = [tx EXCEPT ![t] = task] /\ UNCHANGED <<dbVars, historyVars>>
  BY <1>2 DEF task
<1>15. task.locked = Locked(t, s) /\ task.order = o
  BY DEF task
<1> QED
  BY <1>3, <1>4, <1>12, <1>13, <1>14, <1>15, TaskKeeps

\* ROLLBACK.
LEMMA RollbackKeeps == ASSUME TxInv, NEW t \in Txs, NEW a, Rollback(t, a) PROVE TxInv'
BY TaskKeeps DEF Rollback, End

-----------------------------------------------------------------------------
(* COMMIT, and the administrators.                                         *)

\* A commit that writes to the items the transaction has locked, and to rows
\* of its order that no other transaction relies on.
LEMMA CommitKeeps ==
  ASSUME TxInv, NEW t \in Running, tx' = [tx EXCEPT ![t] = Idle],
         UNCHANGED <<rows, active, historyVars>>,
         onHand' = [s \in Skus |-> onHand'[s]], reserved' = [s \in Skus |-> reserved'[s]],
         \A s \in Skus \ tx[t].written : onHand'[s] = onHand[s] /\ reserved'[s] = reserved[s],
         NEW S \in SUBSET Inv!SkusOf(tx[t].order), NEW st \in Inv!Statuses \ {"NONE"},
         NEW movement, Record(tx[t].order, S, st, movement),
         st = "RESERVED" => S \subseteq rows,
         \A u \in Running \ {t} : tx[u].order = tx[t].order =>
           /\ tx[u].op = "reserve" => tx[u].written \cap S = {}
           /\ tx[u].op = "settle" => tx[u].held = {}
  PROVE  TxInv'
<1> DEFINE o == tx[t].order
<1>1. /\ t \in Txs /\ o \in Orders /\ S \subseteq Skus
      /\ tx'[t] = Idle /\ \A u \in Txs \ {t} : tx'[u] = tx[u]
  BY Kinds DEF TxInv, TxType, Inv!SkusOf
<1>2. /\ status' \in [Orders -> [Skus -> Inv!Statuses]]
      /\ \A h \in Orders \ {o} : status'[h] = status[h]
      /\ \A s \in Skus : status'[o][s] = IF s \in S THEN st ELSE status[o][s]
  BY <1>1 DEF Record, TxInv, TxType
<1>3. /\ ledger' = [h \in Orders |-> ledger'[h]]
      /\ \A h \in Orders : ledger'[h] = [s \in Skus |-> ledger'[h][s]]
  BY <1>1 DEF Record, TxInv, TxType
<1>4. TxType'
  BY <1>1, <1>2, <1>3 DEF TxInv, TxType
<1>5. Running' = Running \ {t}
  BY <1>1 DEF Running
<1>6. LocksHold'
  <2>1. \A u \in Running' : u \in Running /\ tx'[u] = tx[u]
    BY <1>1, <1>5 DEF Running
  <2> QED
    BY <2>1 DEF LocksHold, TxInv
<1>7. RowsSound'
  <2>1. UNCHANGED <<rows, orphaned>> /\ \A h : UNCHANGED Inv!SkusOf(h)
    BY DEF historyVars, Inv!SkusOf
  <2>2. SUFFICES ASSUME NEW h \in Orders, NEW s \in Skus, status'[h][s] # "NONE"
                 PROVE  s \in Inv!SkusOf(h) /\ (status'[h][s] = "RESERVED" => s \in rows \cup orphaned)
    BY <2>1 DEF RowsSound
  <2>3. CASE h = o /\ s \in S
    BY <1>2, <2>3
  <2>4. CASE ~(h = o /\ s \in S)
    BY <1>2, <2>2, <2>4 DEF TxInv, RowsSound
  <2> QED
    BY <2>3, <2>4
<1>8. ASSUME NEW u \in Running \ {t} PROVE Sound(u)'
  <2>1. /\ u \in Txs /\ tx[u].order \in Orders /\ tx[u].locked \subseteq Skus
        /\ tx[u].op \in {"reserve", "settle"} /\ tx[u].written \subseteq Skus
    BY Kinds DEF TxInv
  <2>2. UNCHANGED tx[u]
    BY <1>1, <2>1
  <2>3. /\ tx[u].locked \cap tx[t].locked = {} /\ tx[t].written \subseteq tx[t].locked
        /\ tx[u].locked \subseteq rows
    BY DEF TxInv, LocksHold
  <2>4. \A s \in tx[u].locked : /\ s \in rows' /\ (s \in active' <=> s \in active)
                                 /\ onHand'[s] = onHand[s] /\ reserved'[s] = reserved[s]
    BY <2>1, <2>3
  <2>5. \A s \in tx[u].written : tx[u].op = "reserve" =>
          status'[tx[u].order][s] = status[tx[u].order][s]
    BY <1>2, <2>1
  <2>6. tx[u].op = "settle" /\ tx[u].held # {} => UNCHANGED Inv!HeldSkus(tx[u].order)
    BY <1>2, <2>1 DEF Inv!HeldSkus
  <2>7. orphaned \subseteq orphaned'
    BY DEF historyVars
  <2> QED
    BY <2>2, <2>4, <2>5, <2>6, <2>7, SoundKept
<1> QED
  BY <1>4, <1>5, <1>6, <1>7, <1>8 DEF TxInv

\* A reservation that commits has found all its order's lines without a row,
\* so no settlement of the order has anything to settle.
LEMMA ReserveCommits ==
  ASSUME TxInv, NEW t \in Txs, ReserveCommit(t)
  PROVE  /\ t \in Running /\ tx[t].order \in Orders
         /\ tx[t].written = Inv!SkusOf(tx[t].order) /\ tx[t].written \subseteq rows
         /\ \A s \in tx[t].written : /\ Inv!CanReserve(tx[t].order, s)
                                      /\ ~Inv!DuplicateRow(tx[t].order, s)
         /\ \A u \in Running \ {t} : tx[u].order = tx[t].order =>
              /\ tx[u].op = "reserve" => tx[u].written \cap tx[t].written = {}
              /\ tx[u].op = "settle" => tx[u].held = {}
<1>1. /\ t \in Running /\ tx[t].op = "reserve" /\ tx[t].left = {} /\ ~tx[t].rejected
      /\ ReserveSound(t) /\ tx[t].order \in Orders
  BY Kinds DEF ReserveCommit, TxInv, Sound
<1>2. /\ tx[t].written = Inv!SkusOf(tx[t].order)
      /\ \A s \in tx[t].written : /\ Inv!CanReserve(tx[t].order, s)
                                   /\ ~Inv!DuplicateRow(tx[t].order, s)
  BY <1>1 DEF ReserveSound
<1>3. ASSUME NEW u \in Running \ {t}, tx[u].order = tx[t].order, tx[u].op = "settle"
      PROVE  tx[u].held = {}
  <2>1. tx[u].held # {} => tx[u].held = Inv!HeldSkus(tx[t].order)
    BY <1>3 DEF TxInv, Sound, SettleSound
  <2>2. \A s \in Inv!HeldSkus(tx[t].order) :
          s \in Inv!SkusOf(tx[t].order) /\ status[tx[t].order][s] # "NONE"
    BY <1>1 DEF TxInv, RowsSound, Inv!HeldSkus
  <2> QED
    BY <1>2, <2>1, <2>2 DEF Inv!DuplicateRow
<1> QED
  BY <1>1, <1>2, <1>3 DEF TxInv, LocksHold

\* A reservation commits: its items are no longer locked by anybody.
LEMMA ReserveCommitKeeps == ASSUME TxInv, NEW t \in Txs, ReserveCommit(t) PROVE TxInv'
<1>1. /\ reserved' = [s \in Skus |-> IF s \in tx[t].written THEN reserved[s] + Quantity(t, s)
                                                            ELSE reserved[s]]
      /\ Record(tx[t].order, tx[t].written, "RESERVED", "RESERVE")
      /\ tx' = [tx EXCEPT ![t] = Idle] /\ UNCHANGED <<rows, active, historyVars>> /\ onHand' = onHand
  BY DEF ReserveCommit, End
<1>2. /\ onHand' = [s \in Skus |-> onHand'[s]] /\ reserved' = [s \in Skus |-> reserved'[s]]
      /\ \A s \in Skus \ tx[t].written : onHand'[s] = onHand[s] /\ reserved'[s] = reserved[s]
  BY <1>1 DEF TxInv, TxType
<1>3. "RESERVED" \in Inv!Statuses \ {"NONE"} /\ tx[t].written \in SUBSET Inv!SkusOf(tx[t].order)
  BY ReserveCommits DEF Inv!Statuses
<1> QED
  BY <1>1, <1>2, <1>3, ReserveCommits, CommitKeeps

\* A settlement that commits has updated the items of all the order's held
\* lines, if none of them was deleted; what a reservation of the order has
\* written so far are other lines.
LEMMA SettleCommits ==
  ASSUME TxInv, NEW t \in Txs, SettleCommit(t)
  PROVE  /\ t \in Running /\ tx[t].order \in Orders /\ tx[t].target \in Inv!Targets
         /\ tx[t].held # {} => tx[t].held = Inv!HeldSkus(tx[t].order)
         /\ tx[t].written \subseteq tx[t].held /\ tx[t].held \subseteq tx[t].written \cup orphaned
         /\ tx[t].written \subseteq rows /\ tx[t].held \subseteq Inv!SkusOf(tx[t].order)
         /\ \A s \in tx[t].written : Covered(t, s)
         /\ \A u \in Running \ {t} : tx[u].order = tx[t].order =>
              /\ tx[u].op = "reserve" => tx[u].written \cap tx[t].held = {}
              /\ tx[u].op = "settle" => tx[u].held = {}
<1>1. /\ t \in Running /\ tx[t].op = "settle" /\ tx[t].left = {}
      /\ SettleSound(t) /\ tx[t].order \in Orders /\ tx[t].target \in Inv!Targets
  BY Kinds DEF SettleCommit, TxInv, Sound, Settlements
<1>2. tx[t].written \subseteq rows
  BY <1>1 DEF TxInv, LocksHold
<1>3. \A s \in Inv!HeldSkus(tx[t].order) :
        s \in Inv!SkusOf(tx[t].order) /\ status[tx[t].order][s] # "NONE"
  BY <1>1 DEF TxInv, RowsSound, Inv!HeldSkus
<1>4. tx[t].held \subseteq Inv!HeldSkus(tx[t].order)
  BY <1>1 DEF SettleSound
<1>5. ASSUME NEW u \in Running \ {t}, tx[u].order = tx[t].order
      PROVE  /\ tx[u].op = "reserve" => tx[u].written \cap tx[t].held = {}
             /\ tx[u].op = "settle" => tx[u].held = {}
  BY <1>1, <1>3, <1>4, <1>5 DEF TxInv, LocksHold, Sound, ReserveSound, Inv!DuplicateRow
<1> QED
  BY <1>1, <1>2, <1>3, <1>4, <1>5 DEF SettleSound

\* So does a settlement.
LEMMA SettleCommitKeeps == ASSUME TxInv, NEW t \in Txs, SettleCommit(t) PROVE TxInv'
<1>1. /\ reserved' = Taken(reserved, t)
      /\ onHand' = IF tx[t].target = "CONFIRMED" THEN Taken(onHand, t) ELSE onHand
      /\ Record(tx[t].order, tx[t].held, tx[t].target, Inv!Movement(tx[t].target))
      /\ tx' = [tx EXCEPT ![t] = Idle] /\ UNCHANGED <<rows, active, historyVars>>
  BY DEF SettleCommit, End
<1>2. /\ onHand' = [s \in Skus |-> onHand'[s]] /\ reserved' = [s \in Skus |-> reserved'[s]]
      /\ \A s \in Skus \ tx[t].written : onHand'[s] = onHand[s] /\ reserved'[s] = reserved[s]
  BY <1>1 DEF TxInv, TxType, Taken
<1>3. tx[t].target \in Inv!Statuses \ {"NONE"} /\ tx[t].target # "RESERVED"
  BY SettleCommits DEF Inv!Statuses, Inv!Targets
<1> DEFINE movement == Inv!Movement(tx[t].target)
           S        == tx[t].held
           target   == tx[t].target
<1>4. Record(tx[t].order, S, target, movement)
  BY <1>1
<1>5. /\ t \in Running /\ S \in SUBSET Inv!SkusOf(tx[t].order)
      /\ \A u \in Running \ {t} : tx[u].order = tx[t].order =>
           /\ tx[u].op = "reserve" => tx[u].written \cap S = {}
           /\ tx[u].op = "settle" => tx[u].held = {}
  BY SettleCommits
<1>6. target \in Inv!Statuses \ {"NONE"} /\ (target = "RESERVED" => S \subseteq rows)
  BY <1>3
<1> HIDE DEF movement, S, target
<1>7. /\ tx' = [tx EXCEPT ![t] = Idle] /\ UNCHANGED <<rows, active, historyVars>>
  BY <1>1
<1> QED
  BY <1>2, <1>4, <1>5, <1>6, <1>7, CommitKeeps
\* A reservation row stands for units of its item.
LEMMA HeldHasUnits ==
  ASSUME TxInv, NEW o \in Orders, NEW s \in Skus, status[o][s] = "RESERVED"
  PROVE  Inv!HeldUnits(s) # {}
<1>1. Lines[o][s] > 0 /\ Lines[o][s] \in Nat
  BY InventoryTxAssumption DEF TxInv, RowsSound, Inv!SkusOf
<1>2. 1 \in 1..Lines[o][s]
  BY <1>1
<1>3. <<o, 1>> \in {o} \X (1..Lines[o][s])
  BY <1>2
<1> QED
  BY <1>3 DEF Inv!HeldUnits

\* An administrator's statement touches an item nobody has locked, and leaves
\* its mark when it deletes one that is held.
LEMMA AdministerTouches ==
  ASSUME TxInv, Administer
  PROVE  \E s \in Skus : \E n, m :
           /\ \A u \in Running : s \notin tx[u].locked
           /\ rows' \subseteq rows \cup {s} /\ rows \subseteq rows' \cup {s}
           /\ active' \subseteq active \cup {s} /\ active \subseteq active' \cup {s}
           /\ orphaned \subseteq orphaned' \cup {s}
           /\ onHand' = [onHand EXCEPT ![s] = n] /\ reserved' = [reserved EXCEPT ![s] = m]
           /\ UNCHANGED <<status, ledger, tx>>
           /\ \/ s \in rows' /\ orphaned' = orphaned
              \/ Inv!HeldUnits(s) # {} => s \in orphaned'
<1>1. PICK s \in Skus :
        /\ Holders(s) = {} /\ UNCHANGED tx
        /\ (\E n \in StockLevels : Inv!UpsertItem(s, n, TRUE)) \/ Inv!DeleteItem(s)
  BY DEF Administer
<1>2. \A u \in Running : s \notin tx[u].locked
  BY <1>1 DEF Holders
<1>3. CASE \E n \in StockLevels : Inv!UpsertItem(s, n, TRUE)
  <2>1. PICK n \in StockLevels : Inv!UpsertItem(s, n, TRUE)
    BY <1>3
  <2>2. reserved' = [reserved EXCEPT ![s] = reserved[s]]
    BY <2>1 DEF Inv!UpsertItem, TxInv, TxType
  <2>3. /\ rows' = rows \cup {s} /\ active' = active \cup {s} /\ onHand' = [onHand EXCEPT ![s] = n]
        /\ UNCHANGED <<status, ledger, orphaned>>
    BY <2>1 DEF Inv!UpsertItem, Inv!recordVars
  <2> QED
    BY <1>1, <1>2, <2>2, <2>3
<1>4. CASE Inv!DeleteItem(s)
  <2>1. /\ rows' = rows \ {s} /\ active' = active \ {s} /\ onHand' = [onHand EXCEPT ![s] = 0]
        /\ reserved' = [reserved EXCEPT ![s] = 0]
        /\ orphaned' = IF Inv!HeldUnits(s) # {} THEN orphaned \cup {s} ELSE orphaned \ {s}
        /\ UNCHANGED <<status, ledger>>
    BY <1>4 DEF Inv!DeleteItem, Inv!recordVars
  <2> QED
    BY <1>1, <1>2, <2>1
<1> QED
  BY <1>1, <1>3, <1>4

\* Administrators touch only items that nobody has locked.
LEMMA AdministerKeeps == ASSUME TxInv, Administer PROVE TxInv'
<1>0. PICK s \in Skus : \E n, m :
        /\ \A u \in Running : s \notin tx[u].locked
        /\ rows' \subseteq rows \cup {s} /\ rows \subseteq rows' \cup {s}
        /\ active' \subseteq active \cup {s} /\ active \subseteq active' \cup {s}
        /\ orphaned \subseteq orphaned' \cup {s}
        /\ onHand' = [onHand EXCEPT ![s] = n] /\ reserved' = [reserved EXCEPT ![s] = m]
        /\ UNCHANGED <<status, ledger, tx>>
        /\ \/ s \in rows' /\ orphaned' = orphaned
           \/ Inv!HeldUnits(s) # {} => s \in orphaned'
  BY AdministerTouches
<1>1. PICK n, m :
        /\ \A u \in Running : s \notin tx[u].locked
        /\ rows' \subseteq rows \cup {s} /\ rows \subseteq rows' \cup {s}
        /\ active' \subseteq active \cup {s} /\ active \subseteq active' \cup {s}
        /\ orphaned \subseteq orphaned' \cup {s}
        /\ onHand' = [onHand EXCEPT ![s] = n] /\ reserved' = [reserved EXCEPT ![s] = m]
        /\ UNCHANGED <<status, ledger, tx>>
        /\ \/ s \in rows' /\ orphaned' = orphaned
           \/ Inv!HeldUnits(s) # {} => s \in orphaned'
  BY <1>0
<1>2. TxType' /\ Running' = Running
  BY <1>1 DEF TxInv, TxType, Running
<1>3. LocksHold'
  BY <1>1, <1>2 DEF TxInv, LocksHold
<1>4. \A o \in Orders : status[o][s] = "RESERVED" => s \in rows' \cup orphaned'
  <2>1. SUFFICES ASSUME NEW o \in Orders, status[o][s] = "RESERVED" PROVE s \in rows' \cup orphaned'
    OBVIOUS
  <2>2. Inv!HeldUnits(s) # {}
    BY <2>1, HeldHasUnits
  <2> QED
    BY <1>1, <2>2
<1>5. RowsSound'
  BY <1>1, <1>4 DEF TxInv, RowsSound, Inv!SkusOf
<1>6. ASSUME NEW u \in Running PROVE Sound(u)'
  <2>1. /\ tx[u].locked \subseteq rows /\ tx[u].written \subseteq Skus /\ tx[u].locked \subseteq Skus
        /\ tx[u].order \in Orders
    BY Kinds DEF TxInv, LocksHold
  <2>2. \A r \in tx[u].locked : /\ r \in rows' /\ (r \in active' <=> r \in active)
                                 /\ onHand'[r] = onHand[r] /\ reserved'[r] = reserved[r]
    BY <1>1, <2>1 DEF TxInv, TxType
  <2>3. tx[u].op = "settle" => tx[u].held \cap orphaned \subseteq orphaned'
    <3>1. SUFFICES ASSUME tx[u].op = "settle", s \in tx[u].held, s \in orphaned, s \notin orphaned'
                   PROVE  FALSE
      BY <1>1
    <3>2. status[tx[u].order][s] = "RESERVED"
      BY <3>1 DEF TxInv, Sound, SettleSound, Inv!HeldSkus
    <3> QED
      BY <1>1, <2>1, <3>1, <3>2, HeldHasUnits
  <2>4. UNCHANGED <<tx[u], Inv!HeldSkus(tx[u].order), status[tx[u].order]>>
    BY <1>1 DEF Inv!HeldSkus
  <2> QED
    BY <2>2, <2>3, <2>4, SoundKept
<1> QED
  BY <1>2, <1>3, <1>5, <1>6 DEF TxInv

-----------------------------------------------------------------------------
(* The invariant, and the refinement of Inventory.                         *)

LEMMA TxStarts == Init => TxInv
<1> SUFFICES ASSUME Init PROVE TxInv
  OBVIOUS
<1>1. TxType
  BY DEF Init, Inv!Init, TxType, Inv!Statuses
<1>2. Running = {}
  BY DEF Init, Running
<1>3. RowsSound
  BY DEF Init, Inv!Init, RowsSound
<1> QED
  BY <1>1, <1>2, <1>3 DEF TxInv, LocksHold

\* What a step of the transactions is.
LEMMA TxSteps ==
  ASSUME Next
  PROVE  \/ \E t \in Txs, o \in Orders :
              BeginReserve(t, o) \/ \E target \in Inv!Targets : BeginSettle(t, o, target)
         \/ \E t \in Txs : ReserveLine(t) \/ RejectLine(t) \/ SettleLine(t)
         \/ \E t \in Txs : \E a : Rollback(t, a)
         \/ \E t \in Txs : ReserveCommit(t)
         \/ \E t \in Txs : SettleCommit(t)
         \/ Administer
<1>1. ASSUME NEW t \in Txs,
             ReserveThrows(t) \/ ReserveRollback(t) \/ SettleThrows(t) \/ DeadlockAbort(t)
      PROVE  \E a : Rollback(t, a)
  BY <1>1 DEF ReserveThrows, ReserveRollback, SettleThrows, DeadlockAbort
<1> QED
  BY <1>1 DEF Next, Continue

\* Every step keeps TxInv.
LEMMA TxStep == ASSUME TxInv, [Next]_vars PROVE TxInv'
<1>1. CASE Next
  BY <1>1, TxSteps, BeginKeeps, ReserveLineKeeps, SettleLineKeeps, RollbackKeeps,
     ReserveCommitKeeps, SettleCommitKeeps, AdministerKeeps
<1>2. CASE UNCHANGED vars
  <2>1. Running' = Running /\ UNCHANGED <<rows, onHand, reserved, active, status, ledger, orphaned, tx>>
    BY <1>2 DEF vars, dbVars, historyVars, Running
  <2>2. ASSUME NEW u \in Running PROVE Sound(u)'
    <3>1. tx[u].locked \subseteq rows /\ UNCHANGED Inv!HeldSkus(tx[u].order)
      BY <2>1 DEF TxInv, LocksHold, Inv!HeldSkus
    <3> QED
      BY <2>1, <3>1, SoundKept
  <2>3. TxType' /\ LocksHold' /\ RowsSound'
    BY <2>1 DEF TxInv, TxType, LocksHold, RowsSound, Inv!SkusOf
  <2> QED
    BY <2>1, <2>2, <2>3 DEF TxInv
<1> QED
  BY <1>1, <1>2

\* Locks are exclusive, and every running transaction's checks stay true until
\* it ends, whatever the others and the administrators do in between.
THEOREM TransactionsSound == Spec => []TxInv
BY TxStarts, TxStep, PTL DEF Spec
\* What a reservation commits is the whole of reserve.
LEMMA ReserveCommitIsStep == ASSUME TxInv, NEW t \in Txs, ReserveCommit(t) PROVE Inv!Next
<1> DEFINE o == tx[t].order
<1>1. /\ o \in Orders /\ tx[t].written = Inv!SkusOf(o)
      /\ \A s \in Inv!SkusOf(o) : Inv!CanReserve(o, s) /\ ~Inv!DuplicateRow(o, s)
  BY ReserveCommits
<1>2. Inv!ReserveLines(o, Inv!SkusOf(o))
  BY <1>1 DEF ReserveCommit, Record, Quantity, Inv!ReserveLines, historyVars, Inv!historyVars
<1>3. Inv!Answer(o, "reserved")
  BY DEF ReserveCommit, End, Inv!Answer
<1> QED
  BY <1>1, <1>2, <1>3 DEF Inv!Next, Inv!Reserve, Inv!ReserveAccepted

\* What a settlement commits is the whole of confirmReservation or
\* releaseReservation, or nothing, unless an item was deleted under it.
LEMMA SettleCommitIsStep ==
  ASSUME TxInv, NEW t \in Txs, SettleCommit(t), orphaned = {}
  PROVE  Inv!Next \/ UNCHANGED dbVars
<1> DEFINE o == tx[t].order
           target == tx[t].target
<1>1. /\ o \in Orders /\ target \in Inv!Targets /\ tx[t].written = tx[t].held
      /\ tx[t].held # {} => tx[t].held = Inv!HeldSkus(o)
      /\ tx[t].held \subseteq rows /\ \A s \in tx[t].held : Covered(t, s)
  <2>1. /\ o \in Orders /\ target \in Inv!Targets
        /\ tx[t].held # {} => tx[t].held = Inv!HeldSkus(o)
        /\ tx[t].written \subseteq tx[t].held /\ tx[t].held \subseteq tx[t].written \cup orphaned
        /\ tx[t].written \subseteq rows /\ \A s \in tx[t].written : Covered(t, s)
    BY SettleCommits
  <2>2. tx[t].written = tx[t].held
    BY <2>1
  <2> QED
    BY <2>1, <2>2
<1>2. /\ reserved' = Taken(reserved, t)
      /\ onHand' = IF target = "CONFIRMED" THEN Taken(onHand, t) ELSE onHand
      /\ Record(o, tx[t].held, target, Inv!Movement(target))
      /\ answer' = [answer EXCEPT ![o] = "settled"]
      /\ UNCHANGED <<rows, active, orphaned, lowered>>
  BY DEF SettleCommit, End, historyVars
<1>3. CASE tx[t].held = {}
  <2>1. /\ Taken(reserved, t) = [s \in Skus |-> reserved[s]]
        /\ Taken(onHand, t) = [s \in Skus |-> onHand[s]]
    BY <1>1, <1>3 DEF Taken
  <2>2. reserved' = reserved /\ onHand' = onHand
    BY <1>2, <2>1 DEF TxInv, TxType
  <2>3. /\ status' = [status EXCEPT ![o] = [s \in Skus |-> status[o][s]]]
        /\ ledger' = [ledger EXCEPT ![o] = [s \in Skus |-> ledger[o][s]]]
    BY <1>2, <1>3 DEF Record
  <2>4. status[o] = [s \in Skus |-> status[o][s]] /\ ledger[o] = [s \in Skus |-> ledger[o][s]]
    BY <1>1 DEF TxInv, TxType
  <2>5. status' = [status EXCEPT ![o] = status[o]] /\ ledger' = [ledger EXCEPT ![o] = ledger[o]]
    BY <2>3, <2>4
  <2>6. status' = status /\ ledger' = ledger
    BY <2>5 DEF TxInv, TxType
  <2> QED
    BY <1>2, <2>2, <2>6 DEF dbVars
<1>4. CASE tx[t].held # {}
  <2>1. /\ tx[t].held = Inv!HeldSkus(o) /\ tx[t].written = Inv!HeldSkus(o) \cap rows
        /\ Inv!HeldSkus(o) \subseteq rows
    BY <1>1, <1>4
  <2>2. Inv!KeepsChecks(o, target)
    BY <1>1, <2>1 DEF Inv!KeepsChecks, Covered, Quantity
  <2>3. \A f : Taken(f, t) = Inv!TakeHeld(f, o)
    BY <2>1 DEF Taken, Inv!TakeHeld, Quantity
  <2>4. Inv!SettleDone(o, target)
    BY <1>2, <2>1, <2>2, <2>3 DEF Inv!SettleDone, Record, Inv!Answer, Inv!historyVars
  <2>5. Inv!ConfirmReservation(o) \/ Inv!ReleaseReservation(o)
    BY <1>1, <2>4 DEF Inv!ConfirmReservation, Inv!ReleaseReservation, Inv!Targets
  <2> QED
    BY <1>1, <2>5 DEF Inv!Next
<1> QED
  BY <1>3, <1>4

\* An administrator's statement is a step of Inventory.
LEMMA AdministerIsStep == ASSUME Administer PROVE Inv!Next
<1>1. PICK s \in Skus :
        (\E n \in StockLevels : Inv!UpsertItem(s, n, TRUE)) \/ Inv!DeleteItem(s)
  BY DEF Administer
<1>2. TRUE \in BOOLEAN
  OBVIOUS
<1> QED
  BY <1>1, <1>2 DEF Inv!Next

\* Whatever the interleaving, the database changes by whole operations of the
\* repository, as if they ran one after the other, until an administrator
\* deletes an item that an order holds.
THEOREM CommitsWhole == Spec => CommitsAreSteps
<1>1. ASSUME TxInv, [Next]_vars PROVE [orphaned = {} => Inv!Next]_dbVars
  <2>1. CASE UNCHANGED vars
    BY <2>1 DEF vars, dbVars
  <2>2. CASE Next
    <3>1. CASE \/ \E t \in Txs, o \in Orders :
                    BeginReserve(t, o) \/ \E target \in Inv!Targets : BeginSettle(t, o, target)
               \/ \E t \in Txs : ReserveLine(t) \/ RejectLine(t) \/ SettleLine(t)
               \/ \E t \in Txs : \E a : Rollback(t, a)
      <4>1. UNCHANGED dbVars
        BY <3>1 DEF BeginReserve, BeginSettle, Begin, ReserveLine, RejectLine, SettleLine, Rollback
      <4> QED
        BY <4>1 DEF dbVars
    <3>2. CASE \E t \in Txs : ReserveCommit(t)
      BY <1>1, <3>2, ReserveCommitIsStep
    <3>3. CASE \E t \in Txs : SettleCommit(t)
      BY <1>1, <3>3, SettleCommitIsStep
    <3>4. CASE Administer
      BY <3>4, AdministerIsStep
    <3> QED
      BY <2>2, <3>1, <3>2, <3>3, <3>4, TxSteps
  <2> QED
    BY <1>1, <2>1, <2>2
<1> QED
  BY <1>1, TransactionsSound, PTL DEF Spec, CommitsAreSteps
-----------------------------------------------------------------------------
(* Circles of waiting.                                                     *)

\* Ahead is the transitive closure of WaitsFor: it holds whoever t waits for,
\* it is closed, and it is the smallest set that is.
LEMMA AheadClosed ==
  ASSUME NEW t \in Txs
  PROVE  /\ Ahead(t) \subseteq Txs /\ WaitsFor(t) \subseteq Ahead(t)
         /\ \A u \in Ahead(t) : WaitsFor(u) \subseteq Ahead(t)
         /\ \A S \in SUBSET Txs :
              (\A v \in S \cup {t} : WaitsFor(v) \subseteq S) => Ahead(t) \subseteq S
<1>1. \A v \in Txs : WaitsFor(v) \subseteq Txs
  BY DEF WaitsFor, Holders, Running
<1>2. ASSUME NEW S \in SUBSET Txs, \A v \in S \cup {t} : WaitsFor(v) \subseteq S
      PROVE  Ahead(t) \subseteq S
  BY <1>2 DEF Ahead
<1>3. WaitsFor(t) \subseteq Ahead(t)
  BY <1>1 DEF Ahead
<1>4. ASSUME NEW u \in Ahead(t), NEW w \in WaitsFor(u) PROVE w \in Ahead(t)
  <2>1. u \in Txs /\ w \in Txs
    BY <1>1, <1>4 DEF Ahead
  <2>2. ASSUME NEW S \in SUBSET Txs, \A v \in S \cup {t} : WaitsFor(v) \subseteq S PROVE w \in S
    <3>1. u \in S
      BY <1>2, <2>2
    <3> QED
      BY <1>4, <2>2, <3>1
  <2> QED
    BY <2>1, <2>2 DEF Ahead
<1> QED
  BY <1>2, <1>3, <1>4 DEF Ahead

\* Who is ahead of one that is ahead is ahead.
LEMMA AheadTransitive ==
  ASSUME NEW t \in Txs, NEW u \in Ahead(t)
  PROVE  Ahead(u) \subseteq Ahead(t)
<1>1. u \in Txs /\ Ahead(t) \in SUBSET Txs /\ \A v \in Ahead(t) \cup {u} : WaitsFor(v) \subseteq Ahead(t)
  BY AheadClosed
<1> QED
  BY <1>1, AheadClosed

\* In a circle of waiting, everybody waits for another one in it.
LEMMA CircleGoesOn ==
  ASSUME NEW t \in Txs, NEW u \in Txs, t \in Ahead(u), t \in Ahead(t)
  PROVE  \E v \in WaitsFor(u) : t \in Ahead(v)
<1> SUFFICES ASSUME \A v \in WaitsFor(u) : t \notin Ahead(v) PROVE FALSE
  OBVIOUS
<1> DEFINE S == {v \in Txs : t \notin Ahead(v)}
<1>1. WaitsFor(u) \subseteq S
  BY DEF WaitsFor, Holders, Running
<1>2. ASSUME NEW v \in S, NEW w \in WaitsFor(v) PROVE w \in S
  <2>1. w \in Ahead(v) /\ w \in Txs
    BY <1>2, AheadClosed
  <2> QED
    BY <1>2, <2>1, AheadTransitive
<1>3. Ahead(u) \subseteq S
  <2>1. S \in SUBSET Txs /\ \A v \in S \cup {u} : WaitsFor(v) \subseteq S
    BY <1>1, <1>2
  <2> HIDE DEF S
  <2> QED
    BY <2>1, AheadClosed
<1> QED
  BY <1>3

\* A settlement that waits for another one in waiting stands at a smaller key.
LEMMA SettlementsWaitInOrder ==
  ASSUME TxInv, NEW u \in Txs, NEW v \in WaitsFor(u), WaitsFor(v) # {},
         tx[u].op = "settle", tx[v].op = "settle"
  PROVE  /\ NextPlace(u) \in 1..Len(ByKey) /\ NextPlace(v) \in 1..Len(ByKey)
         /\ NextPlace(u) < NextPlace(v)
<1>1. /\ u \in Running /\ tx[u].left # {} /\ v \in Running /\ tx[v].left # {}
      /\ NextItem(u) \in tx[v].locked
  BY DEF WaitsFor, Holders
<1>2. /\ Path(tx[u]) = ByKey /\ Path(tx[v]) = ByKey /\ ByKey \in Seq(Skus)
      /\ DOMAIN ByKey = 1..Len(ByKey)
  BY InventoryTxAssumption DEF Path
<1>3. /\ NextItem(u) \in tx[u].left /\ NextPlace(u) \in DOMAIN ByKey /\ NextPlace(u) \in Nat
      /\ \A i \in DOMAIN ByKey : ByKey[i] \in tx[u].left => NextPlace(u) <= i
  BY <1>1, <1>2, NextIsLeft
<1>4. /\ NextItem(v) \in tx[v].left /\ NextPlace(v) \in DOMAIN ByKey /\ NextPlace(v) \in Nat
      /\ ByKey[NextPlace(v)] = NextItem(v)
  BY <1>1, <1>2, NextIsLeft DEF NextItem
<1>5. Precedes(NextItem(u), NextItem(v))
  BY <1>1, <1>4 DEF TxInv, Sound, LocksInOrder
<1>6. PICK i \in DOMAIN ByKey : ByKey[i] = NextItem(u) /\ i < NextPlace(v)
  BY <1>4, <1>5 DEF Precedes
<1>7. NextPlace(u) <= i /\ i \in Nat
  BY <1>2, <1>3, <1>6
<1> QED
  BY <1>2, <1>3, <1>4, <1>6, <1>7

\* Settlements alone never wait in a circle: every deadlock that Postgres has
\* to break has a reservation in it.
LEMMA CircleHasReserve == TxInv => DeadlockNeedsReserve
<1> SUFFICES ASSUME TxInv, NEW t \in Txs, Deadlocked(t),
                    \A u \in Ahead(t) : u \in Ahead(u) => tx[u].op # "reserve"
             PROVE  FALSE
  BY DEF DeadlockNeedsReserve
<1> DEFINE C == {u \in Ahead(t) : t \in Ahead(u)}
<1>1. t \in C /\ C \subseteq Txs
  BY AheadClosed DEF Deadlocked
<1>2. ASSUME NEW u \in C PROVE \E v \in WaitsFor(u) : v \in C
  <2>1. PICK v \in WaitsFor(u) : t \in Ahead(v)
    BY <1>1, <1>2, CircleGoesOn
  <2>2. v \in Ahead(u) /\ Ahead(u) \subseteq Ahead(t)
    BY <1>1, <1>2, <2>1, AheadClosed, AheadTransitive
  <2> QED
    BY <2>1, <2>2
<1>3. ASSUME NEW u \in C PROVE u \in Running /\ tx[u].op = "settle"
  <2>1. u \in Running
    BY <1>2 DEF WaitsFor
  <2>2. u \in Ahead(u)
    BY <1>1, <1>3, AheadTransitive
  <2> QED
    BY <1>3, <2>1, <2>2, Kinds DEF TxInv
<1>4. ASSUME NEW u \in C
      PROVE  /\ NextPlace(u) \in 1..Len(ByKey)
             /\ \E v \in C : NextPlace(v) \in 1..Len(ByKey) /\ NextPlace(u) < NextPlace(v)
  <2>1. PICK v \in WaitsFor(u) : v \in C
    BY <1>2
  <2>2. WaitsFor(v) # {}
    BY <1>2, <2>1
  <2>3. tx[u].op = "settle" /\ tx[v].op = "settle" /\ u \in Txs
    BY <1>1, <1>3, <2>1
  <2> QED
    BY <2>1, <2>2, <2>3, SettlementsWaitInOrder
<1> DEFINE places == {Len(ByKey) - NextPlace(u) : u \in C}
<1>5. Len(ByKey) \in Nat
  BY InventoryTxAssumption
<1>6. places \in SUBSET Nat /\ places # {}
  BY <1>1, <1>4, <1>5
<1>7. PICK m \in places : \A n \in places : m <= n
  BY <1>6, Smallest
<1>8. PICK u \in C : m = Len(ByKey) - NextPlace(u)
  BY <1>7
<1>9. PICK v \in C : NextPlace(v) \in 1..Len(ByKey) /\ NextPlace(u) < NextPlace(v)
  BY <1>4
<1>10. m <= Len(ByKey) - NextPlace(v)
  BY <1>7, <1>9
<1> QED
  BY <1>4, <1>5, <1>8, <1>9, <1>10

\* A circle of waiting holds a reservation, whatever orders, requests and number
\* of connections there are.
THEOREM CirclesNeedReserve == Spec => []DeadlockNeedsReserve
BY TransactionsSound, CircleHasReserve, PTL

=============================================================================
