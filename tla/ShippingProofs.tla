--------------------------- MODULE ShippingProofs ---------------------------
(***************************************************************************)
(* Proofs about where an order goes, and what became of it.                *)
(*                                                                         *)
(* AddressBook, for every finite set of addresses and any number of        *)
(* requests served at the same time.                                       *)
(*                                                                         *)
(* Shipping, for any number of orders, deliveries, updates and faults: the *)
(* history of a shipment accounts for its status, and its events are       *)
(* listed in the order in which they were written as long as no request    *)
(* read the row while another was to write it.                             *)
(***************************************************************************)
EXTENDS AddressBook, Shipping, FiniteSetTheorems, SequenceTheorems, TLAPS

\* An ordering of a finite set is a sequence of its elements, each once.
LEMMA Ordering ==
  ASSUME NEW S, IsFiniteSet(S), NEW q \in SetToSeqs(S)
  PROVE  /\ q \in Seq(S)
         /\ ToSet(q) = S
         /\ \A i, j \in 1..Len(q) : q[i] = q[j] => i = j
<1> DEFINE D == 1..Cardinality(S)
<1>1. Cardinality(S) \in Nat
  BY FS_CardinalityType
<1>2. q \in [D -> S] /\ \A i, j \in D : i # j => q[i] # q[j]
  BY DEF SetToSeqs
<1>3. q \in Seq(S) /\ Len(q) = Cardinality(S) /\ DOMAIN q = D
  BY <1>1, <1>2
<1>4. q \in Injection(D, S)
  BY <1>2 DEF Injection, IsInjective
<1>5. IsFiniteSet(D) /\ Cardinality(D) = Cardinality(S)
  <2>1. /\ IsFiniteSet(D)
        /\ Cardinality(D) = IF 1 > Cardinality(S) THEN 0 ELSE Cardinality(S) - 1 + 1
    BY <1>1, FS_Interval
  <2> QED BY <1>1, <2>1
<1>6. q \in Surjection(D, S)
  BY <1>4, <1>5, FS_Injection
<1>7. ToSet(q) = S
  BY <1>2, <1>3, <1>6 DEF ToSet, Surjection
<1> QED BY <1>2, <1>3, <1>7

\* A visit to the next row takes it, and nothing else, off what is to do.
LEMMA Visit ==
  ASSUME NEW S, NEW q \in Seq(S), q # <<>>
  PROVE  /\ Tail(q) \in Seq(S) /\ Head(q) \in S
         /\ ToSet(q) = ToSet(Tail(q)) \cup {Head(q)}
         /\ Len(Tail(q)) = Len(q) - 1
<1>1. Len(q) \in Nat /\ Len(q) # 0
  BY EmptySeq
<1>2. /\ Tail(q) \in Seq(S) /\ Len(Tail(q)) = Len(q) - 1
      /\ \A i \in 1..Len(Tail(q)) : Tail(q)[i] = q[i + 1]
  BY HeadTailProperties
<1>3. Head(q) = q[1] /\ Head(q) \in S
  BY HeadTailProperties
<1>4. DOMAIN q = 1..Len(q) /\ DOMAIN Tail(q) = 1..Len(Tail(q))
  BY <1>2
<1>5. ASSUME NEW x \in ToSet(q)  PROVE x \in ToSet(Tail(q)) \cup {Head(q)}
  <2>1. PICK i \in 1..Len(q) : x = q[i]
    BY <1>4, <1>5 DEF ToSet
  <2>2. CASE i = 1
    BY <1>3, <2>1, <2>2
  <2>3. CASE i # 1
    <3>1. i - 1 \in 1..Len(Tail(q)) /\ Tail(q)[i - 1] = q[i]
      BY <1>1, <1>2, <2>1, <2>3
    <3> QED BY <1>4, <2>1, <3>1 DEF ToSet
  <2> QED BY <2>2, <2>3
<1>6. ToSet(Tail(q)) \cup {Head(q)} \subseteq ToSet(q)
  <2>1. \A i \in 1..Len(Tail(q)) : i + 1 \in 1..Len(q) /\ Tail(q)[i] = q[i + 1]
    BY <1>1, <1>2
  <2>2. 1 \in 1..Len(q)
    BY <1>1
  <2> QED BY <1>3, <1>4, <2>1, <2>2 DEF ToSet
<1> QED BY <1>2, <1>3, <1>5, <1>6

-----------------------------------------------------------------------------
(* The invariant.                                                          *)

\* What holds of a call c in progress, when U are the ids given out and S the
\* addresses saved: rows are visited and locked only to take a mark, never the
\* call's own, and the row of a create is not there yet.
Sound(c, U, S) ==
  /\ c.at = "read" => c.op = "update" /\ c.todo = <<>> /\ c.locked = {}
  /\ c.at = "written" => c.todo = <<>>
  /\ c.at = "open" => c.id \notin c.locked \cup ToSet(c.todo)
  /\ ~c.mark => c.todo = <<>> /\ (c.locked = {} \/ (c.op = "update" /\ c.at = "written"))
  /\ c.op = "create" => c.id \in U \ S

CallsSound == \A s \in Sessions : call[s] # NoCall => Sound(call[s], used, saved)

OwnIds ==
  \A s, t \in Sessions :
    s # t /\ call[s].op = "create" /\ call[t].op = "create" => call[s].id # call[t].id

\* With one default, a transaction visits one row: it locks that row before it
\* waits for its own, and nothing before that.
Single(c) == Len(c.todo) <= 1 /\ (c.todo # <<>> => c.locked = {})

OneRowEach ==
  ~doubled => /\ \A a, b \in default : a = b
              /\ \A s \in Sessions : call[s] # NoCall => Single(call[s])

\* As long as no two of them overlap, the transaction that sets a default has
\* in its hands every row that could be a second one.
NoOtherMark(c) == default \subseteq ToSet(c.todo) \cup c.locked \cup {c.id}

AloneClearsAll ==
  ~overlapped => /\ ~doubled
                 /\ \A s, t \in Marking : s = t
                 /\ \A s \in Marking : NoOtherMark(call[s])

BookInv == TypeOK /\ CallsSound /\ OwnIds /\ OneRowEach /\ AloneClearsAll

-----------------------------------------------------------------------------
(* How the actions change a call.                                          *)

LEMMA CallKinds ==
  ASSUME TypeOK, NEW s \in Sessions
  PROVE  /\ call[s] = NoCall \/ call[s] \in Calls
         /\ call[s] \in Calls => call[s] # NoCall
         /\ NoCall.op = "none"
BY DEF TypeOK, Calls, NoCall

\* A record of a call is none that is missing.
LEMMA ACall == \A c \in Calls : c # NoCall
<1> SUFFICES ASSUME NEW c \in Calls PROVE c # NoCall
  OBVIOUS
<1>1. c.op = "create" \/ c.op = "update"
  BY DEF Calls
<1> QED BY <1>1 DEF NoCall

\* Nothing to visit.
LEMMA EmptyRow == ToSet(<<>>) = {} /\ Len(<<>>) = 0
BY DEF ToSet

\* Defaults are finitely many.
LEMMA DefaultFinite == ASSUME TypeOK, NEW S \in SUBSET default PROVE IsFiniteSet(S)
BY AddressBookAssumption, FS_Subset DEF TypeOK

\* A transaction opens with nothing locked, and with the other defaults to
\* visit when it sets one.
LEMMA Opening ==
  ASSUME TypeOK, NEW s \in Sessions, NEW c \in Calls, c.locked = {}, Open(s, c)
  PROVE  \E d \in Calls :
           /\ call' = [call EXCEPT ![s] = d]
           /\ d.op = c.op /\ d.id = c.id /\ d.mark = c.mark
           /\ d.at = "open" /\ d.locked = {}
           /\ ToSet(d.todo) = IF c.mark THEN default \ {c.id} ELSE {}
           /\ ToSet(d.todo) = {} => d.todo = <<>>
           /\ (\A a, b \in default : a = b) => Len(d.todo) <= 1
<1> DEFINE S == IF c.mark THEN default \ {c.id} ELSE {}
<1>1. PICK rows \in SetToSeqs(S) :
        call' = [call EXCEPT ![s] = [c EXCEPT !.at = "open", !.todo = rows]]
  BY DEF Open
<1>2. IsFiniteSet(S) /\ S \subseteq Addresses
  BY DefaultFinite DEF TypeOK
<1>3. /\ rows \in Seq(S) /\ ToSet(rows) = S
      /\ \A i, j \in 1..Len(rows) : rows[i] = rows[j] => i = j
  BY <1>2, Ordering
<1>4. rows \in Seq(Addresses)
  BY <1>2, <1>3
<1> DEFINE d == [c EXCEPT !.at = "open", !.todo = rows]
<1>5. /\ d \in Calls /\ d.op = c.op /\ d.id = c.id /\ d.mark = c.mark
      /\ d.at = "open" /\ d.locked = {} /\ d.todo = rows
  BY <1>4 DEF Calls
<1>6. S = {} => rows = <<>>
  BY <1>3, EmptySeq
<1>7. (\A a, b \in default : a = b) => Len(rows) <= 1
  <2> SUFFICES ASSUME \A a, b \in default : a = b, ~(Len(rows) <= 1)  PROVE FALSE
    OBVIOUS
  <2>1. Len(rows) \in Nat
    BY <1>3
  <2>2. 1 \in 1..Len(rows) /\ 2 \in 1..Len(rows)
    BY <2>1
  <2>3. rows[1] \in default /\ rows[2] \in default
    BY <1>3, <2>2
  <2> QED BY <1>3, <2>2, <2>3
<1> QED BY <1>1, <1>3, <1>5, <1>6, <1>7

\* A visit moves a row from those to do to those locked, if it is still there.
LEMMA Clearing ==
  ASSUME TypeOK, CallsSound, NEW s \in Sessions, Clear(s)
  PROVE  \E d \in Calls, x \in Addresses :
           /\ call[s] \in Calls /\ call[s].at = "open" /\ call[s].todo # <<>>
           /\ call' = [call EXCEPT ![s] = d]
           /\ d.op = call[s].op /\ d.id = call[s].id /\ d.mark = call[s].mark
           /\ d.at = "open"
           /\ ToSet(call[s].todo) = ToSet(d.todo) \cup {x}
           /\ Len(call[s].todo) <= 1 => d.todo = <<>>
           /\ d.todo # <<>> => Len(d.todo) <= Len(call[s].todo)
           /\ d.locked = call[s].locked \cup ({x} \cap saved)
           /\ \A t \in Sessions : t # s => x \notin Holds(t)
<1> DEFINE c == call[s]
           x == Head(c.todo)
           d == [c EXCEPT !.todo = Tail(@), !.locked = @ \cup ({x} \cap saved)]
<1>1. c \in Calls /\ c # NoCall /\ c.todo # <<>> /\ c.at = "open"
  <2>1. c \in Calls /\ c # NoCall /\ c.todo # <<>> /\ c.at # "read"
    BY CallKinds DEF Clear, InTransaction
  <2>2. c.at # "written"
    BY <2>1 DEF CallsSound, Sound
  <2> QED BY <2>1, <2>2 DEF Calls
<1>2. Wanted(s) = {x}
  BY <1>1 DEF Wanted, Clear
<1>3. call' = [call EXCEPT ![s] = d]
  BY <1>2 DEF Clear
<1>4. \A t \in Sessions : t # s => x \notin Holds(t)
  BY <1>2 DEF Clear, Free, Waits
<1>5. c.todo \in Seq(Addresses)
  BY <1>1 DEF Calls
<1>6. /\ Tail(c.todo) \in Seq(Addresses) /\ x \in Addresses
      /\ ToSet(c.todo) = ToSet(Tail(c.todo)) \cup {x}
      /\ Len(Tail(c.todo)) = Len(c.todo) - 1
      /\ Len(c.todo) \in Nat /\ Len(c.todo) # 0
  BY <1>1, <1>5, Visit, EmptySeq
<1>7. Len(c.todo) <= 1 => Tail(c.todo) = <<>>
  BY <1>6, EmptySeq
<1>8. /\ d \in Calls /\ d.op = c.op /\ d.id = c.id /\ d.mark = c.mark /\ d.at = "open"
      /\ d.todo = Tail(c.todo) /\ d.locked = c.locked \cup ({x} \cap saved)
  BY <1>1, <1>6 DEF Calls
<1>9. d.todo # <<>> => Len(d.todo) <= Len(c.todo)
  BY <1>6, <1>8
<1> HIDE DEF d, x
<1> QED BY <1>1, <1>3, <1>4, <1>6, <1>7, <1>8, <1>9

\* The write of the row: an update locks it, if it is still there.
LEMMA Writing ==
  ASSUME TypeOK, CallsSound, NEW s \in Sessions, Insert(s) \/ Overwrite(s)
  PROVE  \E d \in Calls :
           /\ call[s] \in Calls /\ call[s].at = "open" /\ call[s].todo = <<>>
           /\ call' = [call EXCEPT ![s] = d]
           /\ d.op = call[s].op /\ d.id = call[s].id /\ d.mark = call[s].mark
           /\ d.at = "written" /\ d.todo = <<>>
           /\ d.locked = call[s].locked
                \cup (IF d.op = "update" THEN {d.id} \cap saved ELSE {})
           /\ d.op = "update" => \A t \in Sessions : t # s => d.id \notin Holds(t)
<1> DEFINE c == call[s]
<1>1. /\ c \in Calls /\ c.at = "open" /\ c.todo = <<>> /\ s \in InTransaction
      /\ c.op = "create" \/ c.op = "update"
  BY CallKinds DEF Insert, Overwrite, AtWrite, InTransaction, Calls
<1>2. CASE Insert(s)
  <2> DEFINE d == [c EXCEPT !.at = "written"]
  <2>1. c.op = "create" /\ call' = [call EXCEPT ![s] = d]
    BY <1>2 DEF Insert, AtWrite
  <2>2. /\ d \in Calls /\ d.op = c.op /\ d.id = c.id /\ d.mark = c.mark
        /\ d.at = "written" /\ d.todo = <<>> /\ d.locked = c.locked
    BY <1>1 DEF Calls
  <2> QED BY <1>1, <2>1, <2>2
<1>3. CASE Overwrite(s)
  <2> DEFINE d == [c EXCEPT !.at = "written", !.locked = @ \cup ({c.id} \cap saved)]
  <2>1. c.op = "update" /\ Wanted(s) = {c.id}
    BY <1>1, <1>3 DEF Overwrite, AtWrite, Wanted
  <2>2. call' = [call EXCEPT ![s] = d] /\ \A t \in Sessions : t # s => c.id \notin Holds(t)
    BY <1>3, <2>1 DEF Overwrite, Free, Waits
  <2>3. /\ d \in Calls /\ d.op = c.op /\ d.id = c.id /\ d.mark = c.mark
        /\ d.at = "written" /\ d.todo = <<>> /\ d.locked = c.locked \cup ({c.id} \cap saved)
    BY <1>1 DEF Calls
  <2> QED BY <1>1, <2>1, <2>2, <2>3
<1> QED BY <1>2, <1>3
-----------------------------------------------------------------------------
(* The invariant is inductive: one lemma per kind of step.                 *)

\* At the start no call is made.
LEMMA InitBook == Init => BookInv
<1> SUFFICES ASSUME Init PROVE BookInv
  OBVIOUS
<1>1. \A s \in Sessions : call[s] = NoCall
  BY DEF Init
<1>2. InTransaction = {} /\ \A s \in Sessions : Holds(s) = {}
  BY <1>1 DEF InTransaction, Holds
<1>3. TypeOK
  BY <1>1, <1>2 DEF Init, TypeOK
<1>4. \A s \in Sessions : call[s].op # "create"
  BY <1>1 DEF NoCall
<1> QED BY <1>1, <1>2, <1>3, <1>4 DEF Init, BookInv, CallsSound, OwnIds, OneRowEach, AloneClearsAll, Marking

\* What a step that gives session s the call d changes for the others: nothing.
LEMMA Others ==
  ASSUME TypeOK, NEW s \in Sessions, NEW d, call' = [call EXCEPT ![s] = d]
  PROVE  /\ call'[s] = d
         /\ \A t \in Sessions : t # s => call'[t] = call[t]
         /\ \A t \in Sessions : t # s => Holds(t)' = Holds(t)
         /\ InTransaction' \ {s} = InTransaction \ {s}
         /\ Marking' \ {s} = Marking \ {s}
         /\ d # NoCall /\ d.at # "read" => Holds(s)' = d.locked
         /\ d = NoCall \/ d.at = "read" => s \notin InTransaction' /\ Holds(s)' = {}
<1>1. call'[s] = d /\ \A t \in Sessions : t # s => call'[t] = call[t]
  BY DEF TypeOK
<1>2. \A t \in Sessions : t # s => (t \in InTransaction' <=> t \in InTransaction)
  BY <1>1 DEF InTransaction
<1>3. \A t \in Sessions : t # s => (t \in Marking' <=> t \in Marking)
  BY <1>1, <1>2 DEF Marking
<1>4. \A t \in Sessions : t # s => Holds(t)' = Holds(t)
  BY <1>1, <1>2 DEF Holds
<1>5. s \in InTransaction' <=> d # NoCall /\ d.at # "read"
  BY <1>1 DEF InTransaction
<1>6. InTransaction' \subseteq Sessions /\ InTransaction \subseteq Sessions
  BY DEF InTransaction
<1>7. Marking' \subseteq Sessions /\ Marking \subseteq Sessions
  BY <1>6 DEF Marking
<1> QED BY <1>1, <1>2, <1>3, <1>4, <1>5, <1>6, <1>7 DEF Holds
\* A step of a call that commits nothing keeps the invariant if the call it
\* leads to fits in.
LEMMA Progress ==
  ASSUME BookInv, NEW s \in Sessions, NEW d \in Calls \cup {NoCall},
         call' = [call EXCEPT ![s] = d],
         saved' = saved, default' = default, doubled' = doubled,
         used \subseteq used', used' \subseteq Addresses, overlapped' \in BOOLEAN,
         d # NoCall => Sound(d, used', saved) /\ (~doubled => Single(d)),
         d # NoCall /\ d.at # "read" =>
           \A t \in Sessions : t # s => d.locked \cap Holds(t) = {},
         d.op = "create" =>
           \A t \in Sessions : t # s /\ call[t].op = "create" => call[t].id # d.id,
         ~overlapped' =>
           /\ ~overlapped
           /\ d # NoCall /\ d.at # "read" /\ d.mark => Marking \ {s} = {} /\ NoOtherMark(d)
  PROVE  BookInv'
<1> USE DEF BookInv
<1>1. /\ call'[s] = d
      /\ \A t \in Sessions : t # s => call'[t] = call[t]
      /\ \A t \in Sessions : t # s => Holds(t)' = Holds(t)
      /\ Marking' \ {s} = Marking \ {s}
      /\ d # NoCall /\ d.at # "read" => Holds(s)' = d.locked
      /\ d = NoCall \/ d.at = "read" => s \notin InTransaction' /\ Holds(s)' = {}
  BY Others
<1>2. TypeOK'
  <2>1. call' \in [Sessions -> Calls \cup {NoCall}]
    BY DEF TypeOK
  <2>2. \A t \in Sessions : t # s => Holds(s)' \cap Holds(t)' = {}
    BY <1>1
  <2>3. \A t, u \in Sessions : t # u => Holds(t)' \cap Holds(u)' = {}
    <3> SUFFICES ASSUME NEW t \in Sessions, NEW u \in Sessions, t # u
                 PROVE  Holds(t)' \cap Holds(u)' = {}
      OBVIOUS
    <3>1. CASE t = s
      BY <2>2, <3>1
    <3>2. CASE u = s
      BY <2>2, <3>2
    <3>3. CASE t # s /\ u # s
      BY <1>1, <3>3 DEF TypeOK
    <3> QED BY <3>1, <3>2, <3>3
  <2> QED BY <2>1, <2>3 DEF TypeOK
<1>3. CallsSound'
  <2> SUFFICES ASSUME NEW t \in Sessions, call'[t] # NoCall
               PROVE  Sound(call'[t], used', saved')
    BY DEF CallsSound
  <2>1. CASE t = s
    BY <1>1, <2>1
  <2>2. CASE t # s
    <3>1. Sound(call[t], used, saved)
      BY <1>1, <2>2 DEF CallsSound
    <3> QED BY <1>1, <2>2, <3>1 DEF Sound
  <2> QED BY <2>1, <2>2
<1>4. OwnIds'
  <2> SUFFICES ASSUME NEW t \in Sessions, NEW u \in Sessions, t # u,
                      call'[t].op = "create", call'[u].op = "create"
               PROVE  call'[t].id # call'[u].id
    BY DEF OwnIds
  <2>1. CASE t = s
    BY <1>1, <2>1
  <2>2. CASE u = s
    BY <1>1, <2>2
  <2>3. CASE t # s /\ u # s
    BY <1>1, <2>3 DEF OwnIds
  <2> QED BY <2>1, <2>2, <2>3
<1>5. OneRowEach'
  <2> SUFFICES ASSUME ~doubled, NEW t \in Sessions, call'[t] # NoCall
               PROVE  Single(call'[t])
    BY DEF OneRowEach
  <2>1. CASE t = s
    BY <1>1, <2>1
  <2>2. CASE t # s
    BY <1>1, <2>2 DEF OneRowEach
  <2> QED BY <2>1, <2>2
<1>6. AloneClearsAll'
  <2> SUFFICES ASSUME ~overlapped'
               PROVE  /\ ~doubled'
                      /\ \A t, u \in Marking' : t = u
                      /\ \A t \in Marking' : NoOtherMark(call[t])'
    BY DEF AloneClearsAll
  <2>1. /\ ~doubled
        /\ \A t, u \in Marking : t = u
        /\ \A t \in Marking : NoOtherMark(call[t])
    BY DEF AloneClearsAll
  <2>2. Marking \subseteq Sessions /\ Marking' \subseteq Sessions
    BY DEF Marking, InTransaction
  <2>3. CASE s \in Marking'
    <3>1. d # NoCall /\ d.at # "read" /\ d.mark
      BY <1>1, <2>3 DEF Marking, InTransaction
    <3>2. Marking' = {s} /\ NoOtherMark(d)
      BY <1>1, <2>2, <2>3, <3>1
    <3>3. NoOtherMark(call[s])'
      BY <1>1, <3>2 DEF NoOtherMark
    <3> QED BY <2>1, <3>2, <3>3
  <2>4. CASE s \notin Marking'
    <3>1. Marking' \subseteq Marking \ {s}
      BY <1>1, <2>4
    <3>2. \A t \in Marking' : NoOtherMark(call[t])'
      BY <1>1, <2>1, <2>2, <3>1 DEF NoOtherMark
    <3> QED BY <2>1, <3>1, <3>2
  <2> QED BY <2>3, <2>4
<1> QED BY <1>2, <1>3, <1>4, <1>5, <1>6
\* Opening a transaction for a call whose row is not yet there (create) or was
\* read before (update).
LEMMA OpenStep ==
  ASSUME BookInv, NEW s \in Sessions, NEW c \in Calls, c.locked = {}, Open(s, c),
         call[s] = NoCall \/ call[s].at = "read",
         UNCHANGED bookVars, UNCHANGED doubled,
         used \subseteq used', used' \subseteq Addresses,
         c.op = "create" => c.id \in used' \ used
  PROVE  BookInv'
<1> USE DEF BookInv
<1>1. PICK d \in Calls :
        /\ call' = [call EXCEPT ![s] = d]
        /\ d.op = c.op /\ d.id = c.id /\ d.mark = c.mark
        /\ d.at = "open" /\ d.locked = {}
        /\ ToSet(d.todo) = IF c.mark THEN default \ {c.id} ELSE {}
        /\ ToSet(d.todo) = {} => d.todo = <<>>
        /\ (\A a, b \in default : a = b) => Len(d.todo) <= 1
  BY Opening
<1>2. saved' = saved /\ default' = default /\ doubled' = doubled
  BY DEF bookVars
<1>3. d # NoCall /\ d \in Calls \cup {NoCall}
  BY ACall
<1>4. overlapped' = (overlapped \/ (c.mark /\ Marking # {})) /\ overlapped' \in BOOLEAN
  <2>1. overlapped \in BOOLEAN /\ c.mark \in BOOLEAN
    BY DEF TypeOK, Calls
  <2> QED BY <2>1 DEF Open
<1>5. Sound(d, used', saved)
  <2>1. d.op = "create" => d.id \in used' \ saved
    BY <1>1 DEF TypeOK
  <2> QED BY <1>1, <2>1 DEF Sound
<1>6. ~doubled => Single(d)
  BY <1>1 DEF OneRowEach, Single
<1>7. ASSUME d.op = "create", NEW t \in Sessions, t # s, call[t].op = "create"
      PROVE  call[t].id # d.id
  <2>1. call[t] # NoCall
    BY <1>7, CallKinds
  <2>2. call[t].id \in used
    BY <1>7, <2>1 DEF CallsSound, Sound
  <2> QED BY <1>1, <1>7, <2>2
<1>8. ASSUME ~overlapped'
      PROVE  /\ ~overlapped
             /\ d.mark => Marking \ {s} = {} /\ NoOtherMark(d)
  <2>1. ~overlapped /\ (c.mark => Marking = {})
    BY <1>4, <1>8
  <2>2. d.mark => NoOtherMark(d)
    BY <1>1 DEF NoOtherMark
  <2> QED BY <1>1, <2>1, <2>2
<1> QED BY <1>1, <1>2, <1>3, <1>4, <1>5, <1>6, <1>7, <1>8, Progress

\* A create begins, with an id that was never used.
LEMMA CreateStep ==
  ASSUME BookInv, NEW s \in Sessions, Create(s)
  PROVE  BookInv'
<1>1. PICK a \in Addresses \ used, mark \in BOOLEAN :
        /\ used' = used \cup {a}
        /\ Open(s, [op |-> "create", id |-> a, mark |-> mark,
                    at |-> "open", todo |-> <<>>, locked |-> {}])
  BY DEF Create
<1> DEFINE c == [op |-> "create", id |-> a, mark |-> mark,
                 at |-> "open", todo |-> <<>>, locked |-> {}]
<1>2. c \in Calls /\ c.locked = {} /\ c.op = "create" /\ c.id = a
  BY EmptySeq DEF Calls
<1>3. used \subseteq used' /\ used' \subseteq Addresses /\ c.id \in used' \ used
  BY <1>1, <1>2 DEF BookInv, TypeOK
<1>4. call[s] = NoCall /\ UNCHANGED bookVars /\ UNCHANGED doubled /\ Open(s, c)
  BY <1>1 DEF Create
<1> HIDE DEF c
<1> QED BY <1>2, <1>3, <1>4, OpenStep

\* An update that has read its row begins: it fixes the rows it will visit.
LEMMA BeginStep ==
  ASSUME BookInv, NEW s \in Sessions, Begin(s)
  PROVE  BookInv'
<1>1. /\ call[s] # NoCall /\ call[s].at = "read" /\ Open(s, call[s])
      /\ UNCHANGED bookVars /\ UNCHANGED doubled /\ used' = used
  BY DEF Begin
<1>2. call[s] \in Calls /\ used \subseteq Addresses
  BY <1>1, CallKinds DEF BookInv, TypeOK
<1>3. call[s].locked = {} /\ call[s].op = "update"
  BY <1>1 DEF BookInv, CallsSound, Sound
<1> QED BY <1>1, <1>2, <1>3, OpenStep

\* An update reads its row.
LEMMA ReadStep ==
  ASSUME BookInv, NEW s \in Sessions, Read(s)
  PROVE  BookInv'
<1> USE DEF BookInv
<1>1. PICK a \in saved, mark \in BOOLEAN :
        call' = [call EXCEPT ![s] =
                  [op |-> "update", id |-> a, mark |-> mark,
                   at |-> "read", todo |-> <<>>, locked |-> {}]]
  BY DEF Read
<1> DEFINE d == [op |-> "update", id |-> a, mark |-> mark,
                 at |-> "read", todo |-> <<>>, locked |-> {}]
<1>2. /\ d \in Calls /\ d.op = "update" /\ d.at = "read"
      /\ d.todo = <<>> /\ d.locked = {}
  BY EmptySeq DEF Calls, TypeOK
<1>3. Sound(d, used', saved) /\ Single(d)
  BY <1>2, EmptyRow DEF Sound, Single
<1>4. /\ call' = [call EXCEPT ![s] = d]
      /\ saved' = saved /\ default' = default /\ doubled' = doubled /\ used' = used
      /\ overlapped' = overlapped
  BY <1>1 DEF Read, bookVars, historyVars
<1>5. used \subseteq Addresses /\ overlapped \in BOOLEAN
  BY DEF TypeOK
<1> HIDE DEF d
<1> QED BY <1>2, <1>3, <1>4, <1>5, Progress

\* A transaction is rolled back.
LEMMA AbortStep ==
  ASSUME BookInv, NEW s \in Sessions, Abort(s)
  PROVE  BookInv'
<1> USE DEF BookInv
<1>1. /\ call' = [call EXCEPT ![s] = NoCall]
      /\ saved' = saved /\ default' = default /\ doubled' = doubled /\ used' = used
      /\ overlapped' = overlapped
  BY DEF Abort, bookVars, historyVars
<1>2. used \subseteq Addresses /\ overlapped \in BOOLEAN
  BY DEF TypeOK
<1> QED BY <1>1, <1>2, CallKinds, Progress

\* The first statement locks one more row, if it is there still.
LEMMA ClearStep ==
  ASSUME BookInv, NEW s \in Sessions, Clear(s)
  PROVE  BookInv'
<1> USE DEF BookInv
<1> DEFINE c == call[s]
<1>1. PICK d \in Calls, x \in Addresses :
        /\ c \in Calls /\ c.at = "open" /\ c.todo # <<>>
        /\ call' = [call EXCEPT ![s] = d]
        /\ d.op = c.op /\ d.id = c.id /\ d.mark = c.mark
        /\ d.at = "open"
        /\ ToSet(c.todo) = ToSet(d.todo) \cup {x}
        /\ Len(c.todo) <= 1 => d.todo = <<>>
        /\ d.todo # <<>> => Len(d.todo) <= Len(c.todo)
        /\ d.locked = c.locked \cup ({x} \cap saved)
        /\ \A t \in Sessions : t # s => x \notin Holds(t)
  BY Clearing
<1>2. /\ saved' = saved /\ default' = default /\ doubled' = doubled /\ used' = used
      /\ overlapped' = overlapped
  BY DEF Clear, bookVars, historyVars
<1>3. used \subseteq Addresses /\ overlapped \in BOOLEAN /\ default \subseteq saved
  BY DEF TypeOK
<1>4. c # NoCall /\ d # NoCall
  BY <1>1, ACall
<1>5. Sound(c, used, saved)
  BY <1>4 DEF CallsSound
<1>6. Sound(d, used', saved)
  BY <1>1, <1>2, <1>5 DEF Sound
<1>7. ~doubled => Single(d)
  BY <1>1, <1>4, EmptyRow DEF OneRowEach, Single
<1>8. s \in InTransaction /\ Holds(s) = c.locked
  BY <1>1, <1>4 DEF InTransaction, Holds
<1>9. \A t \in Sessions : t # s => d.locked \cap Holds(t) = {}
  BY <1>1, <1>8 DEF TypeOK
<1>10. d.op = "create" =>
         \A t \in Sessions : t # s /\ call[t].op = "create" => call[t].id # d.id
  BY <1>1 DEF OwnIds
<1>11. ASSUME ~overlapped, d.mark  PROVE Marking \ {s} = {} /\ NoOtherMark(d)
  <2>1. s \in Marking
    BY <1>1, <1>8, <1>11 DEF Marking
  <2>2. Marking \ {s} = {} /\ NoOtherMark(c)
    BY <1>11, <2>1 DEF AloneClearsAll
  <2> QED BY <1>1, <1>3, <2>2 DEF NoOtherMark
<1> QED BY <1>1, <1>2, <1>3, <1>6, <1>7, <1>9, <1>10, <1>11, Progress

\* The own row is inserted or overwritten.
LEMMA WriteStep ==
  ASSUME BookInv, NEW s \in Sessions, Insert(s) \/ Overwrite(s)
  PROVE  BookInv'
<1> USE DEF BookInv
<1> DEFINE c == call[s]
<1>1. PICK d \in Calls :
        /\ c \in Calls /\ c.at = "open" /\ c.todo = <<>>
        /\ call' = [call EXCEPT ![s] = d]
        /\ d.op = c.op /\ d.id = c.id /\ d.mark = c.mark
        /\ d.at = "written" /\ d.todo = <<>>
        /\ d.locked = c.locked \cup (IF d.op = "update" THEN {d.id} \cap saved ELSE {})
        /\ d.op = "update" => \A t \in Sessions : t # s => d.id \notin Holds(t)
  BY Writing
<1>2. /\ saved' = saved /\ default' = default /\ doubled' = doubled /\ used' = used
      /\ overlapped' = overlapped
  BY DEF Insert, Overwrite, bookVars, historyVars
<1>3. used \subseteq Addresses /\ overlapped \in BOOLEAN
  BY DEF TypeOK
<1>4. c # NoCall /\ d # NoCall
  BY <1>1, ACall
<1>5. Sound(c, used, saved)
  BY <1>4 DEF CallsSound
<1>6. Sound(d, used', saved) /\ Single(d)
  BY <1>1, <1>2, <1>5, EmptyRow DEF Sound, Single, Calls
<1>7. s \in InTransaction /\ Holds(s) = c.locked
  BY <1>1, <1>4 DEF InTransaction, Holds
<1>8. \A t \in Sessions : t # s => d.locked \cap Holds(t) = {}
  BY <1>1, <1>7 DEF TypeOK
<1>9. d.op = "create" =>
         \A t \in Sessions : t # s /\ call[t].op = "create" => call[t].id # d.id
  BY <1>1 DEF OwnIds
<1>10. ASSUME ~overlapped, d.mark  PROVE Marking \ {s} = {} /\ NoOtherMark(d)
  <2>1. s \in Marking
    BY <1>1, <1>7, <1>10 DEF Marking
  <2>2. Marking \ {s} = {} /\ NoOtherMark(c)
    BY <1>10, <2>1 DEF AloneClearsAll
  <2> QED BY <1>1, <2>2 DEF NoOtherMark
<1> QED BY <1>1, <1>2, <1>3, <1>6, <1>8, <1>9, <1>10, Progress
\* What was written becomes visible.
LEMMA CommitStep ==
  ASSUME BookInv, NEW s \in Sessions, Commit(s)
  PROVE  BookInv'
<1> USE DEF BookInv
<1> DEFINE c == call[s]
<1>1. /\ c \in Calls /\ c # NoCall /\ c.at = "written" /\ s \in InTransaction
      /\ Holds(s) = c.locked
  BY CallKinds DEF Commit, InTransaction, Holds
<1>2. /\ saved' = saved \cup (IF c.op = "create" THEN {c.id} ELSE {})
      /\ default' = (default \ (c.locked \cup {c.id})) \cup (IF c.mark THEN {c.id} \cap saved' ELSE {})
      /\ call' = [call EXCEPT ![s] = NoCall]
      /\ doubled' = (doubled \/ \E a, b \in default' : a # b)
      /\ used' = used /\ overlapped' = overlapped
  BY DEF Commit, Marks
<1>3. /\ Sound(c, used, saved) /\ c.todo = <<>>
      /\ c.op = "create" => c.id \in used
  BY <1>1 DEF CallsSound, Sound
<1>4. /\ call'[s] = NoCall
      /\ \A t \in Sessions : t # s => call'[t] = call[t]
      /\ \A t \in Sessions : t # s => Holds(t)' = Holds(t)
      /\ Marking' \ {s} = Marking \ {s}
      /\ s \notin InTransaction' /\ Holds(s)' = {}
  BY <1>2, Others
<1>5. /\ saved \subseteq used /\ used \subseteq Addresses /\ default \subseteq saved
      /\ overlapped \in BOOLEAN /\ doubled \in BOOLEAN /\ NoCall.op = "none"
  BY CallKinds DEF TypeOK
<1>6. default' \subseteq saved' /\ saved' \subseteq used
  BY <1>2, <1>3, <1>5
<1>7. default' \subseteq default \cup {c.id}
  BY <1>2
<1>8. ~c.mark => default' \subseteq default
  BY <1>2
<1>9. TypeOK'
  <2>1. call' \in [Sessions -> Calls \cup {NoCall}]
    BY <1>2 DEF TypeOK
  <2>2. \A t, u \in Sessions : t # u => Holds(t)' \cap Holds(u)' = {}
    <3> SUFFICES ASSUME NEW t \in Sessions, NEW u \in Sessions, t # u
                 PROVE  Holds(t)' \cap Holds(u)' = {}
      OBVIOUS
    <3>1. CASE t = s \/ u = s
      BY <1>4, <3>1
    <3>2. CASE t # s /\ u # s
      BY <1>4, <3>2 DEF TypeOK
    <3> QED BY <3>1, <3>2
  <2> QED BY <1>2, <1>5, <1>6, <2>1, <2>2 DEF TypeOK
<1>10. CallsSound'
  <2> SUFFICES ASSUME NEW t \in Sessions, call'[t] # NoCall
               PROVE  Sound(call'[t], used', saved')
    BY DEF CallsSound
  <2>1. t # s /\ call'[t] = call[t]
    BY <1>4
  <2>2. Sound(call[t], used, saved)
    BY <2>1 DEF CallsSound
  <2>3. call[t].op = "create" => call[t].id \notin saved'
    BY <1>2, <2>1, <2>2 DEF OwnIds, Sound
  <2> QED BY <1>2, <2>1, <2>2, <2>3 DEF Sound
<1>11. OwnIds'
  <2> SUFFICES ASSUME NEW t \in Sessions, NEW u \in Sessions, t # u,
                      call'[t].op = "create", call'[u].op = "create"
               PROVE  call'[t].id # call'[u].id
    BY DEF OwnIds
  <2>1. t # s /\ u # s
    BY <1>4, <1>5
  <2> QED BY <1>4, <2>1 DEF OwnIds
<1>12. OneRowEach'
  <2> SUFFICES ASSUME ~doubled'
               PROVE  /\ \A a, b \in default' : a = b
                      /\ \A t \in Sessions : call'[t] # NoCall => Single(call'[t])
    BY DEF OneRowEach
  <2>1. ~doubled /\ \A a, b \in default' : a = b
    BY <1>2
  <2>2. \A t \in Sessions : call'[t] # NoCall => Single(call'[t])
    BY <1>4, <2>1 DEF OneRowEach
  <2> QED BY <2>1, <2>2
<1>13. AloneClearsAll'
  <2> SUFFICES ASSUME ~overlapped
               PROVE  /\ ~doubled'
                      /\ \A t, u \in Marking' : t = u
                      /\ \A t \in Marking' : NoOtherMark(call[t])'
    BY <1>2 DEF AloneClearsAll
  <2>1. /\ ~doubled
        /\ \A t, u \in Marking : t = u
        /\ \A t \in Marking : NoOtherMark(call[t])
    BY DEF AloneClearsAll
  <2>2. Marking' \subseteq Marking \ {s} /\ Marking \subseteq Sessions
    BY <1>4 DEF Marking, InTransaction
  <2>3. CASE c.mark
    <3>1. s \in Marking
      BY <1>1, <2>3 DEF Marking
    <3>2. NoOtherMark(c) /\ Marking' = {}
      BY <2>1, <2>2, <3>1
    <3>3. default' \subseteq {c.id}
      BY <1>2, <1>3, <3>2, EmptyRow DEF NoOtherMark
    <3> QED BY <1>2, <2>1, <3>2, <3>3
  <2>4. CASE ~c.mark
    <3>1. default' \subseteq default
      BY <1>8, <2>4
    <3>2. \A a, b \in default' : a = b
      BY <2>1, <3>1 DEF OneRowEach
    <3>3. \A t \in Marking' : NoOtherMark(call[t])'
      BY <1>4, <2>1, <2>2, <3>1 DEF NoOtherMark
    <3> QED BY <1>2, <2>1, <2>2, <3>2, <3>3
  <2> QED BY <2>3, <2>4
<1> QED BY <1>9, <1>10, <1>11, <1>12, <1>13

\* A deletion is one statement.
LEMMA DeleteStep ==
  ASSUME BookInv, NEW a \in Addresses, Delete(a)
  PROVE  BookInv'
<1> USE DEF BookInv
<1>1. /\ saved' = saved \ {a} /\ default' = default \ {a}
      /\ used' = used /\ call' = call /\ overlapped' = overlapped /\ doubled' = doubled
  BY DEF Delete, historyVars
<1>2. /\ InTransaction' = InTransaction /\ Marking' = Marking
      /\ \A s \in Sessions : Holds(s)' = Holds(s)
  BY <1>1 DEF InTransaction, Marking, Holds
<1>3. TypeOK'
  BY <1>1, <1>2 DEF TypeOK
<1>4. CallsSound'
  BY <1>1 DEF CallsSound, Sound
<1>5. OwnIds' /\ OneRowEach'
  BY <1>1 DEF OwnIds, OneRowEach
<1>6. AloneClearsAll'
  BY <1>1, <1>2 DEF AloneClearsAll, NoOtherMark
<1> QED BY <1>3, <1>4, <1>5, <1>6

\* BookInv holds in every state: each step of Next keeps it.
THEOREM BookCorrect == Spec => []BookInv
<1>1. ASSUME BookInv, [Next]_vars  PROVE BookInv'
  <2>1. ASSUME NEW s \in Sessions, Create(s)  PROVE BookInv'
    BY <1>1, <2>1, CreateStep
  <2>2. ASSUME NEW s \in Sessions, Read(s)  PROVE BookInv'
    BY <1>1, <2>2, ReadStep
  <2>3. ASSUME NEW s \in Sessions, Begin(s)  PROVE BookInv'
    BY <1>1, <2>3, BeginStep
  <2>4. ASSUME NEW s \in Sessions, Clear(s)  PROVE BookInv'
    BY <1>1, <2>4, ClearStep
  <2>5. ASSUME NEW s \in Sessions, Insert(s) \/ Overwrite(s)  PROVE BookInv'
    BY <1>1, <2>5, WriteStep
  <2>6. ASSUME NEW s \in Sessions, Commit(s)  PROVE BookInv'
    BY <1>1, <2>6, CommitStep
  <2>7. ASSUME NEW s \in Sessions, Abort(s)  PROVE BookInv'
    BY <1>1, <2>7, AbortStep
  <2>8. ASSUME NEW a \in Addresses, Delete(a)  PROVE BookInv'
    BY <1>1, <2>8, DeleteStep
  <2>9. CASE UNCHANGED vars
    <3>1. /\ saved' = saved /\ default' = default /\ used' = used /\ call' = call
          /\ overlapped' = overlapped /\ doubled' = doubled
      BY <2>9 DEF vars, bookVars, historyVars
    <3>2. /\ InTransaction' = InTransaction /\ Marking' = Marking
          /\ \A s \in Sessions : Holds(s)' = Holds(s)
      BY <3>1 DEF InTransaction, Marking, Holds
    <3>3. TypeOK' /\ CallsSound' /\ OwnIds' /\ OneRowEach'
      BY <1>1, <3>1, <3>2 DEF BookInv, TypeOK, CallsSound, OwnIds, OneRowEach
    <3>4. AloneClearsAll'
      BY <1>1, <3>1, <3>2 DEF BookInv, AloneClearsAll, NoOtherMark
    <3> QED BY <3>3, <3>4 DEF BookInv
  <2> QED BY <1>1, <2>1, <2>2, <2>3, <2>4, <2>5, <2>6, <2>7, <2>8, <2>9 DEF Next
<1> QED BY <1>1, InitBook, PTL DEF Spec
-----------------------------------------------------------------------------
(* The properties.                                                         *)

\* Types, marks only on saved addresses, and one lock holder per row.
THEOREM BookTypes == Spec => []TypeOK
<1>1. BookInv => TypeOK
  BY DEF BookInv
<1> QED BY <1>1, BookCorrect, PTL

\* A second default address needs two overlapping transactions that set one.
THEOREM SecondDefault == Spec => []SecondDefaultNeedsOverlap
<1>1. BookInv => SecondDefaultNeedsOverlap
  BY DEF BookInv, AloneClearsAll, SecondDefaultNeedsOverlap
<1> QED BY <1>1, BookCorrect, PTL

\* In a book with one default, whoever holds a row and waits is an update that
\* sets the default and waits for its own row.
LEMMA HoldersWait ==
  ASSUME BookInv, ~doubled, NEW s \in Sessions, NEW t \in Sessions, NEW u \in Sessions,
         Waits(s, t), Waits(t, u)
  PROVE  /\ call[t].op = "update" /\ call[t].mark
         /\ call[t].id \notin Holds(t) /\ call[t].id \in Holds(u)
<1> USE DEF BookInv
<1> DEFINE c == call[t]
<1>1. Holds(t) # {} /\ Wanted(t) \cap Holds(u) # {}
  BY DEF Waits
<1>2. t \in InTransaction /\ c # NoCall /\ c.at # "read" /\ c.at # "written" /\ Holds(t) = c.locked
  BY <1>1 DEF Holds, InTransaction, Wanted
<1>3. c \in Calls /\ Sound(c, used, saved) /\ c.at = "open"
  <2>1. c \in Calls
    BY <1>2, CallKinds
  <2> QED BY <1>2, <2>1 DEF CallsSound, Calls
<1>4. c.todo = <<>>
  BY <1>1, <1>2 DEF OneRowEach, Single
<1>5. c.op = "update" /\ Wanted(t) = {c.id}
  BY <1>1, <1>2, <1>4 DEF Wanted
<1>6. c.mark /\ c.id \notin c.locked
  BY <1>1, <1>2, <1>3 DEF Sound
<1> QED BY <1>1, <1>2, <1>5, <1>6

\* Without two updates that set different defaults, and without a book that
\* held two, requests never wait in a circle, however many they are.
THEOREM CirclesOfUpdates == Spec => []DeadlockNeedsTwoUpdates
<1>1. ASSUME BookInv  PROVE DeadlockNeedsTwoUpdates
  <2> SUFFICES ASSUME NEW D \in SUBSET Sessions, Circle(D), ~doubled
               PROVE  \E s, t \in D : /\ call[s].op = "update" /\ call[t].op = "update"
                                      /\ call[s].mark /\ call[t].mark
                                      /\ call[s].id # call[t].id
    BY DEF DeadlockNeedsTwoUpdates
  <2>1. PICK s \in D, t \in D, u \in D, v \in D : Waits(s, t) /\ Waits(t, u) /\ Waits(u, v)
    BY DEF Circle
  <2>2. call[t].op = "update" /\ call[t].mark /\ call[t].id \in Holds(u)
    BY <1>1, <2>1, HoldersWait
  <2>3. call[u].op = "update" /\ call[u].mark /\ call[u].id \notin Holds(u)
    BY <1>1, <2>1, HoldersWait
  <2> QED BY <2>2, <2>3
<1> QED BY <1>1, BookCorrect, PTL

\* The book loses its default only in the three ways the property names.
THEOREM DefaultLost == Spec => DefaultGoesOnlyBy
<1>1. ASSUME BookInv, [Next]_vars
      PROVE  [default # {} /\ default' = {} =>
                \/ saved' # saved /\ saved' \subseteq saved
                \/ \E s \in InTransaction :
                     /\ call[s].op = "update" /\ call[s].at = "written"
                     /\ ~call[s].mark \/ call[s].id \notin saved]_vars
  <2> SUFFICES ASSUME Next, default # {}, default' = {}
               PROVE  \/ saved' # saved /\ saved' \subseteq saved
                      \/ \E s \in InTransaction :
                           /\ call[s].op = "update" /\ call[s].at = "written"
                           /\ ~call[s].mark \/ call[s].id \notin saved
    BY <1>1
  <2>1. CASE \E a \in Addresses : Delete(a)
    BY <2>1 DEF Delete
  <2>2. ASSUME NEW s \in Sessions, Commit(s)
        PROVE  /\ s \in InTransaction /\ call[s].op = "update" /\ call[s].at = "written"
               /\ ~call[s].mark \/ call[s].id \notin saved
    <3> DEFINE c == call[s]
    <3>1. s \in InTransaction /\ c.at = "written" /\ c # NoCall
      BY <2>2 DEF Commit, InTransaction
    <3>2. c \in Calls /\ Sound(c, used, saved) /\ default \subseteq saved
      BY <1>1, <3>1, CallKinds DEF BookInv, TypeOK, CallsSound
    <3>3. /\ saved' = saved \cup (IF c.op = "create" THEN {c.id} ELSE {})
          /\ default' = (default \ (c.locked \cup {c.id})) \cup (IF c.mark THEN {c.id} \cap saved' ELSE {})
      BY <2>2 DEF Commit, Marks
    <3>4. CASE c.op = "create"
      <4>1. c.id \in saved' /\ c.id \notin default
        BY <3>2, <3>3, <3>4 DEF Sound
      <4>2. ~c.mark
        BY <3>3, <4>1
      <4>3. c.locked = {}
        BY <3>2, <3>4, <4>2 DEF Sound
      <4>4. default' = default
        BY <3>3, <4>1, <4>2, <4>3
      <4> QED BY <4>4
    <3>5. CASE c.op = "update"
      <4>1. saved' = saved
        BY <3>3, <3>5
      <4>2. ~c.mark \/ c.id \notin saved
        BY <3>3, <4>1
      <4> QED BY <3>1, <3>5, <4>2
    <3> QED BY <3>2, <3>4, <3>5 DEF Calls
  <2>3. ASSUME NEW s \in Sessions,
               Create(s) \/ Read(s) \/ Begin(s) \/ Clear(s) \/ Insert(s) \/ Overwrite(s) \/ Abort(s)
        PROVE  FALSE
    <3>1. default' = default
      BY <2>3 DEF Create, Read, Begin, Clear, Insert, Overwrite, Abort, bookVars
    <3> QED BY <3>1
  <2> QED BY <2>1, <2>2, <2>3 DEF Next
<1> QED BY <1>1, BookCorrect, PTL DEF Spec, DefaultGoesOnlyBy

-----------------------------------------------------------------------------
(* The shipments.                                                          *)

Event == [status : Statuses, at : Nat]

Receipts ==
  {Ready} \cup [step : {"waiting", "publish", "done"}, order : Orders]
          \cup [step : {"save"}, order : Orders, at : Nat]

Tasks ==
  {Ready, Done} \cup [step : {"begin"}, order : Orders, status : Statuses]
                \cup [step : {"write"}, order : Orders, status : Statuses, at : Nat]

ShippingType ==
  /\ shipment \in [Orders -> Statuses \cup {"NONE"}]
  /\ history \in [Orders -> Seq(Event)]
  /\ clock \in Nat
  /\ approvals \in [Deliveries -> Receipts]
  /\ updates \in [Updates -> Tasks]

\* The request has read the row of o and will write it.
Writes(u, o) == updates[u].step \in {"begin", "write"} /\ updates[u].order = o

\* Times that were read from the clock have passed.
TimesPassed ==
  /\ \A o \in Orders : \A j \in 1..Len(history[o]) : history[o][j].at < clock
  /\ \A d \in Deliveries : approvals[d].step = "save" => approvals[d].at < clock
  /\ \A u \in Updates : updates[u].step = "write" => updates[u].at < clock

Explained(o) ==
  IF Len(history[o]) = 0 THEN shipment[o] = "NONE"
  ELSE /\ history[o][1].status = "CREATED"
       /\ history[o][Len(history[o])].status = shipment[o]

\* There is a row for whoever will write it.
RowThere(o) == \A u \in Updates : Writes(u, o) => shipment[o] # "NONE"

\* One request at a time will write the row, with a time after all others.
InOrder(o) ==
  /\ \A u, v \in Updates : Writes(u, o) /\ Writes(v, o) => u = v
  /\ \A u \in Updates : Writes(u, o) /\ updates[u].step = "write" =>
       \A j \in 1..Len(history[o]) : history[o][j].at < updates[u].at
  /\ \A j \in 1..Len(history[o]) : \A i \in 1..(j - 1) : history[o][i].at < history[o][j].at

ShippingInv ==
  /\ ShippingType /\ TimesPassed
  /\ \A o \in Orders : Explained(o) /\ RowThere(o)
  /\ \A o \in Orders \ raced : InOrder(o)

-----------------------------------------------------------------------------

\* The tasks and receipts of each step.
LEMMA Shapes ==
  /\ Ready \in Receipts /\ Ready \in Tasks /\ Done \in Tasks
  /\ Ready.step = "ready" /\ Done.step = "done"
  /\ \A t \in Tasks :
       /\ t \notin {Ready, Done} => t.step \in {"begin", "write"}
       /\ t.step \in {"begin", "write"} =>
            t \notin {Ready, Done} /\ t.order \in Orders /\ t.status \in Statuses
       /\ t.step = "write" => t.at \in Nat
  /\ \A t \in Receipts :
       /\ t.step # "ready" => t.order \in Orders
       /\ t.step = "save" => t.at \in Nat
       /\ t.step \in {"ready", "waiting", "publish", "done", "save"}
  /\ \A o \in Orders, s \in {"waiting", "publish", "done"} :
       [step |-> s, order |-> o] \in Receipts
  /\ \A o \in Orders, at \in Nat : [step |-> "save", order |-> o, at |-> at] \in Receipts
  /\ \A o \in Orders, s \in Statuses : [step |-> "begin", order |-> o, status |-> s] \in Tasks
  /\ \A o \in Orders, s \in Statuses, at \in Nat :
       [step |-> "write", order |-> o, status |-> s, at |-> at] \in Tasks
BY DEF Receipts, Tasks, Ready, Done

\* Times are natural numbers.
LEMMA Times ==
  ASSUME ShippingType
  PROVE  /\ \A o \in Orders : \A j \in 1..Len(history[o]) : history[o][j].at \in Nat
         /\ \A d \in Deliveries : approvals[d].step = "save" => approvals[d].at \in Nat
         /\ \A u \in Updates : updates[u].step = "write" => updates[u].at \in Nat
<1>1. ASSUME NEW o \in Orders, NEW j \in 1..Len(history[o]) PROVE history[o][j].at \in Nat
  <2>1. history[o] \in Seq(Event)
    BY DEF ShippingType
  <2>2. history[o][j] \in Event
    BY <2>1
  <2> QED
    BY <2>2 DEF Event
<1> QED
  BY <1>1, Shapes DEF ShippingType

\* RowHeld is to be written by a request.
LEMMA HeldBy ==
  ASSUME ShippingType, NEW o
  PROVE  RowHeld(o) <=> \E u \in Updates : Writes(u, o)
BY Shapes DEF RowHeld, Writes, ShippingType

\* Nothing was shipped yet.
LEMMA ShippingStarts == ShipmentInit => ShippingInv
<1>1. SUFFICES ASSUME ShipmentInit PROVE ShippingInv
  OBVIOUS
<1>2. \A o \in Orders : history[o] = <<>> /\ shipment[o] = "NONE"
  BY <1>1 DEF ShipmentInit
<1>3. /\ \A u \in Updates : updates[u] = Ready
      /\ \A d \in Deliveries : approvals[d] = Ready
  BY <1>1 DEF ShipmentInit
<1>4. ShippingType
  BY <1>1, Shapes DEF ShipmentInit, ShippingType
<1>5. TimesPassed
  BY <1>2, <1>3, Shapes DEF TimesPassed
<1>6. \A o \in Orders : Explained(o) /\ RowThere(o) /\ InOrder(o)
  BY <1>2, <1>3, Shapes DEF Explained, RowThere, InOrder, Writes
<1> QED
  BY <1>4, <1>5, <1>6 DEF ShippingInv

\* A step that writes no row, and lets nobody in.
LEMMA QuietKeeps ==
  ASSUME ShippingInv, ShippingType', UNCHANGED <<shipment, history, raced>>, clock <= clock',
         \A d \in Deliveries : approvals'[d].step = "save" =>
           approvals'[d] = approvals[d] \/ approvals'[d].at < clock',
         \A u \in Updates : updates'[u].step \in {"begin", "write"} => updates'[u] = updates[u]
  PROVE  ShippingInv'
<1>1. clock \in Nat /\ clock' \in Nat
  BY DEF ShippingInv, ShippingType
<1>2. \A u \in Updates, o \in Orders : Writes(u, o)' => Writes(u, o) /\ updates'[u] = updates[u]
  BY DEF Writes
<1>3. TimesPassed'
  <2>1. ShippingType
    BY DEF ShippingInv
  <2> QED
    BY <1>1, <2>1, Times DEF ShippingInv, TimesPassed
<1>4. \A o \in Orders : Explained(o)' /\ RowThere(o)'
  BY <1>2 DEF ShippingInv, Explained, RowThere
<1>5. \A o \in Orders \ raced' : InOrder(o)'
  BY <1>2 DEF ShippingInv, InOrder
<1> QED
  BY <1>3, <1>4, <1>5 DEF ShippingInv

-----------------------------------------------------------------------------
(* payment.approved                                                        *)

\* The consumer only reads, announces, or gets its message again.
LEMMA ConsumerKeeps ==
  ASSUME ShippingInv, NEW d \in Deliveries,
         \/ \E o \in Orders : PaymentApproved(d, o)
         \/ CreateRead(d) \/ CreatePublish(d) \/ CreatePublishFails(d)
  PROVE  ShippingInv'
<1>1. UNCHANGED <<shipment, history, raced, updates>>
  BY DEF PaymentApproved, CreateRead, CreatePublish, CreatePublishFails, dbVars
<1>2. clock \in Nat /\ clock' \in Nat /\ clock <= clock'
  BY DEF PaymentApproved, CreateRead, CreatePublish, CreatePublishFails, Tick, ShippingInv, ShippingType
<1>3. PICK t \in Receipts :
        /\ approvals' = [approvals EXCEPT ![d] = t]
        /\ t.step = "save" => t.at < clock'
  <2>1. CASE \E o \in Orders : PaymentApproved(d, o)
    <3>1. PICK o \in Orders : approvals' = [approvals EXCEPT ![d] = [step |-> "waiting", order |-> o]]
      BY <2>1 DEF PaymentApproved
    <3> QED
      BY <3>1, Shapes
  <2>2. CASE CreateRead(d)
    <3>1. PICK o \in Orders : o = approvals[d].order
      BY <2>2, Shapes DEF CreateRead, ShippingInv, ShippingType
    <3>2. CASE shipment[o] = "NONE"
      <4>1. /\ approvals' = [approvals EXCEPT ![d] = [step |-> "save", order |-> o, at |-> clock]]
            /\ clock' = clock + 1
        BY <2>2, <3>1, <3>2 DEF CreateRead, Tick
      <4>2. PICK t \in Receipts : t = [step |-> "save", order |-> o, at |-> clock]
        BY <1>2, Shapes
      <4>3. t.at < clock'
        BY <1>2, <4>1, <4>2
      <4> QED
        BY <4>1, <4>2, <4>3
    <3>3. CASE shipment[o] # "NONE"
      <4>1. approvals' = [approvals EXCEPT ![d] = [step |-> "done", order |-> o]]
        BY <2>2, <3>1, <3>3 DEF CreateRead
      <4> QED
        BY <4>1, Shapes
    <3> QED
      BY <3>2, <3>3
  <2>3. CASE CreatePublish(d) \/ CreatePublishFails(d)
    <3>1. approvals[d] \in [step : {"waiting", "publish", "done"}, order : Orders]
      BY <2>3 DEF CreatePublish, CreatePublishFails, Receipts, Ready, ShippingInv, ShippingType
    <3>2. PICK s \in {"waiting", "done"} : approvals' = [approvals EXCEPT ![d].step = s]
      BY <2>3 DEF CreatePublish, CreatePublishFails
    <3>3. PICK t : t = [approvals[d] EXCEPT !.step = s]
      OBVIOUS
    <3>4. t \in Receipts /\ t.step # "save"
      BY <3>1, <3>3 DEF Receipts
    <3>5. approvals' = [approvals EXCEPT ![d] = t]
      BY <3>2, <3>3
    <3> QED
      BY <3>4, <3>5
  <2> QED
    BY <2>1, <2>2, <2>3
<1>4. /\ approvals' \in [Deliveries -> Receipts]
      /\ \A e \in Deliveries : approvals'[e] = IF e = d THEN t ELSE approvals[e]
  BY <1>3 DEF ShippingInv, ShippingType
<1>5. ShippingType'
  BY <1>1, <1>2, <1>4 DEF ShippingInv, ShippingType
<1> QED
  BY <1>1, <1>2, <1>3, <1>4, <1>5, QuietKeeps

\* The first save makes the row with one event, before which nobody read it.
LEMMA CreateSaveKeeps == ASSUME ShippingInv, NEW d \in Deliveries, CreateSave(d) PROVE ShippingInv'
<1>1. PICK o \in Orders : o = approvals[d].order
  BY Shapes DEF CreateSave, ShippingInv, ShippingType
<1>2. approvals[d].step = "save" /\ UNCHANGED <<clock, updates, raced>>
  BY DEF CreateSave
<1>3. PICK t \in Receipts : approvals' = [approvals EXCEPT ![d] = t] /\ t.step = "publish"
  <2>1. approvals' = [approvals EXCEPT ![d] = [step |-> "publish", order |-> o]]
    BY <1>1 DEF CreateSave
  <2>2. PICK t \in Receipts : t = [step |-> "publish", order |-> o]
    BY Shapes
  <2>3. t.step = "publish"
    BY <2>2
  <2> QED
    BY <2>1, <2>2, <2>3
<1>4. /\ approvals' \in [Deliveries -> Receipts]
      /\ \A e \in Deliveries : approvals'[e] = IF e = d THEN t ELSE approvals[e]
  BY <1>3 DEF ShippingInv, ShippingType
<1>5. CASE shipment[o] # "NONE"
  <2>1. UNCHANGED <<shipment, history>>
    BY <1>1, <1>5 DEF CreateSave, dbVars
  <2>2. ShippingType' /\ clock <= clock'
    BY <1>2, <1>4, <2>1 DEF ShippingInv, ShippingType
  <2> QED
    BY <1>2, <1>3, <1>4, <2>1, <2>2, QuietKeeps
<1>6. CASE shipment[o] = "NONE"
  <2>1. PICK e \in Event : e = [status |-> "CREATED", at |-> approvals[d].at]
    BY <1>2, Shapes DEF ShippingInv, ShippingType, Event, Statuses
  <2>2. /\ shipment' = [shipment EXCEPT ![o] = "CREATED"]
        /\ history' = [history EXCEPT ![o] = <<e>>]
    BY <1>1, <1>6, <2>1 DEF CreateSave
  <2>3. ShippingType'
    BY <1>2, <1>4, <2>2 DEF ShippingInv, ShippingType, Statuses
  <2>4. e.status = "CREATED" /\ e.at < clock
    BY <1>2, <2>1 DEF ShippingInv, TimesPassed
  <2>5. /\ history'[o] = <<e>> /\ shipment'[o] = "CREATED"
        /\ \A p \in Orders \ {o} : history'[p] = history[p] /\ shipment'[p] = shipment[p]
    BY <2>2 DEF ShippingInv, ShippingType
  <2>6. \A u \in Updates : ~Writes(u, o)
    BY <1>6 DEF ShippingInv, RowThere
  <2>7. TimesPassed'
    BY <1>2, <1>3, <1>4, <2>4, <2>5 DEF ShippingInv, TimesPassed
  <2>8. \A u \in Updates, p \in Orders : Writes(u, p)' <=> Writes(u, p)
    BY <1>2 DEF Writes
  <2>9. \A p \in Orders : Explained(p)' /\ RowThere(p)'
    BY <2>4, <2>5, <2>8 DEF ShippingInv, Explained, RowThere
  <2>10. \A p \in Orders \ raced' : InOrder(p)'
    BY <1>2, <2>5, <2>6, <2>8 DEF ShippingInv, InOrder
  <2> QED
    BY <2>3, <2>7, <2>9, <2>10 DEF ShippingInv
<1> QED
  BY <1>5, <1>6

-----------------------------------------------------------------------------
(* shipping.update_status                                                  *)

\* Who reads a row that another will write marks the order, so the first
\* reader of an unmarked one is alone.
LEMMA UpdateReadKeeps ==
  ASSUME ShippingInv, NEW u \in Updates, NEW o \in Orders, NEW s \in Statuses, UpdateRead(u, o, s)
  PROVE  ShippingInv'
<1>1. /\ shipment[o] # "NONE" /\ UNCHANGED <<shipment, history, clock, approvals>>
      /\ raced' = IF RowHeld(o) THEN raced \cup {o} ELSE raced
  BY DEF UpdateRead, dbVars
<1>2. PICK t \in Tasks : /\ updates' = [updates EXCEPT ![u] = t]
                         /\ t.step = "begin" /\ t.order = o
  <2>1. updates' = [updates EXCEPT ![u] = [step |-> "begin", order |-> o, status |-> s]]
    BY DEF UpdateRead
  <2>2. PICK t \in Tasks : t = [step |-> "begin", order |-> o, status |-> s]
    BY Shapes
  <2>3. t.step = "begin" /\ t.order = o
    BY <2>2
  <2> QED
    BY <2>1, <2>2, <2>3
<1>3. /\ updates' \in [Updates -> Tasks]
      /\ \A v \in Updates : updates'[v] = IF v = u THEN t ELSE updates[v]
  BY <1>2 DEF ShippingInv, ShippingType
<1>4. ShippingType'
  BY <1>1, <1>3 DEF ShippingInv, ShippingType
<1>5. TimesPassed'
  BY <1>1, <1>2, <1>3 DEF ShippingInv, TimesPassed
<1>6. \A v \in Updates, p \in Orders :
        Writes(v, p)' <=> (v # u /\ Writes(v, p)) \/ (v = u /\ p = o)
  BY <1>2, <1>3 DEF Writes
<1>7. \A p \in Orders : Explained(p)' /\ RowThere(p)'
  BY <1>1, <1>6 DEF ShippingInv, Explained, RowThere
<1>8. ASSUME NEW p \in Orders \ raced' PROVE InOrder(p)'
  <2>1. InOrder(p)
    BY <1>1, <1>8 DEF ShippingInv
  <2>2. p = o => \A v \in Updates : ~Writes(v, p)
    BY <1>1, <1>8, HeldBy DEF ShippingInv
  <2> QED
    BY <1>1, <1>2, <1>3, <1>6, <2>1, <2>2 DEF InOrder
<1> QED
  BY <1>4, <1>5, <1>7, <1>8 DEF ShippingInv

\* The time of a transaction that begins is after all that were written.
LEMMA UpdateBeginKeeps == ASSUME ShippingInv, NEW u \in Updates, UpdateBegin(u) PROVE ShippingInv'
<1>1. /\ UNCHANGED <<shipment, history, approvals, raced>> /\ clock' = clock + 1
      /\ updates[u].step = "begin" /\ clock \in Nat
  BY DEF UpdateBegin, dbVars, Tick, ShippingInv, ShippingType
<1>2. updates[u].order \in Orders /\ updates[u].status \in Statuses
  BY <1>1, Shapes DEF ShippingInv, ShippingType
<1>3. PICK t \in Tasks : /\ updates' = [updates EXCEPT ![u] = t]
                         /\ t.step = "write" /\ t.order = updates[u].order /\ t.at = clock
  <2>1. updates' = [updates EXCEPT ![u] =
          [step |-> "write", order |-> updates[u].order, status |-> updates[u].status, at |-> clock]]
    BY DEF UpdateBegin
  <2>2. PICK t \in Tasks :
          t = [step |-> "write", order |-> updates[u].order, status |-> updates[u].status, at |-> clock]
    BY <1>1, <1>2, Shapes
  <2>3. t.step = "write" /\ t.order = updates[u].order /\ t.at = clock
    BY <2>2
  <2> QED
    BY <2>1, <2>2, <2>3
<1>4. /\ updates' \in [Updates -> Tasks]
      /\ \A v \in Updates : updates'[v] = IF v = u THEN t ELSE updates[v]
  BY <1>3 DEF ShippingInv, ShippingType
<1>5. ShippingType'
  BY <1>1, <1>4 DEF ShippingInv, ShippingType
<1>6. ShippingType
  BY DEF ShippingInv
<1>7. TimesPassed'
  BY <1>1, <1>3, <1>4, <1>6, Times DEF ShippingInv, TimesPassed
<1>8. \A v \in Updates, p \in Orders : Writes(v, p)' <=> Writes(v, p)
  BY <1>1, <1>3, <1>4 DEF Writes
<1>9. \A p \in Orders : Explained(p)' /\ RowThere(p)'
  BY <1>1, <1>8 DEF ShippingInv, Explained, RowThere
<1>10. \A p \in Orders \ raced' : InOrder(p)'
  BY <1>1, <1>3, <1>4, <1>8 DEF ShippingInv, InOrder, TimesPassed
<1> QED
  BY <1>5, <1>7, <1>9, <1>10 DEF ShippingInv

\* The status and its event are written together, and the writer is done.
LEMMA UpdateWriteKeeps == ASSUME ShippingInv, NEW u \in Updates, UpdateWrite(u) PROVE ShippingInv'
<1>1. /\ updates[u].step = "write" /\ UNCHANGED <<clock, approvals, raced>>
      /\ updates' = [updates EXCEPT ![u] = Done]
  BY DEF UpdateWrite
<1>2. PICK o \in Orders, s \in Statuses :
        o = updates[u].order /\ s = updates[u].status /\ updates[u].at \in Nat
  BY <1>1, Shapes DEF ShippingInv, ShippingType
<1>3. PICK e \in Event : e = [status |-> s, at |-> updates[u].at]
  BY <1>2 DEF Event
<1>4. /\ shipment' = [shipment EXCEPT ![o] = s]
      /\ history' = [history EXCEPT ![o] = Append(history[o], e)]
  BY <1>2, <1>3 DEF UpdateWrite
<1>5. /\ updates' \in [Updates -> Tasks]
      /\ \A v \in Updates : updates'[v] = IF v = u THEN Done ELSE updates[v]
  BY <1>1, Shapes DEF ShippingInv, ShippingType
<1>6. history[o] \in Seq(Event) /\ Append(history[o], e) \in Seq(Event)
  BY DEF ShippingInv, ShippingType
<1>7. ShippingType'
  BY <1>1, <1>4, <1>5, <1>6 DEF ShippingInv, ShippingType
<1>8. /\ shipment'[o] = s /\ history'[o] = Append(history[o], e)
      /\ \A p \in Orders \ {o} : history'[p] = history[p] /\ shipment'[p] = shipment[p]
  BY <1>4 DEF ShippingInv, ShippingType
<1>9. /\ Len(history[o]) \in Nat /\ Len(history'[o]) = Len(history[o]) + 1
      /\ history'[o][Len(history[o]) + 1] = e
      /\ \A j \in 1..Len(history[o]) : history'[o][j] = history[o][j]
  BY <1>6, <1>8
<1>10. e.status = s /\ e.at = updates[u].at /\ e.at < clock
  BY <1>1, <1>3 DEF ShippingInv, TimesPassed
<1>11. Writes(u, o)
  BY <1>1, <1>2 DEF Writes
<1>12. Len(history[o]) # 0
  BY <1>11 DEF ShippingInv, RowThere, Explained
<1>13. \A v \in Updates, p \in Orders :
         Writes(v, p)' => v # u /\ Writes(v, p) /\ updates'[v] = updates[v]
  BY <1>5, Shapes DEF Writes
<1>14. TimesPassed'
  <2>1. ASSUME NEW p \in Orders, NEW j \in 1..Len(history'[p]) PROVE history'[p][j].at < clock'
    <3>1. CASE p = o
      BY <1>1, <1>9, <1>10, <2>1, <3>1 DEF ShippingInv, TimesPassed
    <3>2. CASE p # o
      BY <1>1, <1>8, <2>1, <3>2 DEF ShippingInv, TimesPassed
    <3> QED
      BY <3>1, <3>2
  <2> QED
    BY <1>1, <1>5, <2>1, Shapes DEF ShippingInv, TimesPassed
<1>15. \A p \in Orders : Explained(p)'
  <2>1. Explained(o)'
    BY <1>8, <1>9, <1>10, <1>12 DEF ShippingInv, Explained
  <2> QED
    BY <1>8, <2>1 DEF ShippingInv, Explained
<1>16. \A p \in Orders : RowThere(p)'
  BY <1>8, <1>13 DEF ShippingInv, RowThere, Statuses
<1>17. ASSUME NEW p \in Orders \ raced' PROVE InOrder(p)'
  <2>1. InOrder(p)
    BY <1>1, <1>17 DEF ShippingInv
  <2>2. CASE p # o
    BY <1>8, <1>13, <2>1, <2>2 DEF InOrder
  <2>3. CASE p = o
    <3>1. \A v \in Updates : ~Writes(v, p)'
      BY <1>11, <1>13, <2>1, <2>3 DEF InOrder
    <3>2. \A j \in 1..Len(history[o]) : history[o][j].at < e.at
      BY <1>1, <1>10, <1>11, <2>1, <2>3 DEF InOrder
    <3>3. ASSUME NEW j \in 1..Len(history'[o]), NEW i \in 1..(j - 1)
          PROVE  history'[o][i].at < history'[o][j].at
      <4>1. CASE j = Len(history[o]) + 1
        BY <1>9, <3>2, <4>1
      <4>2. CASE j # Len(history[o]) + 1
        <5>1. j \in 1..Len(history[o]) /\ i \in 1..Len(history[o])
          BY <1>9, <4>2
        <5> QED
          BY <1>9, <2>1, <2>3, <5>1 DEF InOrder
      <4> QED
        BY <4>1, <4>2
    <3> QED
      BY <2>3, <3>1, <3>3 DEF InOrder
  <2> QED
    BY <2>2, <2>3
<1> QED
  BY <1>7, <1>14, <1>15, <1>16, <1>17 DEF ShippingInv

\* A restart ends the requests and has messages delivered again.
LEMMA CrashKeeps == ASSUME ShippingInv, Crash PROVE ShippingInv'
<1>1. UNCHANGED <<shipment, history, clock, raced>>
  BY DEF Crash, dbVars
<1>2. /\ updates' \in [Updates -> Tasks]
      /\ \A u \in Updates : updates'[u].step \notin {"begin", "write"}
  BY Shapes DEF Crash
<1>3. PICK again \in SUBSET {d \in Deliveries : approvals[d].step = "done"} :
        approvals' = Redelivered(again)
  BY DEF Crash
<1>4. ASSUME NEW d \in Deliveries
      PROVE  approvals'[d] \in Receipts /\ approvals'[d].step # "save"
  <2>1. approvals[d] \in Receipts
    BY DEF ShippingInv, ShippingType
  <2>2. CASE d \in again \/ approvals[d].step \in {"save", "publish"}
    <3>1. approvals[d].order \in Orders
      BY <2>1, <2>2, Shapes
    <3> QED
      BY <1>3, <2>2, <3>1 DEF Redelivered, Receipts
  <2>3. CASE ~(d \in again \/ approvals[d].step \in {"save", "publish"})
    BY <1>3, <2>1, <2>3 DEF Redelivered
  <2> QED
    BY <2>2, <2>3
<1>5. approvals' \in [Deliveries -> Receipts]
  BY <1>3, <1>4 DEF Redelivered
<1>6. ShippingType' /\ clock <= clock'
  BY <1>1, <1>2, <1>5 DEF ShippingInv, ShippingType
<1> QED
  BY <1>1, <1>2, <1>4, <1>6, QuietKeeps

-----------------------------------------------------------------------------
(* The invariant.                                                          *)

\* ShippingInv is inductive.
LEMMA ShippingInductive == ShippingInv /\ [ShipmentNext]_shipmentVars => ShippingInv'
<1>1. SUFFICES ASSUME ShippingInv, [ShipmentNext]_shipmentVars PROVE ShippingInv'
  OBVIOUS
<1>2. CASE UNCHANGED shipmentVars
  <2>1. UNCHANGED <<shipment, history, clock, approvals, updates, raced>>
    BY <1>2 DEF shipmentVars, dbVars
  <2>2. ShippingType' /\ clock <= clock'
    BY <1>1, <2>1 DEF ShippingInv, ShippingType
  <2> QED
    BY <1>1, <2>1, <2>2, QuietKeeps
<1>3. ASSUME NEW d \in Deliveries,
             \/ \E o \in Orders : PaymentApproved(d, o)
             \/ CreateShipment(d) \/ CreatePublishFails(d)
      PROVE  ShippingInv'
  BY <1>1, <1>3, ConsumerKeeps, CreateSaveKeeps DEF CreateShipment
<1>4. ASSUME NEW u \in Updates, Update(u) PROVE ShippingInv'
  BY <1>1, <1>4, UpdateBeginKeeps, UpdateWriteKeeps DEF Update
<1> QED
  BY <1>1, <1>2, <1>3, <1>4, UpdateReadKeeps, CrashKeeps DEF ShipmentNext

\* So it always holds.
THEOREM ShipmentsAreSound == ShipmentSpec => []ShippingInv
BY ShippingStarts, ShippingInductive, PTL DEF ShipmentSpec

\* The history of a shipment starts with its creation and ends with its status.
THEOREM HistoriesExplain == ShipmentSpec => []HistoryExplainsStatus
<1>1. ASSUME ShippingInv, NEW o \in Orders
      PROVE  IF history[o] = <<>> THEN shipment[o] = "NONE"
             ELSE /\ history[o][1].status = "CREATED"
                  /\ history[o][Len(history[o])].status = shipment[o]
  <2>1. history[o] \in Seq(Event) /\ Explained(o)
    BY <1>1 DEF ShippingInv, ShippingType
  <2>2. Len(history[o]) = 0 <=> history[o] = <<>>
    BY <2>1
  <2> QED
    BY <2>1, <2>2 DEF Explained
<1>2. ShippingInv => HistoryExplainsStatus
  BY <1>1 DEF HistoryExplainsStatus
<1> QED
  BY <1>2, ShipmentsAreSound, PTL

\* The events are listed in the order in which they were written, unless a
\* request read the row while another was to write it.
THEOREM TimelinesInOrder == ShipmentSpec => []TimelineInOrder
<1>1. ASSUME ShippingInv, NEW o \in Orders \ raced, NEW j \in DOMAIN history[o], NEW i \in 1..(j - 1)
      PROVE  ~MayBeListedBefore(o, j, i)
  <2>1. history[o] \in Seq(Event) /\ InOrder(o)
    BY <1>1 DEF ShippingInv, ShippingType
  <2>2. j \in 1..Len(history[o]) /\ i \in 1..Len(history[o])
    BY <2>1
  <2>3. history[o][i].at \in Nat /\ history[o][j].at \in Nat
    BY <1>1, <2>2, Times DEF ShippingInv
  <2> QED
    BY <2>1, <2>2, <2>3 DEF InOrder, MayBeListedBefore
<1>2. ShippingInv => TimelineInOrder
  BY <1>1 DEF TimelineInOrder
<1> QED
  BY <1>2, ShipmentsAreSound, PTL

=============================================================================
