---------------------------- MODULE AddressBook ----------------------------
(***************************************************************************)
(* The shipping addresses of one customer (every statement of the          *)
(* repository is restricted to one user_id) and which of them are marked   *)
(* as the default.  Creating and updating an address are transactions of   *)
(* two statements, at READ COMMITTED: one takes the mark off the other     *)
(* addresses, one writes the address.  Nothing in the schema says that     *)
(* there is one default.                                                   *)
(*                                                                         *)
(* An UPDATE works on the rows that match when it starts, locks each of    *)
(* them in turn, waits for whoever holds one, and looks at a row again     *)
(* after a wait; locks last until COMMIT or ROLLBACK.                      *)
(***************************************************************************)
EXTENDS Integers, FiniteSets, Sequences, SequencesExt

CONSTANTS Addresses,  \* ids; a new address gets one that was never used
          Sessions    \* requests served at the same time

ASSUME AddressBookAssumption == IsFiniteSet(Addresses)

VARIABLES
  saved,      \* addresses with a committed row
  default,    \* those whose committed row has is_default = TRUE
  used,       \* ids given out so far
  call,       \* the call each session is making, or NoCall
  overlapped, \* history: two calls that set a default had transactions open together
  doubled     \* history: two addresses were the default at once

bookVars    == <<saved, default>>
historyVars == <<overlapped, doubled>>
vars        == <<bookVars, used, call, historyVars>>

NoCall == [op |-> "none"]

\* mark: the value is_default is given; todo: rows the first statement still
\* has to visit; locked: rows locked; at: how far the call has come.
Calls == [op : {"create", "update"}, id : Addresses, mark : BOOLEAN,
          at : {"read", "open", "written"}, todo : Seq(Addresses), locked : SUBSET Addresses]

Init ==
  /\ saved = {} /\ default = {} /\ used = {}
  /\ call = [s \in Sessions |-> NoCall]
  /\ overlapped = FALSE /\ doubled = FALSE

-----------------------------------------------------------------------------
InTransaction == {s \in Sessions : call[s] # NoCall /\ call[s].at # "read"}
Marking       == {s \in InTransaction : call[s].mark}
Holds(s)      == IF s \in InTransaction THEN call[s].locked ELSE {}

\* The row that the session locks next: {} when it locks no more.
Wanted(s) ==
  IF s \notin InTransaction \/ call[s].at = "written" THEN {}
  ELSE IF call[s].todo # <<>> THEN {Head(call[s].todo)}
  ELSE IF call[s].op = "update" THEN {call[s].id} ELSE {}

Waits(s, t) == s # t /\ Wanted(s) \cap Holds(t) # {}
Free(s)     == \A t \in Sessions : ~Waits(s, t)

\* BEGIN and, when the address shall be the default, the start of
\*   UPDATE ... SET is_default = FALSE WHERE is_default = TRUE [AND id <> own],
\* which fixes the rows to visit, in an order that Postgres chooses.
Mutant_OpenUpdate(s, c) ==
  /\ \E rows \in SetToSeqs(IF c.mark /\ c.op = "create" THEN default ELSE {}) :
       call' = [call EXCEPT ![s] = [c EXCEPT !.at = "open", !.todo = rows]]
  /\ overlapped' = (overlapped \/ (c.mark /\ Marking # {}))
Mutant_OpenAll(s, c) ==
  /\ \E rows \in SetToSeqs(IF c.mark THEN saved \ {c.id} ELSE {}) :
       call' = [call EXCEPT ![s] = [c EXCEPT !.at = "open", !.todo = rows]]
  /\ overlapped' = (overlapped \/ (c.mark /\ Marking # {}))
Open(s, c) ==
  /\ \E rows \in SetToSeqs(IF c.mark THEN default \ {c.id} ELSE {}) :
       call' = [call EXCEPT ![s] = [c EXCEPT !.at = "open", !.todo = rows]]
  /\ overlapped' = (overlapped \/ (c.mark /\ Marking # {}))

Create(s) ==
  /\ call[s] = NoCall
  /\ \E a \in Addresses \ used, mark \in BOOLEAN :
       /\ used' = used \cup {a}
       /\ Open(s, [op |-> "create", id |-> a, mark |-> mark,
                   at |-> "open", todo |-> <<>>, locked |-> {}])
  /\ UNCHANGED <<bookVars, doubled>>

\* update reads the row first, outside the transaction, and keeps its mark
\* when the request does not mention it.  Without a row it throws NotFound.
Read(s) ==
  /\ call[s] = NoCall
  /\ \E a \in saved : \E mark \in BOOLEAN \cup {a \in default} :
       call' = [call EXCEPT ![s] =
                 [op |-> "update", id |-> a, mark |-> mark,
                  at |-> "read", todo |-> <<>>, locked |-> {}]]
  /\ UNCHANGED <<bookVars, used, historyVars>>

Begin(s) ==
  /\ call[s] # NoCall /\ call[s].at = "read"
  /\ Open(s, call[s])
  /\ UNCHANGED <<bookVars, used, doubled>>

\* The first statement takes the mark off one row, which stays locked even
\* when it has lost the mark meanwhile; a row that is gone is passed over.
Clear(s) ==
  /\ s \in InTransaction /\ call[s].todo # <<>> /\ Free(s)
  /\ call' = [call EXCEPT ![s].todo = Tail(@), ![s].locked = @ \cup (Wanted(s) \cap saved)]
  /\ UNCHANGED <<bookVars, used, historyVars>>

AtWrite(s, op) ==
  /\ s \in InTransaction /\ call[s].op = op
  /\ call[s].at = "open" /\ call[s].todo = <<>>

\* INSERT: nobody else can see or lock the row before COMMIT.
Insert(s) ==
  /\ AtWrite(s, "create")
  /\ call' = [call EXCEPT ![s].at = "written"]
  /\ UNCHANGED <<bookVars, used, historyVars>>

\* UPDATE of every column; no row is written when it was deleted meanwhile.
Overwrite(s) ==
  /\ AtWrite(s, "update") /\ Free(s)
  /\ call' = [call EXCEPT ![s].at = "written", ![s].locked = @ \cup (Wanted(s) \cap saved)]
  /\ UNCHANGED <<bookVars, used, historyVars>>

\* The marks after COMMIT of c, when its row is in S.
Marks(c, S) ==
  (default \ (c.locked \cup {c.id})) \cup (IF c.mark THEN {c.id} \cap S ELSE {})

\* COMMIT.  Without a row to return, update then throws: what its first
\* statement did has been committed.
Commit(s) ==
  /\ s \in InTransaction /\ call[s].at = "written"
  /\ saved' = saved \cup (IF call[s].op = "create" THEN {call[s].id} ELSE {})
  /\ default' = Marks(call[s], saved')
  /\ call' = [call EXCEPT ![s] = NoCall]
  /\ doubled' = (doubled \/ \E a, b \in default' : a # b)
  /\ UNCHANGED <<used, overlapped>>

\* A statement fails, Postgres ends a deadlock, or the gateway dies: ROLLBACK.
Abort(s) ==
  /\ call[s] # NoCall
  /\ call' = [call EXCEPT ![s] = NoCall]
  /\ UNCHANGED <<bookVars, used, historyVars>>

\* One statement, which waits for the lock of the row.
Delete(a) ==
  /\ a \in saved
  /\ \A s \in Sessions : a \notin Holds(s)
  /\ saved' = saved \ {a} /\ default' = default \ {a}
  /\ UNCHANGED <<used, call, historyVars>>

Next ==
  \/ \E s \in Sessions : Create(s) \/ Read(s) \/ Begin(s) \/ Clear(s)
                         \/ Insert(s) \/ Overwrite(s) \/ Commit(s) \/ Abort(s)
  \/ \E a \in Addresses : Delete(a)

Spec == Init /\ [][Next]_vars

-----------------------------------------------------------------------------
(* Every variable stays in its type, nothing is marked that does not exist *)
(* and nobody holds the lock of a row that another session holds.          *)
TypeOK ==
  /\ saved \subseteq used /\ used \subseteq Addresses /\ default \subseteq saved
  /\ call \in [Sessions -> Calls \cup {NoCall}]
  /\ {overlapped, doubled} \subseteq BOOLEAN
  /\ \A s, t \in Sessions : s # t => Holds(s) \cap Holds(t) = {}

(* Two addresses are the default at once only after two transactions that  *)
(* set a default were open at the same time: clearing the marks before     *)
(* writing is enough for calls that do not overlap, also when update works *)
(* with a mark it read before another call moved the default.              *)
SecondDefaultNeedsOverlap == doubled => overlapped

(* Requests wait for each other in a circle only when two of them are      *)
(* updates that make different addresses the default, or when the book     *)
(* held two defaults: creating an address does not do it by itself.        *)
Circle(D) == D # {} /\ \A s \in D : \E t \in D : Waits(s, t)

DeadlockNeedsTwoUpdates ==
  \A D \in SUBSET Sessions : Circle(D) =>
    \/ doubled
    \/ \E s, t \in D : /\ call[s].op = "update" /\ call[t].op = "update"
                       /\ call[s].mark /\ call[t].mark /\ call[s].id # call[t].id

(* The book is left without a default only by deleting the address, by an  *)
(* update that writes FALSE over the mark, or by an update that was to set *)
(* the default on an address that was deleted under it: it answers with an *)
(* error and has taken the mark off the other address all the same.        *)
DefaultGoesOnlyBy ==
  [][default # {} /\ default' = {} =>
       \/ saved' # saved /\ saved' \subseteq saved
       \/ \E s \in InTransaction :
            /\ call[s].op = "update" /\ call[s].at = "written"
            /\ ~call[s].mark \/ call[s].id \notin saved]_vars
=============================================================================
