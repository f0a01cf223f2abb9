-------------------------- MODULE FrontendProofs ---------------------------
(***************************************************************************)
(* Proofs about the two halves of the frontend.                            *)
(*                                                                         *)
(* Storefront, for any tabs, users, products and slots, and however many   *)
(* clicks and failures: what a guest left in the cart is kept, one filling *)
(* of a cart is ordered once, and a tab where nothing is under way shows   *)
(* the cart of the server.                                                 *)
(*                                                                         *)
(* AdminConsole with the catalog it works on, for any ids, rows, consoles  *)
(* and slots: what is in the catalog is in the inventory or on its way     *)
(* there, an order is priced as its product was at some moment, a page     *)
(* that tells of its success shows it, and an inactive variant stays.      *)
(***************************************************************************)
EXTENDS Storefront, AdminConsole, FiniteSetTheorems, WellFoundedInduction, TLAPS

\* A guest's rows may exceed Available: a click checks what is rendered.
GuestRows == [Products -> Nat]

Phases == {"set", "setDone", "order", "start", "clear", "cleared"}
CallRecs ==
  [phase : Phases, tab : Tabs, user : Users, product : Products, quantity : 0..Available,
   items : Rows, fill : Nat, stamp : Nat, mixed : BOOLEAN, behind : BOOLEAN]
Screens == [items : Rows, fill : Nat, last : Int, newest : Nat]
Answers == [user : Users, sync : BOOLEAN, items : Rows, stamp : Nat, fill : Nat]

-----------------------------------------------------------------------------
(* The guest cart.                                                         *)

GuestType ==
  /\ session \in [Tabs -> Users \cup {"guest", "closed"}] /\ stored \in Users \cup {"guest"}
  /\ storage \in GuestRows /\ guest \in [Tabs -> GuestRows] /\ wanted \in GuestRows
  /\ pending \in [Tabs -> {Nothing} \cup {<<rows>> : rows \in GuestRows}]
  /\ heard \subseteq Tabs /\ apart \in BOOLEAN

\* What the only guest tab has rendered, or is about to render, is what was
\* left; so is the copy, but for a tab that has just begun to show the cart.
GuestSound ==
  /\ OneGuest(session)
  /\ \A t \in Tabs : session[t] = "guest" =>
       IF pending[t] = Nothing THEN guest[t] = wanted /\ storage = wanted
       ELSE pending[t] = <<wanted>> /\ t \notin heard
  /\ (\A t \in Tabs : session[t] # "guest") => storage = wanted

GuestInv ==
  /\ GuestType
  /\ \A t \in Tabs : pending[t] # Nothing => session[t] = "guest"
  /\ apart => GuestSound

\* A state that is about to be rendered, and what is in it.
LEMMA Pendings == \A r : <<r>> # Nothing /\ <<r>>[1] = r
BY DEF Nothing

\* What a tab renders next.
LEMMA PendingRow ==
  ASSUME GuestType, NEW t \in Tabs
  PROVE  /\ Latest(t) \in GuestRows
         /\ pending[t] # Nothing => pending[t][1] \in GuestRows /\ pending[t] = <<pending[t][1]>>
BY Pendings DEF GuestType, Latest

\* A tab no longer shows the guest cart, or its page goes.
LEMMA GuestLeaves ==
  ASSUME GuestInv, NEW t \in Tabs, NEW u \in Users \cup {"closed"}, NEW rows \in GuestRows,
         session' = [session EXCEPT ![t] = u], stored' \in Users \cup {"guest"},
         guest' = [guest EXCEPT ![t] = rows], pending' = [pending EXCEPT ![t] = Nothing],
         heard' = heard \ {t}, UNCHANGED <<storage, wanted>>,
         apart' \in BOOLEAN, apart' => apart /\ pending[t] = Nothing
  PROVE  GuestInv'
<1>1. u # "guest"
  BY StorefrontAssumption
<1>2. GuestType'
  BY DEF GuestInv, GuestType
<1>3. \A v \in Tabs \ {t} : /\ session'[v] = session[v] /\ guest'[v] = guest[v]
                            /\ pending'[v] = pending[v] /\ (v \in heard' <=> v \in heard)
  BY DEF GuestInv, GuestType
<1>4. session'[t] = u /\ pending'[t] = Nothing
  BY DEF GuestInv, GuestType
<1>5. ASSUME apart' PROVE GuestSound'
  <2>1. GuestSound /\ pending[t] = Nothing
    BY <1>5 DEF GuestInv
  <2>2. OneGuest(session')
    BY <1>1, <1>3, <1>4, <2>1 DEF GuestSound, OneGuest
  <2>3. (\A v \in Tabs : session'[v] # "guest") => storage = wanted
    BY <1>3, <2>1 DEF GuestSound
  <2>4. \A v \in Tabs : session'[v] = "guest" =>
          IF pending'[v] = Nothing THEN guest'[v] = wanted /\ storage = wanted
          ELSE pending'[v] = <<wanted>> /\ v \notin heard'
    BY <1>1, <1>3, <1>4, <2>1 DEF GuestSound
  <2> QED
    BY <2>2, <2>3, <2>4 DEF GuestSound, OneGuest
<1> QED
  BY <1>1, <1>2, <1>3, <1>4, <1>5 DEF GuestInv

\* A tab begins to show it.
LEMMA GuestEnters ==
  ASSUME GuestInv, NEW t \in Tabs, session[t] # "guest", NEW rows \in GuestRows,
         session' = [session EXCEPT ![t] = "guest"], stored' \in Users \cup {"guest"},
         ShowGuest(t, rows), apart' \in BOOLEAN, apart' => apart /\ OneGuest(session')
  PROVE  GuestInv'
<1>1. pending[t] = Nothing
  BY DEF GuestInv
<1>2. GuestType'
  BY DEF GuestInv, GuestType, ShowGuest, StorageEvents
<1>3. \A v \in Tabs \ {t} : session'[v] = session[v] /\ pending'[v] = pending[v]
  BY DEF GuestInv, GuestType, ShowGuest
<1>4. session'[t] = "guest" /\ pending'[t] = <<storage>> /\ t \notin heard'
  BY DEF GuestInv, GuestType, ShowGuest, StorageEvents
<1>5. ASSUME apart' PROVE GuestSound'
  <2>1. GuestSound /\ OneGuest(session')
    BY <1>5 DEF GuestInv
  <2>2. \A v \in Tabs \ {t} : session'[v] # "guest"
    BY <1>4, <2>1 DEF OneGuest
  <2>3. \A v \in Tabs : session[v] # "guest"
    BY <1>3, <2>2
  <2>4. storage = wanted /\ wanted' = wanted
    BY <2>1, <2>3 DEF GuestSound, ShowGuest
  <2> QED
    BY <1>4, <2>1, <2>2, <2>4, Pendings DEF GuestSound, OneGuest
<1> QED
  BY <1>2, <1>3, <1>4, <1>5 DEF GuestInv

\* A guest's click, and what a tab makes of the news of another's.
LEMMA GuestTabKeeps ==
  ASSUME GuestInv, NEW t \in Tabs, session[t] = "guest", UNCHANGED <<session, stored, apart>>,
         \/ Hear(t) \/ Render(t)
         \/ \E p \in Products : AddGuest(t, p) \/ \E n \in 0..Available : UpdateGuest(t, p, n)
  PROVE  GuestInv'
<1>1. /\ GuestType /\ Latest(t) \in GuestRows
      /\ pending[t] # Nothing => pending[t][1] \in GuestRows /\ pending[t] = <<pending[t][1]>>
  BY PendingRow DEF GuestInv
<1>2. apart => \A v \in Tabs \ {t} : session[v] # "guest"
  BY DEF GuestInv, GuestSound, OneGuest
<1>3. CASE Hear(t)
  <2>1. GuestType' /\ pending'[t] = <<storage>> /\ t \notin heard'
        /\ \A v \in Tabs \ {t} : pending'[v] = pending[v]
    BY <1>1, <1>3 DEF GuestType, Hear
  <2>2. apart => storage = wanted
    BY <1>3 DEF GuestInv, GuestSound, Hear
  <2>3. apart' => GuestSound'
    BY <1>2, <1>3, <2>1, <2>2, Pendings DEF GuestInv, GuestSound, OneGuest, Hear
  <2> QED
    BY <2>1, <2>3 DEF GuestInv
<1>4. CASE Render(t)
  <2>1. /\ GuestType' /\ pending'[t] = Nothing /\ guest'[t] = pending[t][1]
        /\ storage' = pending[t][1] /\ wanted' = wanted
        /\ \A v \in Tabs \ {t} : pending'[v] = pending[v]
    BY <1>1, <1>4 DEF GuestType, Render, StorageEvents
  <2>2. apart => pending[t][1] = wanted
    BY <1>4, Pendings DEF GuestInv, GuestSound, Render
  <2>3. apart' => GuestSound'
    BY <1>2, <2>1, <2>2 DEF GuestInv, GuestSound, OneGuest
  <2> QED
    BY <2>1, <2>3 DEF GuestInv
<1>5. ASSUME NEW p \in Products, AddGuest(t, p) \/ \E n \in 0..Available : UpdateGuest(t, p, n)
      PROVE  GuestInv'
  <2>1. PICK n \in Nat : SetGuest(t, p, n)
    <3>1. Latest(t)[p] + 1 \in Nat
      BY <1>1 DEF GuestRows
    <3>2. \A n \in 0..Available : (IF Latest(t)[p] > 0 THEN n ELSE 0) \in Nat
      BY StorefrontAssumption
    <3> QED
      BY <1>5, <3>1, <3>2 DEF AddGuest, UpdateGuest
  <2> DEFINE rows == [Latest(t) EXCEPT ![p] = n]
  <2>2. rows \in GuestRows
    BY <1>1 DEF GuestRows
  <2>3. /\ storage' = rows /\ wanted' = rows /\ heard' = Tabs
        /\ guest' = [guest EXCEPT ![t] = rows] /\ pending' = [pending EXCEPT ![t] = Nothing]
    BY <2>1 DEF SetGuest
  <2> HIDE DEF rows
  <2>4. GuestType' /\ guest'[t] = rows /\ pending'[t] = Nothing
        /\ \A v \in Tabs \ {t} : pending'[v] = pending[v]
    BY <1>1, <2>2, <2>3 DEF GuestType
  <2>5. apart' => GuestSound'
    BY <1>2, <2>3, <2>4 DEF GuestInv, GuestSound, OneGuest
  <2> QED
    BY <2>4, <2>5 DEF GuestInv
<1> QED
  BY <1>3, <1>4, <1>5
\* The page is opened by a user who has logged in.
LEMMA UserOpens ==
  ASSUME GuestInv, NEW t \in Tabs, session[t] = "closed", NEW u \in Users,
         session' = [session EXCEPT ![t] = u], UNCHANGED <<stored, guestVars>>,
         apart' \in BOOLEAN, apart' => apart
  PROVE  GuestInv'
<1>1. u # "guest" /\ pending[t] = Nothing
  BY StorefrontAssumption DEF GuestInv
<1>2. GuestType' /\ UNCHANGED <<storage, guest, pending, heard, wanted>>
  BY DEF GuestInv, GuestType, guestVars
<1>3. session'[t] = u /\ \A v \in Tabs \ {t} : session'[v] = session[v]
  BY DEF GuestInv, GuestType
<1>4. ASSUME apart' PROVE GuestSound'
  <2>1. GuestSound
    BY <1>4 DEF GuestInv
  <2>2. (\A v \in Tabs : session'[v] # "guest") => storage = wanted
    BY <1>3, <2>1 DEF GuestSound
  <2>3. \A v \in Tabs : session'[v] = "guest" => session[v] = "guest"
    BY <1>1, <1>3
  <2> QED
    BY <1>2, <2>1, <2>2, <2>3 DEF GuestSound, OneGuest
<1> QED
  BY <1>1, <1>2, <1>3, <1>4 DEF GuestInv

\* Nothing of the guest cart changes.
LEMMA GuestUnchanged ==
  ASSUME GuestInv, UNCHANGED <<session, stored, guestVars, apart>> PROVE GuestInv'
<1>1. UNCHANGED <<session, stored, storage, guest, pending, heard, wanted, apart>>
  BY DEF guestVars
<1>2. GuestType' /\ (GuestSound => GuestSound')
  BY <1>1 DEF GuestInv, GuestType, GuestSound, OneGuest
<1> QED
  BY <1>1, <1>2 DEF GuestInv

\* At the start the copy holds what was left, and nobody shows it.
LEMMA GuestStarts == Init => GuestInv
<1> SUFFICES ASSUME Init PROVE GuestInv
  OBVIOUS
<1>1. /\ storage \in Rows /\ guest = [t \in Tabs |-> IF session[t] = "guest" THEN storage ELSE Empty]
      /\ pending = [t \in Tabs |-> Nothing] /\ heard = {} /\ wanted = storage
      /\ stored \in Users \cup {"guest"} /\ session \in [Tabs -> {stored, "closed"}]
      /\ apart = OneGuest(session)
  BY DEF Init
<1>2. Rows \subseteq GuestRows /\ Empty \in GuestRows
  BY StorefrontAssumption DEF Rows, GuestRows, Empty
<1>3. GuestType
  <2>1. apart \in BOOLEAN
    BY <1>1 DEF OneGuest
  <2>2. session \in [Tabs -> Users \cup {"guest", "closed"}]
    BY <1>1
  <2> QED
    BY <1>1, <1>2, <2>1, <2>2 DEF GuestType
<1>4. apart => GuestSound
  BY <1>1 DEF GuestSound
<1> QED
  BY <1>1, <1>3, <1>4 DEF GuestInv

\* Every step keeps GuestInv.
LEMMA GuestStep == ASSUME GuestInv, [Next]_vars PROVE GuestInv'
<1>1. GuestType
  BY DEF GuestInv
<1>2. ASSUME NEW t \in Tabs, NEW u \in Users, Login(t, u) PROVE GuestInv'
  <2>1. Latest(t) \in GuestRows
    BY <1>1, PendingRow
  <2> QED
    BY <1>1, <1>2, <2>1, GuestLeaves DEF Login, Enter, HideGuest, GuestType, OneGuest
<1>3. ASSUME NEW t \in Tabs, Logout(t) PROVE GuestInv'
  <2>1. session[t] # "guest" /\ guest[t] \in GuestRows
    BY <1>1, <1>3, StorefrontAssumption DEF Logout, GuestType
  <2>2. /\ session' = [session EXCEPT ![t] = "guest"] /\ stored' = "guest" /\ ShowGuest(t, guest[t])
        /\ apart' = (apart /\ pending[t] = Nothing /\ OneGuest(session'))
    BY <1>3 DEF Logout, Enter
  <2> QED
    BY <1>1, <2>1, <2>2, GuestEnters
<1>4. ASSUME NEW t \in Tabs, Close(t) PROVE GuestInv'
  <2>1. Empty \in GuestRows
    BY DEF Empty, GuestRows
  <2> QED
    BY <1>1, <1>4, <2>1, GuestLeaves DEF Close, CloseGuest, GuestType
<1>5. ASSUME NEW t \in Tabs, Open(t) PROVE GuestInv'
  <2>1. /\ session[t] = "closed" /\ session' = [session EXCEPT ![t] = stored] /\ UNCHANGED stored
        /\ apart' = (apart /\ OneGuest(session')) /\ stored \in Users \cup {"guest"}
    BY <1>1, <1>5 DEF Open, GuestType
  <2>2. CASE stored = "guest"
    <3>1. ShowGuest(t, Empty) /\ Empty \in GuestRows
      BY <1>5, <2>2 DEF Open, Empty, GuestRows
    <3> QED
      BY <1>1, <2>1, <2>2, <3>1, GuestEnters
  <2>3. CASE stored # "guest"
    <3>1. stored \in Users /\ UNCHANGED guestVars
      BY <1>5, <2>1, <2>3 DEF Open
    <3> QED
      BY <1>1, <2>1, <3>1, UserOpens
  <2> QED
    BY <2>2, <2>3
<1>6. ASSUME NEW t \in Tabs, GuestTab(t) PROVE GuestInv'
  BY <1>6, GuestTabKeeps DEF GuestTab, pageVars
<1>7. ASSUME NEW t \in Tabs,
             \/ ServeSync(t) \/ ShowAnswer(t) \/ SyncFails(t)
             \/ \E u \in Users : ServeLoad(t, u) \/ LoadFails(t, u)
      PROVE  GuestInv'
  BY <1>7, GuestUnchanged DEF ServeSync, ShowAnswer, SyncFails, ServeLoad, LoadFails
<1>8. ASSUME UNCHANGED clientVars PROVE GuestInv'
  BY <1>8, GuestUnchanged DEF clientVars, pageVars
<1>9. ASSUME NEW t \in Tabs, NEW k \in Calls,
             \/ HandleCheckout(t, k)
             \/ \E p \in Products : AddToCart(t, k, p)
                   \/ \E n \in 0..Available : UpdateCartQuantity(t, k, p, n)
      PROVE  GuestInv'
  BY <1>8, <1>9 DEF HandleCheckout, AddToCart, UpdateCartQuantity, Send
<1>10. ASSUME NEW k \in Calls, ItemDone(k) \/ CheckoutDone(k) PROVE GuestInv'
  BY <1>10, GuestUnchanged DEF ItemDone, CheckoutDone
<1>11. ASSUME NEW k \in Calls,
              \/ ServeItem(k) \/ PlaceOrder(k) \/ RefuseOrder(k) \/ StartYape(k) \/ ClearCart(k)
              \/ Fails(k)
       PROVE  GuestInv'
  BY <1>8, <1>11 DEF ServeItem, PlaceOrder, RefuseOrder, StartYape, ClearCart, Fails
<1>12. CASE UNCHANGED vars
  BY <1>8, <1>12 DEF vars
<1> QED
  BY <1>2, <1>3, <1>4, <1>5, <1>6, <1>7, <1>9, <1>10, <1>11, <1>12 DEF Next

\* What a guest put into the cart is there again after logging in and out and
\* after closing the page, as long as one tab at a time showed it.
THEOREM GuestCartsKept == Spec => []GuestCartKept
<1>1. GuestInv => GuestCartKept
  BY DEF GuestInv, GuestSound, GuestCartKept
<1> QED
  BY <1>1, GuestStarts, GuestStep, PTL DEF Spec
-----------------------------------------------------------------------------
(* The calls and the carts.                                                *)

ServerType ==
  /\ cart \in [Users -> Rows] /\ changes \in [Users -> Nat] /\ fills \in [Users -> Nat]
  /\ orders \in [Users -> Seq(Nat)]
  /\ calls \in [Calls -> {Free} \cup CallRecs]
  /\ broken \subseteq Users /\ excused \subseteq Users

Active(k) == calls[k].phase # "free"

\* A call that is not mixed is the only one of its user.
CallsAlone ==
  \A j, k \in Calls :
    j # k /\ Active(j) /\ Active(k) /\ calls[j].user = calls[k].user => calls[j].mixed

\* The cart is still as the user of such a call saw it.
CallsFresh ==
  \A k \in Calls :
    calls[k].phase \in {"set", "order", "start", "clear"} /\ ~calls[k].mixed /\ ~calls[k].behind =>
      cart[calls[k].user] = calls[k].items /\ fills[calls[k].user] = calls[k].fill

\* The answer that is on its way is as old as its stamp.
CallsServed ==
  \A k \in Calls :
    LET c == calls[k] IN
    /\ c.phase \in {"setDone", "cleared"} => c.stamp <= changes[c.user]
    /\ c.phase = "setDone" /\ ~c.mixed /\ ~c.behind =>
         c.stamp = changes[c.user] /\ cart[c.user] = [c.items EXCEPT ![c.product] = c.quantity]
    /\ c.phase = "cleared" /\ c.stamp = changes[c.user] => cart[c.user] = Empty

\* What is in the cart now was ordered only by a checkout that will empty it.
OrdersApart(u) ==
  /\ \A i, j \in DOMAIN orders[u] : orders[u][i] = orders[u][j] => i = j
  /\ \A i \in DOMAIN orders[u] : orders[u][i] <= fills[u]
  /\ u \notin broken /\ (\E i \in DOMAIN orders[u] : orders[u][i] = fills[u]) =>
       \E k \in Calls : calls[k].phase \in {"start", "clear"} /\ calls[k].user = u

ServerInv ==
  /\ ServerType /\ CallsAlone /\ CallsFresh /\ CallsServed
  /\ \A u \in Users \ excused : OrdersApart(u)

\* A call under way has a record.
LEMMA ActiveCall ==
  ASSUME ServerType, NEW k \in Calls, Active(k)
  PROVE  calls[k] \in CallRecs
BY DEF ServerType, Active, Free

\* A record is of a call under way.
LEMMA RecordIsActive == \A c \in CallRecs : c.phase # "free" /\ c # Free
BY DEF CallRecs, Phases, Free

\* A call goes on to its next phase.
LEMMA PhaseSet ==
  ASSUME ServerType, NEW k \in Calls, Active(k), NEW phase \in Phases,
         calls' = [calls EXCEPT ![k].phase = phase]
  PROVE  /\ calls' \in [Calls -> {Free} \cup CallRecs]
         /\ \A j \in Calls \ {k} : calls'[j] = calls[j]
         /\ calls'[k] = [calls[k] EXCEPT !.phase = phase]
<1>1. calls[k] \in CallRecs
  BY ActiveCall
<1>2. [calls[k] EXCEPT !.phase = phase] \in CallRecs
  BY <1>1 DEF CallRecs
<1> QED
  BY <1>2 DEF ServerType

\* Its answer gets a stamp as well.
LEMMA PhaseAndStampSet ==
  ASSUME ServerType, NEW k \in Calls, Active(k), NEW phase \in Phases, NEW stamp \in Nat,
         calls' = [calls EXCEPT ![k].phase = phase, ![k].stamp = stamp]
  PROVE  /\ calls' \in [Calls -> {Free} \cup CallRecs]
         /\ \A j \in Calls \ {k} : calls'[j] = calls[j]
         /\ calls'[k] \in CallRecs /\ calls'[k].phase = phase /\ calls'[k].stamp = stamp
         /\ calls'[k].user = calls[k].user /\ calls'[k].product = calls[k].product
         /\ calls'[k].quantity = calls[k].quantity /\ calls'[k].items = calls[k].items
         /\ calls'[k].mixed = calls[k].mixed /\ calls'[k].behind = calls[k].behind
<1>1. calls[k] \in CallRecs
  BY ActiveCall
<1> DEFINE c == [calls[k] EXCEPT !.phase = phase]
           d == [c EXCEPT !.stamp = stamp]
<1>2. c \in CallRecs /\ c.phase = phase /\ c.user = calls[k].user /\ c.product = calls[k].product
      /\ c.quantity = calls[k].quantity /\ c.items = calls[k].items
      /\ c.mixed = calls[k].mixed /\ c.behind = calls[k].behind
  BY <1>1 DEF CallRecs
<1> HIDE DEF c
<1>3. d \in CallRecs /\ d.phase = c.phase /\ d.stamp = stamp /\ d.user = c.user /\ d.product = c.product
      /\ d.quantity = c.quantity /\ d.items = c.items /\ d.mixed = c.mixed /\ d.behind = c.behind
  BY <1>2 DEF CallRecs
<1>4. calls' = [calls EXCEPT ![k] = d]
  BY DEF ServerType, c
<1> HIDE DEF d
<1>5. calls'[k] = d /\ \A j \in Calls \ {k} : calls'[j] = calls[j]
  BY <1>4 DEF ServerType
<1>6. calls' \in [Calls -> {Free} \cup CallRecs]
  BY <1>3, <1>4 DEF ServerType
<1> QED
  BY <1>2, <1>3, <1>5, <1>6
\* Some calls are over, and the carts stay as they are.  A checkout that was
\* still to empty the cart is over only by failing.
LEMMA FreesKeep ==
  ASSUME ServerInv, calls' \in [Calls -> {Free} \cup CallRecs],
         \A k \in Calls : calls'[k] = Free \/ calls'[k] = calls[k],
         UNCHANGED <<cart, changes, fills, orders>>,
         excused' \subseteq Users, excused \subseteq excused',
         broken' \subseteq Users, broken \subseteq broken',
         \A k \in Calls : calls[k].phase \in {"start", "clear"} /\ calls'[k] # calls[k] =>
           calls[k].user \in broken'
  PROVE  ServerInv'
<1>1. Free.phase = "free"
  BY DEF Free
<1>2. ServerType'
  BY DEF ServerInv, ServerType
<1>3. \A k \in Calls : calls'[k].phase # "free" => calls'[k] = calls[k]
  BY <1>1
<1>4. CallsAlone'
  BY <1>3 DEF ServerInv, CallsAlone, Active
<1>5. CallsFresh'
  BY <1>3 DEF ServerInv, CallsFresh
<1>6. CallsServed'
  BY <1>3 DEF ServerInv, CallsServed
<1>7. ASSUME NEW u \in Users \ excused' PROVE OrdersApart(u)'
  <2>1. OrdersApart(u)
    BY DEF ServerInv
  <2> QED
    BY <2>1 DEF OrdersApart
<1> QED
  BY <1>2, <1>4, <1>5, <1>6, <1>7 DEF ServerInv

\* The cart of a call's user is changed: upsertItem, removeItem or clearCart.
LEMMA WriteKeeps ==
  ASSUME ServerInv, NEW k \in Calls, calls[k].phase \in {"set", "clear"}, NEW rows \in Rows,
         cart' = [cart EXCEPT ![calls[k].user] = rows],
         changes' = [changes EXCEPT ![calls[k].user] = @ + 1],
         \/ fills' = [fills EXCEPT ![calls[k].user] = @ + 1]
         \/ fills' = fills /\ calls[k].phase = "set",
         UNCHANGED <<orders, excused>>, broken' \subseteq Users, broken \subseteq broken',
         calls' \in [Calls -> {Free} \cup CallRecs],
         \A j \in Calls \ {k} : calls'[j] = calls[j],
         \/ calls'[k] = Free
         \/ /\ calls'[k].phase \in {"setDone", "cleared"}
            /\ calls'[k].stamp = changes'[calls[k].user]
            /\ calls'[k].user = calls[k].user /\ calls'[k].product = calls[k].product
            /\ calls'[k].quantity = calls[k].quantity /\ calls'[k].items = calls[k].items
            /\ calls'[k].mixed = calls[k].mixed /\ calls'[k].behind = calls[k].behind
            /\ calls'[k].phase = "setDone" =>
                 rows = [cart[calls[k].user] EXCEPT ![calls[k].product] = calls[k].quantity]
            /\ calls'[k].phase = "cleared" => rows = Empty
  PROVE  ServerInv'
<1> DEFINE u == calls[k].user
<1>0. Free.phase = "free"
  BY DEF Free
<1>1. calls[k] \in CallRecs /\ Active(k) /\ u \in Users
  BY ActiveCall DEF ServerInv, Active, CallRecs
<1>2. /\ cart'[u] = rows /\ changes'[u] = changes[u] + 1 /\ changes[u] \in Nat
      /\ \A v \in Users \ {u} : cart'[v] = cart[v] /\ changes'[v] = changes[v] /\ fills'[v] = fills[v]
      /\ fills'[u] = fills[u] + 1 \/ (fills'[u] = fills[u] /\ calls[k].phase = "set")
  BY <1>1 DEF ServerInv, ServerType
<1>3. ServerType'
  BY <1>1, <1>2 DEF ServerInv, ServerType
<1>4. \A j \in Calls : calls[j].phase # "free" => calls[j].user \in Users
  BY ActiveCall DEF ServerInv, Active, CallRecs
<1>5. \A j \in Calls \ {k} : calls[j].phase # "free" /\ calls[j].user = u => calls[j].mixed
  BY <1>1 DEF ServerInv, CallsAlone, Active
<1>6. CallsAlone'
  BY <1>0, <1>1 DEF ServerInv, CallsAlone, Active
<1>7. CallsFresh'
  <2>1. SUFFICES ASSUME NEW j \in Calls, calls'[j].phase \in {"set", "order", "start", "clear"},
                        ~calls'[j].mixed, ~calls'[j].behind
                 PROVE  cart'[calls'[j].user] = calls'[j].items /\ fills'[calls'[j].user] = calls'[j].fill
    BY DEF CallsFresh
  <2>2. j # k /\ calls'[j] = calls[j]
    BY <1>0, <2>1
  <2>3. calls[j].user # u /\ calls[j].user \in Users
    BY <1>4, <1>5, <2>1, <2>2
  <2> QED
    BY <1>2, <2>1, <2>2, <2>3 DEF ServerInv, CallsFresh
<1>8. CallsServed'
  <2>1. SUFFICES ASSUME NEW j \in Calls, calls'[j].phase \in {"setDone", "cleared"}
                 PROVE  LET c == calls'[j] IN
                        /\ c.stamp <= changes'[c.user]
                        /\ c.phase = "setDone" /\ ~c.mixed /\ ~c.behind =>
                             /\ c.stamp = changes'[c.user]
                             /\ cart'[c.user] = [c.items EXCEPT ![c.product] = c.quantity]
                        /\ c.phase = "cleared" /\ c.stamp = changes'[c.user] => cart'[c.user] = Empty
    BY DEF CallsServed
  <2>2. CASE j = k
    <3>1. /\ calls'[k].stamp = changes'[u] /\ calls'[k].user = u
          /\ calls'[k].product = calls[k].product /\ calls'[k].quantity = calls[k].quantity
          /\ calls'[k].items = calls[k].items
          /\ calls'[k].mixed = calls[k].mixed /\ calls'[k].behind = calls[k].behind
          /\ calls'[k].phase = "setDone" =>
               rows = [cart[u] EXCEPT ![calls[k].product] = calls[k].quantity]
          /\ calls'[k].phase = "cleared" => rows = Empty
      BY <1>0, <2>1, <2>2
    <3>2. ~calls[k].mixed /\ ~calls[k].behind => cart[u] = calls[k].items
      BY DEF ServerInv, CallsFresh
    <3>3. calls'[k].stamp <= changes'[u]
      BY <1>2, <3>1
    <3> HIDE DEF u
    <3> QED
      BY <1>2, <2>2, <3>1, <3>2, <3>3
  <2>3. CASE j # k /\ calls[j].user = u
    <3>1. calls'[j] = calls[j] /\ calls[j].mixed /\ calls[j].stamp <= changes[u] /\ calls[j].stamp \in Nat
      BY <1>5, <2>1, <2>3, ActiveCall DEF ServerInv, CallsServed, Active, CallRecs
    <3> QED
      BY <1>2, <2>3, <3>1
  <2>4. CASE j # k /\ calls[j].user # u
    <3>1. calls'[j] = calls[j] /\ calls[j].user \in Users \ {u}
      BY <1>4, <2>1, <2>4
    <3> QED
      BY <1>2, <2>1, <3>1 DEF ServerInv, CallsServed
  <2> QED
    BY <2>2, <2>3, <2>4
<1>9. ASSUME NEW v \in Users \ excused PROVE OrdersApart(v)'
  <2>1. OrdersApart(v) /\ orders[v] \in Seq(Nat)
    BY DEF ServerInv, ServerType
  <2>2. CASE v = u /\ fills'[u] = fills[u] + 1
    <3>1. \A i \in DOMAIN orders[v] : orders[v][i] \in Nat /\ orders[v][i] <= fills[v]
      BY <2>1 DEF OrdersApart
    <3>2. fills[v] \in Nat
      BY DEF ServerInv, ServerType
    <3>3. \A i \in DOMAIN orders[v] : orders[v][i] <= fills'[v] /\ orders[v][i] # fills'[v]
      BY <2>2, <3>1, <3>2
    <3> QED
      BY <2>1, <3>3 DEF OrdersApart
  <2>3. CASE ~(v = u /\ fills'[u] = fills[u] + 1)
    <3>1. fills'[v] = fills[v]
      BY <1>2, <2>3
    <3>2. \A j \in Calls : calls[j].phase \in {"start", "clear"} /\ calls[j].user = v =>
            calls'[j] = calls[j]
      BY <1>2, <2>3
    <3> QED
      BY <2>1, <3>1, <3>2 DEF OrdersApart
  <2> QED
    BY <2>2, <2>3
<1> QED
  BY <1>3, <1>6, <1>7, <1>8, <1>9 DEF ServerInv

\* The order of a checkout is placed.
LEMMA OrderKeeps ==
  ASSUME ServerInv, NEW k \in Calls, calls[k].phase = "order", Excuse(k),
         CreateOrder(calls[k].user, calls[k].fill),
         calls' \in [Calls -> {Free} \cup CallRecs],
         \A j \in Calls \ {k} : calls'[j] = calls[j],
         \/ calls'[k] = Free /\ broken' = broken \cup {calls[k].user}
         \/ /\ broken' = broken /\ calls'[k].phase \in {"start", "clear"}
            /\ calls'[k].user = calls[k].user
            /\ calls'[k].items = calls[k].items /\ calls'[k].fill = calls[k].fill
            /\ calls'[k].mixed = calls[k].mixed /\ calls'[k].behind = calls[k].behind
  PROVE  ServerInv'
<1> DEFINE u == calls[k].user
<1>0. Free.phase = "free"
  BY DEF Free
<1>1. calls[k] \in CallRecs /\ Active(k) /\ u \in Users /\ calls[k].fill \in Nat
  BY ActiveCall DEF ServerInv, Active, CallRecs
<1>2. UNCHANGED <<cart, changes, fills>> /\ orders' = [orders EXCEPT ![u] = Append(@, calls[k].fill)]
  BY DEF CreateOrder
<1>3. ServerType'
  <2>1. orders' \in [Users -> Seq(Nat)]
    BY <1>1, <1>2 DEF ServerInv, ServerType
  <2> QED
    BY <1>1, <1>2, <2>1 DEF ServerInv, ServerType, Excuse
<1>4. CallsAlone'
  BY <1>0, <1>1 DEF ServerInv, CallsAlone, Active
<1>5. CallsFresh'
  BY <1>0, <1>2 DEF ServerInv, CallsFresh
<1>6. CallsServed'
  <2>1. \A j \in Calls : calls'[j].phase \in {"setDone", "cleared"} => calls'[j] = calls[j]
    BY <1>0
  <2> QED
    BY <1>2, <2>1 DEF ServerInv, CallsServed
<1>7. ASSUME NEW v \in Users \ excused' PROVE OrdersApart(v)'
  <2>1. OrdersApart(v)
    BY <1>7 DEF ServerInv, Excuse
  <2>2. CASE v # u
    <3>1. orders'[v] = orders[v]
      BY <1>2, <2>2 DEF ServerInv, ServerType
    <3>2. \A j \in Calls : calls[j].phase \in {"start", "clear"} /\ calls[j].user = v =>
            calls'[j] = calls[j]
      BY <2>2
    <3>3. v \notin broken' => v \notin broken
      OBVIOUS
    <3>4. v \notin broken' /\ (\E i \in DOMAIN orders[v] : orders[v][i] = fills[v]) =>
            \E j \in Calls : calls'[j].phase \in {"start", "clear"} /\ calls'[j].user = v
      BY <2>1, <3>2, <3>3 DEF OrdersApart
    <3>5. fills' = fills
      BY <1>2
    <3>6. /\ \A i, j \in DOMAIN orders[v] : orders[v][i] = orders[v][j] => i = j
          /\ \A i \in DOMAIN orders[v] : orders[v][i] <= fills[v]
      BY <2>1 DEF OrdersApart
    <3> QED
      BY <3>1, <3>4, <3>5, <3>6 DEF OrdersApart
  <2>3. CASE v = u
    <3>1. ~calls[k].mixed /\ ~calls[k].behind /\ v \notin broken
      BY <1>7, <2>3 DEF Excuse
    <3>2. calls[k].fill = fills[v]
      BY <2>3, <3>1 DEF ServerInv, CallsFresh
    <3>3. \A j \in Calls : calls[j].phase \in {"start", "clear"} => calls[j].user # v
      BY <1>1, <2>3, <3>1 DEF ServerInv, CallsAlone, Active
    <3>4. \A i \in DOMAIN orders[v] : orders[v][i] # fills[v]
      BY <2>1, <3>1, <3>3 DEF OrdersApart
    <3>5. /\ orders[v] \in Seq(Nat) /\ orders'[v] = Append(orders[v], fills[v]) /\ fills[v] \in Nat
      BY <1>2, <2>3, <3>2 DEF ServerInv, ServerType
    <3>6. /\ DOMAIN orders'[v] = DOMAIN orders[v] \cup {Len(orders[v]) + 1}
          /\ \A i \in DOMAIN orders[v] : orders'[v][i] = orders[v][i]
          /\ orders'[v][Len(orders[v]) + 1] = fills[v]
      BY <3>5
    <3>7. \A i, j \in DOMAIN orders'[v] : orders'[v][i] = orders'[v][j] => i = j
      BY <2>1, <3>4, <3>6 DEF OrdersApart
    <3>8. \A i \in DOMAIN orders'[v] : orders'[v][i] <= fills'[v]
      BY <1>2, <2>1, <3>5, <3>6 DEF OrdersApart
    <3>9. v \notin broken' => calls'[k].phase \in {"start", "clear"} /\ calls'[k].user = v
      BY <2>3
    <3> QED
      BY <3>7, <3>8, <3>9 DEF OrdersApart
  <2> QED
    BY <2>2, <2>3
<1> QED
  BY <1>3, <1>4, <1>5, <1>6, <1>7 DEF ServerInv

\* A call is marked as mixed.
LEMMA MixedSet ==
  ASSUME NEW c \in CallRecs, NEW b \in BOOLEAN
  PROVE  LET d == [c EXCEPT !.mixed = b] IN
         /\ d \in CallRecs /\ d.phase = c.phase /\ d.user = c.user /\ d.product = c.product
         /\ d.quantity = c.quantity /\ d.items = c.items /\ d.fill = c.fill /\ d.stamp = c.stamp
         /\ d.behind = c.behind /\ d.mixed = b
BY DEF CallRecs

\* A click whose call carries what its tab shows.
LEMMA SendKeeps ==
  ASSUME ServerInv, NEW t \in Tabs, shown[t] \in Screens, NEW k \in Calls,
         NEW phase \in {"set", "order"}, NEW p \in Products, NEW n \in 0..Available,
         Send(t, k, phase, p, n)
  PROVE  ServerInv'
<1> DEFINE u == session[t]
           mixed == CallsOf(u) # {}
           behind == shown[t].items # cart[u] \/ shown[t].fill # fills[u]
           new == [phase |-> phase, tab |-> t, user |-> u, product |-> p, quantity |-> n,
                   items |-> shown[t].items, fill |-> shown[t].fill, stamp |-> 0,
                   mixed |-> mixed, behind |-> behind]
<1>0. Free.phase = "free"
  BY DEF Free
<1>1. /\ u \in Users /\ calls[k].phase = "free"
      /\ UNCHANGED <<cart, changes, fills, orders, broken, excused>>
      /\ calls' = [j \in Calls |-> IF j = k THEN new
                     ELSE IF j \in CallsOf(u) THEN [calls[j] EXCEPT !.mixed = TRUE] ELSE calls[j]]
  BY DEF Send, serverVars
<1>2. mixed \in BOOLEAN /\ behind \in BOOLEAN
  OBVIOUS
<1>3. (~mixed <=> \A j \in Calls : Active(j) => calls[j].user # u)
      /\ (~behind <=> shown[t].items = cart[u] /\ shown[t].fill = fills[u])
  BY DEF CallsOf, Active
<1>4. shown[t].items \in Rows /\ shown[t].fill \in Nat
  BY DEF Screens
<1> HIDE DEF mixed, behind
<1>5. /\ new \in CallRecs /\ new.phase = phase /\ new.user = u /\ new.items = shown[t].items
      /\ new.fill = shown[t].fill /\ new.mixed = mixed /\ new.behind = behind
  BY <1>1, <1>2, <1>4 DEF CallRecs, Phases
<1> HIDE DEF new
<1>6. calls'[k] = new
  BY <1>1
<1>7. ASSUME NEW j \in Calls \ {k}
      PROVE  \/ calls'[j] = calls[j] /\ ~Active(j) /\ calls[j] = Free
             \/ calls'[j] = calls[j] /\ Active(j) /\ calls[j].user # u /\ calls[j] \in CallRecs
             \/ /\ Active(j) /\ calls[j].user = u /\ calls'[j] \in CallRecs
                /\ calls'[j].phase = calls[j].phase /\ calls'[j].user = calls[j].user
                /\ calls'[j].mixed = TRUE /\ calls'[j].stamp = calls[j].stamp
  <2>1. CASE ~Active(j)
    BY <1>1, <2>1, RecordIsActive DEF CallsOf, Active, ServerInv, ServerType
  <2>2. CASE Active(j) /\ calls[j].user # u
    BY <1>1, <2>2, ActiveCall DEF CallsOf, ServerInv
  <2>3. CASE Active(j) /\ calls[j].user = u
    <3>1. calls'[j] = [calls[j] EXCEPT !.mixed = TRUE] /\ calls[j] \in CallRecs
      BY <1>1, <2>3, ActiveCall DEF CallsOf, Active, ServerInv
    <3> QED
      BY <2>3, <3>1, MixedSet
  <2> QED
    BY <2>1, <2>2, <2>3
<1>8. ServerType'
  <2>1. calls' \in [Calls -> {Free} \cup CallRecs]
    <3>1. \A j \in Calls : calls'[j] \in {Free} \cup CallRecs
      BY <1>5, <1>6, <1>7
    <3>2. calls' = [j \in Calls |-> calls'[j]]
      BY <1>1
    <3> QED
      BY <3>1, <3>2
  <2> QED
    BY <1>1, <2>1 DEF ServerInv, ServerType
<1>9. CallsAlone'
  <2>1. SUFFICES ASSUME NEW i \in Calls, NEW j \in Calls, i # j, calls'[i].phase # "free",
                        calls'[j].phase # "free", calls'[i].user = calls'[j].user
                 PROVE  calls'[i].mixed
    BY DEF CallsAlone, Active
  <2>2. CASE i = k
    <3>1. Active(j) /\ calls[j].user = u
      BY <1>0, <1>5, <1>6, <1>7, <2>1, <2>2
    <3> QED
      BY <1>3, <1>5, <1>6, <2>2, <3>1
  <2>3. CASE i # k /\ j = k
    BY <1>0, <1>5, <1>6, <1>7, <2>1, <2>3
  <2>4. CASE i # k /\ j # k
    BY <1>0, <1>7, <2>1, <2>4 DEF ServerInv, CallsAlone
  <2> QED
    BY <2>2, <2>3, <2>4
<1>10. CallsFresh'
  <2>1. SUFFICES ASSUME NEW j \in Calls, calls'[j].phase \in {"set", "order", "start", "clear"},
                        ~calls'[j].mixed, ~calls'[j].behind
                 PROVE  cart'[calls'[j].user] = calls'[j].items /\ fills'[calls'[j].user] = calls'[j].fill
    BY DEF CallsFresh
  <2>2. CASE j = k
    BY <1>1, <1>3, <1>5, <1>6, <2>1, <2>2
  <2>3. CASE j # k
    <3>1. calls'[j] = calls[j]
      BY <1>7, <2>1, <2>3
    <3> QED
      BY <1>1, <2>1, <3>1 DEF ServerInv, CallsFresh
  <2> QED
    BY <2>2, <2>3
<1>11. CallsServed'
  <2>1. SUFFICES ASSUME NEW j \in Calls, calls'[j].phase \in {"setDone", "cleared"}
                 PROVE  LET c == calls'[j] IN
                        /\ c.stamp <= changes'[c.user]
                        /\ c.phase = "setDone" /\ ~c.mixed /\ ~c.behind =>
                             /\ c.stamp = changes'[c.user]
                             /\ cart'[c.user] = [c.items EXCEPT ![c.product] = c.quantity]
                        /\ c.phase = "cleared" /\ c.stamp = changes'[c.user] => cart'[c.user] = Empty
    BY DEF CallsServed
  <2>2. j # k
    BY <1>5, <1>6, <2>1
  <2>3. calls'[j] = calls[j] \/ (calls'[j].mixed /\ calls'[j].phase = calls[j].phase
          /\ calls'[j].user = calls[j].user /\ calls'[j].stamp = calls[j].stamp)
    BY <1>7, <2>2
  <2> QED
    BY <1>1, <2>1, <2>3 DEF ServerInv, CallsServed
<1>12. ASSUME NEW v \in Users \ excused' PROVE OrdersApart(v)'
  <2>1. OrdersApart(v)
    BY <1>1, <1>12 DEF ServerInv
  <2>2. \A j \in Calls : calls[j].phase \in {"start", "clear"} =>
          calls'[j].phase = calls[j].phase /\ calls'[j].user = calls[j].user
    BY <1>1, <1>7
  <2> QED
    BY <1>1, <2>1, <2>2 DEF OrdersApart
<1> QED
  BY <1>8, <1>9, <1>10, <1>11, <1>12 DEF ServerInv

\* The payment of a checkout is started, or could not be.
LEMMA StartKeeps ==
  ASSUME ServerInv, NEW k \in Calls, StartYape(k)
  PROVE  ServerInv'
<1>1. calls[k].phase = "start" /\ UNCHANGED <<cart, changes, fills, orders, broken, excused>>
      /\ calls' = [calls EXCEPT ![k].phase = "clear"]
  BY DEF StartYape, Step, serverVars
<1>2. Active(k) /\ ServerType /\ calls[k] \in CallRecs
  BY <1>1, ActiveCall DEF ServerInv, Active
<1>3. /\ calls' \in [Calls -> {Free} \cup CallRecs]
      /\ \A j \in Calls \ {k} : calls'[j] = calls[j]
      /\ calls'[k] = [calls[k] EXCEPT !.phase = "clear"]
  BY <1>1, <1>2, PhaseSet DEF Phases
<1>4. /\ calls'[k].phase = "clear" /\ calls'[k].user = calls[k].user
      /\ calls'[k].items = calls[k].items /\ calls'[k].fill = calls[k].fill
      /\ calls'[k].mixed = calls[k].mixed /\ calls'[k].behind = calls[k].behind
  BY <1>2, <1>3 DEF CallRecs
<1>5. ServerType'
  BY <1>1, <1>2, <1>3 DEF ServerType
<1>6. CallsAlone'
  BY <1>1, <1>3, <1>4 DEF ServerInv, CallsAlone, Active
<1>7. CallsFresh'
  <2>1. SUFFICES ASSUME NEW j \in Calls, calls'[j].phase \in {"set", "order", "start", "clear"},
                        ~calls'[j].mixed, ~calls'[j].behind
                 PROVE  cart'[calls'[j].user] = calls'[j].items /\ fills'[calls'[j].user] = calls'[j].fill
    BY DEF CallsFresh
  <2>2. CASE j = k
    BY <1>1, <1>4, <2>1, <2>2 DEF ServerInv, CallsFresh
  <2>3. CASE j # k
    BY <1>1, <1>3, <2>1, <2>3 DEF ServerInv, CallsFresh
  <2> QED
    BY <2>2, <2>3
<1>8. CallsServed'
  <2>1. \A j \in Calls : calls'[j].phase \in {"setDone", "cleared"} => calls'[j] = calls[j]
    BY <1>3, <1>4
  <2> QED
    BY <1>1, <2>1 DEF ServerInv, CallsServed
<1>9. ASSUME NEW v \in Users \ excused' PROVE OrdersApart(v)'
  <2>1. OrdersApart(v)
    BY <1>1, <1>9 DEF ServerInv
  <2>2. \A j \in Calls : calls[j].phase \in {"start", "clear"} =>
          calls'[j].phase \in {"start", "clear"} /\ calls'[j].user = calls[j].user
    BY <1>3, <1>4
  <2> QED
    BY <1>1, <2>1, <2>2 DEF OrdersApart
<1> QED
  BY <1>5, <1>6, <1>7, <1>8, <1>9 DEF ServerInv

\* A call's row is written, and so is the deletion of all rows.
LEMMA ItemWritten ==
  ASSUME ServerInv, NEW k \in Calls, calls[k].phase = "set", WriteItem(k)
  PROVE  LET c == calls[k]
             rows == [cart[c.user] EXCEPT ![c.product] = c.quantity] IN
         /\ c \in CallRecs /\ rows \in Rows /\ cart' = [cart EXCEPT ![c.user] = rows]
         /\ changes' = [changes EXCEPT ![c.user] = @ + 1] /\ changes'[c.user] \in Nat
         /\ UNCHANGED <<fills, orders>>
<1>1. calls[k] \in CallRecs
  BY ActiveCall DEF ServerInv, Active
<1>2. [cart[calls[k].user] EXCEPT ![calls[k].product] = calls[k].quantity] \in Rows
  BY <1>1 DEF ServerInv, ServerType, CallRecs, Rows
<1>3. changes'[calls[k].user] \in Nat
  BY <1>1 DEF WriteItem, ServerInv, ServerType, CallRecs
<1> QED
  BY <1>1, <1>2, <1>3 DEF WriteItem, ServerInv, ServerType, CallRecs

\* What DELETE /cart leaves.
LEMMA RowsDeleted ==
  ASSUME ServerInv, NEW k \in Calls, calls[k].phase = "clear", DeleteRows(k)
  PROVE  LET c == calls[k] IN
         /\ c \in CallRecs /\ Empty \in Rows /\ cart' = [cart EXCEPT ![c.user] = Empty]
         /\ changes' = [changes EXCEPT ![c.user] = @ + 1] /\ changes'[c.user] \in Nat
         /\ fills' = [fills EXCEPT ![c.user] = @ + 1] /\ UNCHANGED orders
<1>1. calls[k] \in CallRecs
  BY ActiveCall DEF ServerInv, Active
<1>2. Empty \in Rows
  BY StorefrontAssumption DEF Empty, Rows
<1>3. changes'[calls[k].user] \in Nat
  BY <1>1 DEF DeleteRows, ServerInv, ServerType, CallRecs
<1> QED
  BY <1>1, <1>2, <1>3 DEF DeleteRows

\* A call is over.
LEMMA CallFreed ==
  ASSUME ServerType, NEW k \in Calls, Free1(k)
  PROVE  /\ calls' \in [Calls -> {Free} \cup CallRecs] /\ calls'[k] = Free
         /\ \A j \in Calls \ {k} : calls'[j] = calls[j]
BY DEF ServerType, Free1

\* A call fails, and its user counts as broken.
LEMMA FailKeeps ==
  ASSUME ServerInv, NEW k \in Calls, Fails(k)
  PROVE  ServerInv'
<1> DEFINE c == calls[k]
<1>1. /\ c.phase \in {"set", "order", "clear", "start"} /\ Free1(k)
      /\ broken' = broken \cup {c.user}
  BY DEF Fails
<1>2. /\ calls' \in [Calls -> {Free} \cup CallRecs] /\ calls'[k] = Free
      /\ \A j \in Calls \ {k} : calls'[j] = calls[j]
  BY <1>1, CallFreed DEF ServerInv
<1>3. c \in CallRecs /\ broken' \subseteq Users /\ broken \subseteq broken'
  BY <1>1, ActiveCall DEF ServerInv, ServerType, Active, CallRecs
<1>4. CASE UNCHANGED serverVars
  <2>1. excused' \subseteq Users /\ excused \subseteq excused'
    BY <1>3 DEF Fails, Excuse, ServerInv, ServerType, CallRecs
  <2> QED
    BY <1>1, <1>2, <1>3, <1>4, <2>1, FreesKeep DEF serverVars
<1>5. CASE c.phase = "set" /\ WriteItem(k)
  <2>1. UNCHANGED excused
    BY <1>5 DEF Fails
  <2> QED
    BY <1>2, <1>3, <1>5, <2>1, ItemWritten, WriteKeeps
<1>6. CASE c.phase = "clear" /\ DeleteRows(k)
  <2>1. UNCHANGED excused
    BY <1>6 DEF Fails
  <2> QED
    BY <1>2, <1>3, <1>6, <2>1, RowsDeleted, WriteKeeps
<1>7. CASE c.phase = "order" /\ CreateOrder(c.user, c.fill)
  <2>1. Excuse(k)
    BY <1>7 DEF Fails
  <2> QED
    BY <1>1, <1>2, <1>7, <2>1, OrderKeeps
<1> QED
  BY <1>4, <1>5, <1>6, <1>7 DEF Fails

-----------------------------------------------------------------------------
(* The pages.                                                              *)

PageType ==
  /\ session \in [Tabs -> Users \cup {"guest", "closed"}]
  /\ shown \in [Tabs -> Screens]
  /\ syncing \subseteq {t \in Tabs : session[t] \in Users}
  /\ asked \in [Tabs -> [Users -> Nat]]
  /\ answers \in [Tabs -> SUBSET Answers]

Served == {"setDone", "cleared"}

\* What a tab shows is no newer than its age says.
Aged(t, u) ==
  /\ shown[t].last <= changes[u]
  /\ shown[t].last = changes[u] => shown[t].items = cart[u]

\* The news of the last change has come to the tab, or is on its way.
Informed(t, u) ==
  u \notin broken =>
    \/ t \in syncing \/ asked[t][u] > 0
    \/ \E a \in answers[t] : a.user = u /\ a.stamp = changes[u]
    \/ \E k \in Calls : calls[k].phase \in Served /\ calls[k].user = u
    \/ shown[t].newest >= changes[u]

PageSound(t) ==
  /\ \A a \in answers[t] :
       a.stamp <= changes[a.user] /\ (a.stamp = changes[a.user] => a.items = cart[a.user])
  /\ session[t] = "closed" =>
       /\ shown[t] = Blank /\ asked[t] = None /\ answers[t] = {}
       /\ \A k \in Calls : Active(k) => calls[k].tab # t
  /\ session[t] \in Users => Aged(t, session[t]) /\ Informed(t, session[t])

ScreenInv == PageType /\ \A t \in Tabs : PageSound(t)

\* Every step keeps ServerInv.
LEMMA ServerStep == ASSUME ServerInv, PageType, [Next]_vars PROVE ServerInv'
<1>1. ServerType /\ \A t \in Tabs : shown[t] \in Screens
  BY DEF ServerInv, PageType
<1>2. ASSUME NEW t \in Tabs, NEW k \in Calls, NEW p \in Products, AddToCart(t, k, p)
      PROVE  ServerInv'
  <2>1. shown[t].items[p] + 1 \in 0..Available
    BY <1>1, <1>2, StorefrontAssumption DEF AddToCart, Screens, Rows
  <2> QED
    BY <1>1, <1>2, <2>1, SendKeeps DEF AddToCart
<1>3. ASSUME NEW t \in Tabs, NEW k \in Calls, NEW p \in Products, NEW n \in 0..Available,
             UpdateCartQuantity(t, k, p, n)
      PROVE  ServerInv'
  BY <1>1, <1>3, SendKeeps DEF UpdateCartQuantity
<1>4. ASSUME NEW t \in Tabs, NEW k \in Calls, HandleCheckout(t, k) PROVE ServerInv'
  <2>1. 0 \in 0..Available
    BY StorefrontAssumption
  <2> QED
    BY <1>1, <1>4, <2>1, SendKeeps DEF HandleCheckout
<1>5. ASSUME NEW k \in Calls, ServeItem(k) PROVE ServerInv'
  <2>1. /\ calls[k].phase = "set" /\ Active(k) /\ WriteItem(k) /\ UNCHANGED <<broken, excused>>
        /\ calls' = [calls EXCEPT ![k].phase = "setDone", ![k].stamp = changes'[calls[k].user]]
    BY <1>5 DEF ServeItem, Active
  <2>2. changes'[calls[k].user] \in Nat
    BY <2>1, ItemWritten
  <2> DEFINE stamp == changes'[calls[k].user]
             rows == [cart[calls[k].user] EXCEPT ![calls[k].product] = calls[k].quantity]
  <2>3. /\ calls' \in [Calls -> {Free} \cup CallRecs]
        /\ \A j \in Calls \ {k} : calls'[j] = calls[j]
        /\ calls'[k] \in CallRecs /\ calls'[k].phase = "setDone" /\ calls'[k].stamp = stamp
        /\ calls'[k].user = calls[k].user /\ calls'[k].product = calls[k].product
        /\ calls'[k].quantity = calls[k].quantity /\ calls'[k].items = calls[k].items
        /\ calls'[k].mixed = calls[k].mixed /\ calls'[k].behind = calls[k].behind
    <3> HIDE DEF stamp
    <3>1. stamp \in Nat /\ "setDone" \in Phases
      BY <2>2 DEF stamp, Phases
    <3>2. calls' = [calls EXCEPT ![k].phase = "setDone", ![k].stamp = stamp]
      BY <2>1 DEF stamp
    <3>3. Active(k) /\ ServerType
      BY <1>1, <2>1
    <3> QED
      BY <3>1, <3>2, <3>3, PhaseAndStampSet
  <2>4. /\ rows \in Rows /\ cart' = [cart EXCEPT ![calls[k].user] = rows]
        /\ changes' = [changes EXCEPT ![calls[k].user] = @ + 1] /\ UNCHANGED <<fills, orders>>
    BY <2>1, ItemWritten
  <2>5. broken' \subseteq Users /\ broken \subseteq broken'
    BY <1>1, <2>1 DEF ServerType
  <2>6. calls'[k].phase = "setDone" =>
          rows = [cart[calls[k].user] EXCEPT ![calls[k].product] = calls[k].quantity]
    OBVIOUS
  <2> HIDE DEF rows
  <2> QED
    BY <2>1, <2>3, <2>4, <2>5, <2>6, WriteKeeps
<1>6. ASSUME NEW k \in Calls, ClearCart(k) PROVE ServerInv'
  <2>1. /\ calls[k].phase = "clear" /\ Active(k) /\ DeleteRows(k) /\ UNCHANGED <<broken, excused>>
        /\ calls' = [calls EXCEPT ![k].phase = "cleared", ![k].stamp = changes'[calls[k].user]]
    BY <1>6 DEF ClearCart, Active
  <2>2. changes'[calls[k].user] \in Nat
    BY <2>1, RowsDeleted
  <2> DEFINE stamp == changes'[calls[k].user]
  <2>3. /\ calls' \in [Calls -> {Free} \cup CallRecs]
        /\ \A j \in Calls \ {k} : calls'[j] = calls[j]
        /\ calls'[k] \in CallRecs /\ calls'[k].phase = "cleared" /\ calls'[k].stamp = stamp
        /\ calls'[k].user = calls[k].user /\ calls'[k].product = calls[k].product
        /\ calls'[k].quantity = calls[k].quantity /\ calls'[k].items = calls[k].items
        /\ calls'[k].mixed = calls[k].mixed /\ calls'[k].behind = calls[k].behind
    <3> HIDE DEF stamp
    <3>1. stamp \in Nat /\ "cleared" \in Phases
      BY <2>2 DEF stamp, Phases
    <3>2. calls' = [calls EXCEPT ![k].phase = "cleared", ![k].stamp = stamp]
      BY <2>1 DEF stamp
    <3>3. Active(k) /\ ServerType
      BY <1>1, <2>1
    <3> QED
      BY <3>1, <3>2, <3>3, PhaseAndStampSet
  <2>4. /\ Empty \in Rows /\ cart' = [cart EXCEPT ![calls[k].user] = Empty]
        /\ changes' = [changes EXCEPT ![calls[k].user] = @ + 1]
        /\ fills' = [fills EXCEPT ![calls[k].user] = @ + 1] /\ UNCHANGED orders
    BY <2>1, RowsDeleted
  <2>5. broken' \subseteq Users /\ broken \subseteq broken'
    BY <1>1, <2>1 DEF ServerType
  <2> QED
    BY <2>1, <2>3, <2>4, <2>5, WriteKeeps
<1>7. ASSUME NEW k \in Calls, ItemDone(k) \/ CheckoutDone(k) \/ RefuseOrder(k) PROVE ServerInv'
  <2>1. /\ calls[k].phase \in {"setDone", "cleared", "order"} /\ Free1(k)
        /\ UNCHANGED <<cart, changes, fills, orders, broken, excused>>
    BY <1>7 DEF ItemDone, CheckoutDone, RefuseOrder, serverVars
  <2>2. broken' \subseteq Users /\ broken \subseteq broken'
        /\ excused' \subseteq Users /\ excused \subseteq excused'
    BY <1>1, <2>1 DEF ServerType
  <2> QED
    BY <1>1, <2>1, <2>2, CallFreed, FreesKeep
<1>8. ASSUME NEW k \in Calls, PlaceOrder(k) PROVE ServerInv'
  <2>1. /\ calls[k].phase = "order" /\ Active(k) /\ CreateOrder(calls[k].user, calls[k].fill)
        /\ Excuse(k) /\ UNCHANGED broken
    BY <1>8 DEF PlaceOrder, Active
  <2>2. PICK next \in {"start", "clear"} : calls' = [calls EXCEPT ![k].phase = next]
    BY <1>8 DEF PlaceOrder, Step
  <2>3. /\ calls' \in [Calls -> {Free} \cup CallRecs]
        /\ \A j \in Calls \ {k} : calls'[j] = calls[j]
        /\ calls'[k] = [calls[k] EXCEPT !.phase = next] /\ calls[k] \in CallRecs
    BY <1>1, <2>1, <2>2, PhaseSet, ActiveCall DEF Phases
  <2>4. /\ calls'[k].phase = next /\ calls'[k].user = calls[k].user
        /\ calls'[k].items = calls[k].items /\ calls'[k].fill = calls[k].fill
        /\ calls'[k].mixed = calls[k].mixed /\ calls'[k].behind = calls[k].behind
    BY <2>3 DEF CallRecs
  <2> QED
    BY <2>1, <2>3, <2>4, OrderKeeps
<1>9. ASSUME NEW t \in Tabs, Close(t) PROVE ServerInv'
  <2> DEFINE gone == {k \in Calls : calls[k].phase # "free" /\ calls[k].tab = t}
  <2>1. /\ calls' = [k \in Calls |-> IF k \in gone THEN Free ELSE calls[k]]
        /\ broken' = broken \cup {calls[k].user : k \in gone}
        /\ UNCHANGED <<cart, changes, fills, orders, excused>>
    BY <1>9 DEF Close, Leave, serverVars
  <2>2. \A k \in gone : calls[k].user \in Users
    BY <1>1, ActiveCall DEF Active, CallRecs
  <2>3. /\ calls' \in [Calls -> {Free} \cup CallRecs]
        /\ \A k \in Calls : calls'[k] = Free \/ calls'[k] = calls[k]
        /\ \A k \in Calls : calls'[k] # calls[k] => k \in gone
    BY <1>1, <2>1 DEF ServerType
  <2>4. broken' \subseteq Users /\ broken \subseteq broken'
        /\ excused' \subseteq Users /\ excused \subseteq excused'
    BY <1>1, <2>1, <2>2 DEF ServerType
  <2> HIDE DEF gone
  <2>5. \A k \in Calls : calls[k].phase \in {"start", "clear"} /\ calls'[k] # calls[k] =>
          calls[k].user \in broken'
    BY <2>1, <2>3
  <2> QED
    BY <2>1, <2>3, <2>4, <2>5, FreesKeep
<1>10. ASSUME UNCHANGED <<calls, serverVars, broken, excused>> PROVE ServerInv'
  <2>1. UNCHANGED <<calls, cart, changes, fills, orders, broken, excused>>
    BY <1>10 DEF serverVars
  <2>2. /\ calls' \in [Calls -> {Free} \cup CallRecs]
        /\ broken' \subseteq Users /\ broken \subseteq broken'
        /\ excused' \subseteq Users /\ excused \subseteq excused'
    BY <1>1, <2>1 DEF ServerType
  <2> QED
    BY <2>1, <2>2, FreesKeep
<1>11. ASSUME NEW t \in Tabs,
              \/ Logout(t) \/ Open(t) \/ GuestTab(t) \/ ServeSync(t) \/ ShowAnswer(t) \/ SyncFails(t)
              \/ \E u \in Users : Login(t, u) \/ ServeLoad(t, u) \/ LoadFails(t, u)
       PROVE  ServerInv'
  BY <1>10, <1>11 DEF Logout, Open, GuestTab, ServeSync, ShowAnswer, SyncFails, Login, ServeLoad, LoadFails
<1>12. CASE UNCHANGED vars
  BY <1>10, <1>12 DEF vars
<1> QED
  BY <1>2, <1>3, <1>4, <1>5, <1>6, <1>7, <1>8, <1>9, <1>11, <1>12, StartKeeps, FailKeeps DEF Next

\* A tab to which nothing happens while no cart changes.
LEMMA TabKept ==
  ASSUME NEW t \in Tabs, PageSound(t), session'[t] = session[t], shown'[t] = shown[t],
         asked'[t] = asked[t], answers'[t] = answers[t], t \in syncing' <=> t \in syncing,
         UNCHANGED <<cart, changes>>, broken \subseteq broken',
         \A k \in Calls : calls'[k].phase # "free" =>
           calls[k].phase # "free" /\ calls'[k].tab = calls[k].tab,
         \A k \in Calls : calls[k].phase \in Served /\ calls[k].user = session[t] =>
           calls'[k] = calls[k] \/ session[t] \in broken'
  PROVE  PageSound(t)'
<1>1. session[t] \in Users => Aged(t, session[t])' /\ Informed(t, session[t])
  BY DEF PageSound, Aged
<1>2. session[t] \in Users => Informed(t, session[t])'
  BY <1>1 DEF Informed
<1> QED
  BY <1>1, <1>2 DEF PageSound, Active, Aged, Informed, Blank, None

\* A tab to which nothing happens while calls are sent and served.
LEMMA PageWaits ==
  ASSUME ServerType, ScreenInv, UNCHANGED clientVars, NEW u \in Users,
         \A w \in Users \ {u} : cart'[w] = cart[w] /\ changes'[w] = changes[w],
         \/ cart'[u] = cart[u] /\ changes'[u] = changes[u]
         \/ /\ changes'[u] = changes[u] + 1
            /\ u \in broken' \/ \E k \in Calls : calls'[k].phase \in Served /\ calls'[k].user = u,
         broken \subseteq broken',
         \A k \in Calls : calls[k].phase \in Served =>
           calls'[k].phase \in Served /\ calls'[k].user = calls[k].user,
         \A k \in Calls : calls'[k].phase # "free" =>
           \/ session[calls'[k].tab] # "closed"
           \/ calls[k].phase # "free" /\ calls'[k].tab = calls[k].tab
  PROVE  ScreenInv'
<1>1. UNCHANGED <<session, stored, shown, syncing, asked, answers>> /\ changes[u] \in Nat
  BY DEF clientVars, pageVars, ServerType
<1>2. PageType'
  BY <1>1 DEF ScreenInv, PageType
<1>3. SUFFICES ASSUME NEW t \in Tabs PROVE PageSound(t)'
  BY <1>2 DEF ScreenInv
<1>4. PageSound(t) /\ answers[t] \subseteq Answers /\ shown[t] \in Screens
  BY DEF ScreenInv, PageType
<1>5. ASSUME NEW a \in answers'[t]
      PROVE  a.stamp <= changes'[a.user] /\ (a.stamp = changes'[a.user] => a.items = cart'[a.user])
  <2>1. a \in answers[t] /\ a.user \in Users /\ a.stamp \in Nat /\ a.stamp <= changes[a.user]
        /\ (a.stamp = changes[a.user] => a.items = cart[a.user])
    BY <1>1, <1>4, <1>5 DEF PageSound, Answers
  <2>2. CASE a.user = u
    BY <1>1, <2>1, <2>2
  <2>3. CASE a.user # u
    BY <2>1, <2>3
  <2> QED
    BY <2>2, <2>3
<1>6. session'[t] = "closed" =>
        /\ shown'[t] = Blank /\ asked'[t] = None /\ answers'[t] = {}
        /\ \A k \in Calls : calls'[k].phase # "free" => calls'[k].tab # t
  BY <1>1, <1>4 DEF PageSound, Active
<1>7. ASSUME session[t] \in Users PROVE Aged(t, session[t])' /\ Informed(t, session[t])'
  <2>1. Aged(t, session[t]) /\ Informed(t, session[t]) /\ shown[t].last \in Int
    BY <1>4, <1>7 DEF PageSound, Screens
  <2>2. CASE session[t] = u /\ changes'[u] = changes[u] + 1
    <3>1. shown[t].last < changes'[u]
      BY <1>1, <2>1, <2>2 DEF Aged
    <3>2. Aged(t, session[t])'
      BY <1>1, <2>1, <2>2, <3>1 DEF Aged
    <3>3. Informed(t, session[t])'
      BY <1>1, <2>2 DEF Informed
    <3> QED
      BY <3>2, <3>3
  <2>3. CASE ~(session[t] = u /\ changes'[u] = changes[u] + 1)
    <3>1. cart'[session[t]] = cart[session[t]] /\ changes'[session[t]] = changes[session[t]]
      BY <1>7, <2>3
    <3>2. Aged(t, session[t])'
      BY <1>1, <2>1, <3>1 DEF Aged
    <3>3. Informed(t, session[t])'
      BY <1>1, <2>1, <3>1 DEF Informed
    <3> QED
      BY <3>2, <3>3
  <2> QED
    BY <2>2, <2>3
<1> QED
  BY <1>1, <1>5, <1>6, <1>7 DEF PageSound, Active, Blank, None

\* What a page shows before it has heard anything.
LEMMA Blanks ==
  /\ Blank \in Screens /\ Blank.last = -1 /\ None \in [Users -> Nat] /\ Empty \in Rows
  /\ "guest" \notin Users /\ "closed" \notin Users
<1>1. Empty \in Rows
  BY StorefrontAssumption DEF Empty, Rows
<1> QED
  BY <1>1, StorefrontAssumption DEF Blank, Screens, None

\* Somebody logs in or out.
LEMMA EnterShows ==
  ASSUME ServerType, ScreenInv, NEW t \in Tabs, NEW u \in Users \cup {"guest"}, Enter(t, u),
         UNCHANGED <<asked, calls, serverVars, broken>>
  PROVE  ScreenInv'
<1>1. /\ session' = [session EXCEPT ![t] = u] /\ shown' = [shown EXCEPT ![t] = Blank]
      /\ syncing' = IF u = "guest" THEN syncing \ {t} ELSE syncing \cup {t}
      /\ answers' = [answers EXCEPT ![t] = {a \in answers[t] : ~a.sync}]
      /\ UNCHANGED <<asked, calls, cart, changes, broken>> /\ PageType
  BY DEF Enter, serverVars, ScreenInv, PageType
<1>2. /\ session'[t] = u /\ shown'[t] = Blank /\ answers'[t] \subseteq answers[t]
      /\ \A v \in Tabs \ {t} : /\ session'[v] = session[v] /\ shown'[v] = shown[v]
                               /\ answers'[v] = answers[v] /\ (v \in syncing' <=> v \in syncing)
  BY <1>1 DEF PageType
<1>3. PageType'
  <2>1. syncing' \subseteq {v \in Tabs : session'[v] \in Users}
    BY <1>1, <1>2 DEF PageType
  <2>2. shown' \in [Tabs -> Screens] /\ session' \in [Tabs -> Users \cup {"guest", "closed"}]
    BY <1>1, Blanks DEF PageType
  <2>3. answers' \in [Tabs -> SUBSET Answers]
    BY <1>1 DEF PageType
  <2> QED
    BY <1>1, <2>1, <2>2, <2>3 DEF PageType
<1>4. PageSound(t)'
  <2>1. u # "closed" /\ (u \in Users => t \in syncing')
    BY <1>1, Blanks
  <2>2. u \in Users => Aged(t, u)' /\ Informed(t, u)'
    BY <1>1, <1>2, <2>1, Blanks DEF Aged, Informed, ServerType
  <2>3. \A a \in answers[t] :
          a.stamp <= changes[a.user] /\ (a.stamp = changes[a.user] => a.items = cart[a.user])
    BY DEF ScreenInv, PageSound
  <2> QED
    BY <1>1, <1>2, <2>1, <2>2, <2>3 DEF PageSound
<1>5. ASSUME NEW v \in Tabs \ {t} PROVE PageSound(v)'
  BY <1>1, <1>2, TabKept DEF ScreenInv
<1> QED
  BY <1>3, <1>4, <1>5 DEF ScreenInv

\* The page is closed.
LEMMA CloseShows ==
  ASSUME ServerType, ScreenInv, NEW t \in Tabs, Close(t)
  PROVE  ScreenInv'
<1> DEFINE gone == {k \in Calls : calls[k].phase # "free" /\ calls[k].tab = t}
<1>1. /\ session' = [session EXCEPT ![t] = "closed"] /\ shown' = [shown EXCEPT ![t] = Blank]
      /\ syncing' = syncing \ {t} /\ asked' = [asked EXCEPT ![t] = None]
      /\ answers' = [answers EXCEPT ![t] = {}] /\ UNCHANGED <<cart, changes>>
      /\ calls' = [k \in Calls |-> IF k \in gone THEN Free ELSE calls[k]]
      /\ broken' = broken \cup {calls[k].user : k \in gone} /\ PageType
  BY DEF Close, Leave, serverVars, ScreenInv
<1>2. /\ session'[t] = "closed" /\ shown'[t] = Blank /\ answers'[t] = {} /\ asked'[t] = None
      /\ \A v \in Tabs \ {t} : /\ session'[v] = session[v] /\ shown'[v] = shown[v]
                               /\ answers'[v] = answers[v] /\ asked'[v] = asked[v]
                               /\ (v \in syncing' <=> v \in syncing)
  BY <1>1 DEF PageType
<1>3. PageType'
  <2>1. syncing' \subseteq {v \in Tabs : session'[v] \in Users}
    BY <1>1, <1>2 DEF PageType
  <2>2. shown' \in [Tabs -> Screens] /\ session' \in [Tabs -> Users \cup {"guest", "closed"}]
        /\ asked' \in [Tabs -> [Users -> Nat]]
    BY <1>1, Blanks DEF PageType
  <2>3. answers' \in [Tabs -> SUBSET Answers]
    BY <1>1 DEF PageType
  <2> QED
    BY <2>1, <2>2, <2>3 DEF PageType
<1>4. /\ \A k \in Calls : calls'[k].phase # "free" => k \notin gone /\ calls'[k] = calls[k]
      /\ \A k \in Calls : calls'[k] = calls[k] \/ calls[k].user \in broken'
  BY <1>1 DEF Free
<1>5. \A k \in Calls : calls'[k].phase # "free" => calls'[k].tab # t /\ calls[k].phase # "free"
  BY <1>4
<1> HIDE DEF gone
<1>6. PageSound(t)'
  BY <1>2, <1>5, Blanks DEF PageSound, Active, Blank, None
<1>7. ASSUME NEW v \in Tabs \ {t} PROVE PageSound(v)'
  BY <1>1, <1>2, <1>4, <1>5, TabKept DEF ScreenInv
<1> QED
  BY <1>3, <1>6, <1>7 DEF ScreenInv

\* And opened.
LEMMA OpenShows ==
  ASSUME ServerType, ScreenInv, NEW t \in Tabs, Open(t), stored \in Users \cup {"guest"}
  PROVE  ScreenInv'
<1>1. /\ session' = [session EXCEPT ![t] = stored] /\ session[t] = "closed"
      /\ syncing' = IF stored = "guest" THEN syncing ELSE syncing \cup {t}
      /\ UNCHANGED <<shown, asked, answers, calls, cart, changes, broken>> /\ PageType
  BY DEF Open, serverVars, ScreenInv
<1>2. /\ session'[t] = stored /\ shown[t] = Blank /\ answers[t] = {}
      /\ \A v \in Tabs \ {t} : session'[v] = session[v] /\ (v \in syncing' <=> v \in syncing)
  BY <1>1 DEF PageType, ScreenInv, PageSound
<1>3. PageType'
  BY <1>1, <1>2, Blanks DEF PageType
<1>4. PageSound(t)'
  <2>1. stored # "closed" /\ (stored \in Users => t \in syncing')
    BY <1>1, Blanks
  <2>2. session'[t] \in Users => Aged(t, session[t])' /\ Informed(t, session[t])'
    BY <1>1, <1>2, <2>1, Blanks DEF Aged, Informed, ServerType
  <2> QED
    BY <1>1, <1>2, <2>1, <2>2 DEF PageSound
<1>5. ASSUME NEW v \in Tabs \ {t} PROVE PageSound(v)'
  BY <1>1, <1>2, TabKept DEF ScreenInv
<1> QED
  BY <1>3, <1>4, <1>5 DEF ScreenInv

\* What GET /cart returned comes to the tab.
LEMMA ReadShows ==
  ASSUME ServerType, ScreenInv, NEW t \in Tabs, NEW u \in Users, NEW sync \in BOOLEAN,
         session[t] # "closed",
         answers' = [answers EXCEPT ![t] = @ \cup {Snapshot(u, sync)}],
         UNCHANGED <<session, shown, calls, cart, changes, broken>>,
         syncing' \subseteq syncing, asked' \in [Tabs -> [Users -> Nat]],
         \A v \in Tabs \ {t} : asked'[v] = asked[v] /\ (v \in syncing' <=> v \in syncing),
         session[t] = u \/ (asked'[t][session[t]] = asked[t][session[t]] /\ (t \in syncing' <=> t \in syncing))
  PROVE  ScreenInv'
<1> DEFINE snapshot == Snapshot(u, sync)
<1>1. /\ snapshot \in Answers /\ snapshot.user = u /\ snapshot.stamp = changes[u]
      /\ snapshot.items = cart[u]
  BY DEF Snapshot, Answers, ServerType
<1> HIDE DEF snapshot
<1>2. PageType /\ answers'[t] = answers[t] \cup {snapshot}
      /\ \A v \in Tabs \ {t} : answers'[v] = answers[v]
  BY DEF ScreenInv, PageType, snapshot
<1>3. PageType'
  <2>1. answers' \in [Tabs -> SUBSET Answers]
    BY <1>1, <1>2 DEF PageType, snapshot
  <2> QED
    BY <1>2, <2>1 DEF PageType
<1>4. PageSound(t)'
  <2>1. PageSound(t)
    BY DEF ScreenInv
  <2>2. \A a \in answers'[t] :
          a.stamp <= changes[a.user] /\ (a.stamp = changes[a.user] => a.items = cart[a.user])
    BY <1>1, <1>2, <2>1 DEF PageSound, ServerType
  <2>3. ASSUME session[t] \in Users PROVE Aged(t, session[t])' /\ Informed(t, session[t])'
    <3>1. Aged(t, session[t]) /\ Informed(t, session[t])
      BY <2>1, <2>3 DEF PageSound
    <3>2. Informed(t, session[t])'
      <4>1. CASE session[t] = u
        BY <1>1, <1>2, <4>1 DEF Informed
      <4>2. CASE session[t] # u
        BY <1>2, <3>1, <4>2 DEF Informed
      <4> QED
        BY <4>1, <4>2
    <3> QED
      BY <3>1, <3>2 DEF Aged
  <2> QED
    BY <2>2, <2>3 DEF PageSound
<1>5. ASSUME NEW v \in Tabs \ {t} PROVE PageSound(v)'
  BY <1>2, TabKept DEF ScreenInv
<1> QED
  BY <1>3, <1>4, <1>5 DEF ScreenInv

\* The tab shows something else than before, and is not the worse informed.
LEMMA TabShows ==
  ASSUME ServerType, ScreenInv, NEW t \in Tabs, NEW screen \in Screens, session[t] # "closed",
         shown' = [shown EXCEPT ![t] = screen],
         UNCHANGED <<session, cart, changes, broken>>,
         syncing' \subseteq syncing, asked' \in [Tabs -> [Users -> Nat]],
         answers' \in [Tabs -> SUBSET Answers], answers'[t] \subseteq answers[t],
         \A v \in Tabs \ {t} : PageSound(v)',
         session[t] \in Users =>
           /\ screen.last <= changes[session[t]]
           /\ screen.last = changes[session[t]] => screen.items = cart[session[t]]
           /\ Informed(t, session[t])'
  PROVE  ScreenInv'
<1>1. PageType'
  BY DEF ScreenInv, PageType
<1>2. shown'[t] = screen
  BY DEF ScreenInv, PageType
<1>3. PageSound(t)'
  BY <1>2 DEF ScreenInv, PageSound, Aged
<1> QED
  BY <1>1, <1>3 DEF ScreenInv

\* A screen after an answer.
LEMMA ShowingScreens ==
  ASSUME NEW t \in Tabs, shown[t] \in Screens, NEW items \in Rows, NEW fill \in Nat,
         NEW stamp \in Nat \cup {-1}
  PROVE  LET screen == Showing(t, items, fill, stamp) IN
         /\ screen \in Screens /\ screen.items = items /\ screen.last = stamp
         /\ screen.newest >= stamp /\ screen.newest >= shown[t].newest
BY DEF Showing, Screens

\* An answer to GET /cart is shown.
LEMMA AnswerShows ==
  ASSUME ServerType, ScreenInv, NEW t \in Tabs, ShowAnswer(t)
  PROVE  ScreenInv'
<1>1. PICK a \in answers[t] :
        /\ answers' = [answers EXCEPT ![t] = @ \ {a}]
        /\ shown' = [shown EXCEPT ![t] = Showing(t, a.items, a.fill, Stamp(t, a.user, a.stamp))]
  BY DEF ShowAnswer
<1>2. UNCHANGED <<session, syncing, asked, calls, cart, changes, broken>>
  BY DEF ShowAnswer, serverVars
<1>3. /\ PageType /\ PageSound(t) /\ a \in Answers /\ session[t] # "closed" /\ shown[t] \in Screens
      /\ a.stamp <= changes[a.user] /\ (a.stamp = changes[a.user] => a.items = cart[a.user])
  BY DEF ScreenInv, PageType, PageSound
<1> DEFINE stamp == Stamp(t, a.user, a.stamp)
           screen == Showing(t, a.items, a.fill, stamp)
<1>4. /\ a.items \in Rows /\ a.fill \in Nat /\ a.user \in Users /\ a.stamp \in Nat
      /\ stamp \in Nat \cup {-1} /\ stamp = IF a.user = session[t] THEN a.stamp ELSE -1
  BY <1>3 DEF Answers, Stamp
<1> HIDE DEF stamp
<1>5. /\ screen \in Screens /\ screen.items = a.items /\ screen.last = stamp
      /\ screen.newest >= stamp /\ screen.newest >= shown[t].newest
  BY <1>3, <1>4, ShowingScreens
<1>6. shown' = [shown EXCEPT ![t] = screen]
  BY <1>1 DEF stamp
<1> HIDE DEF screen
<1>7. /\ shown'[t] = screen /\ answers'[t] = answers[t] \ {a}
      /\ \A v \in Tabs \ {t} : shown'[v] = shown[v] /\ answers'[v] = answers[v]
      /\ answers' \in [Tabs -> SUBSET Answers]
  BY <1>1, <1>3, <1>6 DEF PageType
<1>8. ASSUME session[t] \in Users
      PROVE  /\ screen.last <= changes[session[t]]
             /\ screen.last = changes[session[t]] => screen.items = cart[session[t]]
             /\ Informed(t, session[t])'
  <2>1. Informed(t, session[t]) /\ changes[session[t]] \in Nat
        /\ shown[t].newest \in Nat /\ screen.newest \in Nat
    BY <1>3, <1>5, <1>8 DEF PageSound, ServerType, Screens
  <2>2. CASE a.user = session[t] /\ a.stamp = changes[session[t]]
    BY <1>2, <1>3, <1>4, <1>5, <1>7, <2>1, <2>2 DEF Informed
  <2>3. CASE ~(a.user = session[t] /\ a.stamp = changes[session[t]])
    <3>1. \A b \in answers[t] : b.user = session[t] /\ b.stamp = changes[session[t]] => b \in answers'[t]
      BY <1>7, <2>3
    <3>2. Informed(t, session[t])'
      BY <1>2, <1>5, <1>7, <2>1, <3>1 DEF Informed
    <3> QED
      BY <1>3, <1>4, <1>5, <2>1, <2>3, <3>2
  <2> QED
    BY <2>2, <2>3
<1>9. ASSUME NEW v \in Tabs \ {t} PROVE PageSound(v)'
  BY <1>2, <1>7, TabKept DEF ScreenInv
<1>10. syncing' \subseteq syncing /\ asked' \in [Tabs -> [Users -> Nat]] /\ answers'[t] \subseteq answers[t]
  BY <1>2, <1>3, <1>7 DEF PageType
<1> QED
  BY <1>2, <1>3, <1>5, <1>6, <1>7, <1>8, <1>9, <1>10, TabShows

\* A read is lost: the tab misses what it would have told.
LEMMA LostShows ==
  ASSUME ServerType, ScreenInv, NEW t \in Tabs, NEW u \in Users, session[t] = u,
         NEW screen \in Screens, shown' = [shown EXCEPT ![t] = screen], screen.newest = changes[u],
         \/ screen.last = -1
         \/ screen.last = shown[t].last /\ screen.items = shown[t].items,
         UNCHANGED <<session, answers, calls, cart, changes, broken>>,
         syncing' \subseteq syncing, asked' \in [Tabs -> [Users -> Nat]],
         \A v \in Tabs \ {t} : asked'[v] = asked[v] /\ (v \in syncing' <=> v \in syncing)
  PROVE  ScreenInv'
<1>1. PageType /\ PageSound(t) /\ session[t] # "closed" /\ Aged(t, u) /\ changes[u] \in Nat
  BY Blanks DEF ScreenInv, PageSound, ServerType
<1>2. shown'[t] = screen /\ \A v \in Tabs \ {t} : shown'[v] = shown[v]
  BY <1>1 DEF PageType
<1>3. Informed(t, u)'
  BY <1>1, <1>2 DEF Informed
<1>4. screen.last <= changes[u] /\ (screen.last = changes[u] => screen.items = cart[u])
  BY <1>1 DEF Aged
<1>5. ASSUME NEW v \in Tabs \ {t} PROVE PageSound(v)'
  BY <1>2, TabKept DEF ScreenInv
<1>6. answers' \in [Tabs -> SUBSET Answers] /\ answers'[t] \subseteq answers[t]
  BY <1>1 DEF PageType
<1> QED
  BY <1>1, <1>3, <1>4, <1>5, <1>6, TabShows

\* The tab of a call shows its outcome, and all tabs of the user are told.
LEMMA DoneShows ==
  ASSUME ServerType, ScreenInv, NEW k \in Calls, calls[k].phase \in Served,
         NEW t \in Tabs, calls[k].tab = t, NEW u \in Users, calls[k].user = u,
         NEW items \in Rows, NEW fill \in Nat, NEW stamp \in Nat \cup {-1},
         shown' = [shown EXCEPT ![t] = Showing(t, items, fill, stamp)],
         IF u = session[t]
         THEN stamp <= changes[u] /\ (stamp = changes[u] => items = cart[u])
         ELSE stamp = -1,
         Free1(k), NotifyCartSync(u),
         UNCHANGED <<session, syncing, answers, cart, changes, broken>>
  PROVE  ScreenInv'
<1> DEFINE screen == Showing(t, items, fill, stamp)
<1>1. /\ PageType /\ shown[t] \in Screens /\ session[t] # "closed"
      /\ \A v \in Tabs : PageSound(v)
  BY DEF ScreenInv, PageType, PageSound, Active, Served
<1>2. /\ screen \in Screens /\ screen.items = items /\ screen.last = stamp
      /\ screen.newest >= stamp /\ screen.newest >= shown[t].newest
  BY <1>1, ShowingScreens
<1>3. shown' = [shown EXCEPT ![t] = screen]
  OBVIOUS
<1> HIDE DEF screen
<1>4. shown'[t] = screen /\ \A v \in Tabs \ {t} : shown'[v] = shown[v]
  BY <1>1, <1>3 DEF PageType
<1>5. /\ asked' \in [Tabs -> [Users -> Nat]]
      /\ \A v \in Tabs : IF session[v] = u THEN asked'[v][u] > 0 ELSE asked'[v] = asked[v]
  BY <1>1 DEF NotifyCartSync, PageType
<1>6. /\ calls' \in [Calls -> {Free} \cup CallRecs] /\ calls'[k] = Free
      /\ \A j \in Calls \ {k} : calls'[j] = calls[j]
  BY CallFreed
<1>7. \A j \in Calls : calls'[j].phase # "free" => calls[j].phase # "free" /\ calls'[j].tab = calls[j].tab
  BY <1>6 DEF Free
<1>8. ASSUME NEW v \in Tabs \ {t} PROVE PageSound(v)'
  <2>1. CASE session[v] = u
    <3>1. PageSound(v) /\ session[v] # "closed" /\ Aged(v, u)
      BY <1>1, <2>1, Blanks DEF PageSound
    <3>2. Aged(v, u)' /\ Informed(v, u)'
      BY <1>4, <1>5, <2>1, <3>1 DEF Aged, Informed
    <3> QED
      BY <2>1, <3>1, <3>2 DEF PageSound, Aged, Informed
  <2>2. CASE session[v] # u
    BY <1>1, <1>4, <1>5, <1>6, <1>7, <2>2, TabKept
  <2> QED
    BY <2>1, <2>2
<1>9. ASSUME session[t] \in Users
      PROVE  /\ screen.last <= changes[session[t]]
             /\ screen.last = changes[session[t]] => screen.items = cart[session[t]]
             /\ Informed(t, session[t])'
  <2>1. Informed(t, session[t]) /\ changes[session[t]] \in Nat
        /\ shown[t].newest \in Nat /\ screen.newest \in Nat
    BY <1>1, <1>2, <1>9 DEF PageSound, ServerType, Screens
  <2>2. CASE session[t] = u
    <3>1. Informed(t, session[t])'
      BY <1>1, <1>5, <2>2 DEF Informed
    <3> QED
      BY <1>2, <2>2, <3>1
  <2>3. CASE session[t] # u
    <3>1. Informed(t, session[t])'
      BY <1>1, <1>2, <1>4, <1>5, <1>6, <2>1, <2>3 DEF Informed
    <3> QED
      BY <1>2, <2>1, <2>3, <3>1
  <2> QED
    BY <2>2, <2>3
<1>10. answers' \in [Tabs -> SUBSET Answers] /\ answers'[t] \subseteq answers[t] /\ syncing' \subseteq syncing
  BY <1>1 DEF PageType
<1> QED
  BY <1>1, <1>2, <1>3, <1>5, <1>8, <1>9, <1>10, TabShows

\* In the beginning the tabs of a user show the cart.
LEMMA ScreenStarts == Init => ScreenInv
<1> SUFFICES ASSUME Init PROVE ScreenInv
  OBVIOUS
<1>1. /\ stored \in Users \cup {"guest"} /\ session \in [Tabs -> {stored, "closed"}]
      /\ cart \in [Users -> Rows] /\ syncing = {} /\ asked = [t \in Tabs |-> None]
      /\ answers = [t \in Tabs |-> {}] /\ calls = [k \in Calls |-> Free] /\ changes = None
      /\ shown = [t \in Tabs |->
           IF session[t] \in Users
           THEN [items |-> cart[session[t]], fill |-> 0, last |-> 0, newest |-> 0] ELSE Blank]
  BY DEF Init
<1>2. ASSUME NEW t \in Tabs, session[t] \in Users
      PROVE  shown[t] \in Screens /\ shown[t].last = 0 /\ shown[t].newest = 0
             /\ shown[t].items = cart[session[t]] /\ changes[session[t]] = 0
  BY <1>1, <1>2 DEF Screens, None
<1>3. ASSUME NEW t \in Tabs, session[t] \notin Users PROVE shown[t] = Blank
  BY <1>1, <1>3
<1>4. PageType
  <2>1. shown \in [Tabs -> Screens]
    BY <1>1, <1>2, <1>3, Blanks
  <2>2. session \in [Tabs -> Users \cup {"guest", "closed"}]
    BY <1>1
  <2> QED
    BY <1>1, <2>1, <2>2, Blanks DEF PageType
<1>5. ASSUME NEW t \in Tabs PROVE PageSound(t)
  <2>1. session[t] \in Users => Aged(t, session[t]) /\ Informed(t, session[t])
    BY <1>2 DEF Aged, Informed
  <2> QED
    BY <1>1, <1>3, <2>1, Blanks DEF PageSound, Active, Free
<1> QED
  BY <1>4, <1>5 DEF ScreenInv

\* At the start nothing is ordered and nothing under way.
LEMMA ServerStarts == Init => ServerInv
<1> SUFFICES ASSUME Init PROVE ServerInv
  OBVIOUS
<1>1. /\ cart \in [Users -> Rows] /\ changes = None /\ fills = None /\ orders = [u \in Users |-> <<>>]
      /\ calls = [k \in Calls |-> Free] /\ broken = {} /\ excused = {}
  BY DEF Init
<1>2. \A k \in Calls : calls[k].phase = "free"
  BY <1>1 DEF Free
<1>3. ServerType
  BY <1>1 DEF ServerType, None
<1>4. \A u \in Users : OrdersApart(u)
  BY <1>1 DEF OrdersApart
<1> QED
  BY <1>2, <1>3, <1>4 DEF ServerInv, CallsAlone, CallsFresh, CallsServed, Active

\* Every step keeps ScreenInv.
LEMMA ScreenStep ==
  ASSUME ServerInv, ScreenInv, stored \in Users \cup {"guest"}, [Next]_vars
  PROVE  ScreenInv'
<1>1. ServerType /\ PageType /\ \A t \in Tabs : PageSound(t)
  BY DEF ServerInv, ScreenInv
<1>2. ASSUME NEW t \in Tabs, NEW u \in Users, Login(t, u) PROVE ScreenInv'
  BY <1>1, <1>2, EnterShows DEF Login
<1>3. ASSUME NEW t \in Tabs, Logout(t) PROVE ScreenInv'
  BY <1>1, <1>3, EnterShows DEF Logout
<1>4. ASSUME NEW t \in Tabs, ServeSync(t) PROVE ScreenInv'
  <2>1. /\ t \in syncing /\ syncing' = syncing \ {t} /\ session[t] \in Users /\ session[t] # "closed"
        /\ answers' = [answers EXCEPT ![t] = @ \cup {Snapshot(session[t], TRUE)}]
        /\ UNCHANGED <<session, shown, asked, calls, cart, changes, broken>>
    BY <1>1, <1>4, Blanks DEF ServeSync, PageType, serverVars
  <2>2. asked' \in [Tabs -> [Users -> Nat]]
    BY <1>1, <2>1 DEF PageType
  <2> DEFINE u == session[t]
  <2> HIDE DEF u
  <2>3. u \in Users /\ session[t] = u /\ answers' = [answers EXCEPT ![t] = @ \cup {Snapshot(u, TRUE)}]
    BY <2>1 DEF u
  <2> QED
    BY <1>1, <2>1, <2>2, <2>3, ReadShows
<1>5. ASSUME NEW t \in Tabs, NEW u \in Users, ServeLoad(t, u) PROVE ScreenInv'
  <2>1. /\ asked[t][u] > 0 /\ asked' = [asked EXCEPT ![t][u] = @ - 1]
        /\ answers' = [answers EXCEPT ![t] = @ \cup {Snapshot(u, FALSE)}]
        /\ UNCHANGED <<session, shown, syncing, calls, cart, changes, broken>>
    BY <1>5 DEF ServeLoad, serverVars
  <2>2. /\ session[t] # "closed" /\ asked' \in [Tabs -> [Users -> Nat]]
        /\ \A v \in Tabs \ {t} : asked'[v] = asked[v]
        /\ session[t] = u \/ asked'[t][session[t]] = asked[t][session[t]]
    BY <1>1, <2>1 DEF PageType, PageSound, None
  <2> QED
    BY <1>1, <2>1, <2>2, ReadShows
<1>6. ASSUME NEW t \in Tabs, SyncFails(t) PROVE ScreenInv'
  <2> DEFINE u == session[t]
             missed == MissedNews(t, u)
             hidden == [missed EXCEPT !.items = Empty]
             screen == [hidden EXCEPT !.last = -1]
  <2>1. /\ t \in syncing /\ syncing' = syncing \ {t} /\ u \in Users
        /\ shown' = [shown EXCEPT ![t] = [missed EXCEPT !.items = Empty, !.last = -1]]
        /\ UNCHANGED <<session, asked, answers, calls, cart, changes, broken>>
    BY <1>1, <1>6 DEF SyncFails, PageType, serverVars
  <2>2. shown[t] \in Screens /\ changes[u] \in Nat
    BY <1>1, <2>1 DEF PageType, ServerType
  <2>3. missed \in Screens /\ missed.newest = changes[u]
    BY <2>2 DEF MissedNews, Screens
  <2> HIDE DEF missed
  <2>4. hidden \in Screens /\ hidden.newest = missed.newest
    BY <2>3, Blanks DEF Screens
  <2>5. [missed EXCEPT !.items = Empty, !.last = -1] = screen
    BY <2>3 DEF Screens
  <2> HIDE DEF hidden
  <2>6. screen \in Screens /\ screen.last = -1 /\ screen.newest = changes[u]
    BY <2>3, <2>4 DEF Screens
  <2>7. shown' = [shown EXCEPT ![t] = screen]
    BY <2>1, <2>5
  <2>8. asked' \in [Tabs -> [Users -> Nat]]
    BY <1>1, <2>1 DEF PageType
  <2>9. session[t] = u
    OBVIOUS
  <2> HIDE DEF u, screen
  <2> QED
    BY <1>1, <2>1, <2>6, <2>7, <2>8, <2>9, LostShows
<1>7. ASSUME NEW t \in Tabs, NEW u \in Users, LoadFails(t, u) PROVE ScreenInv'
  <2>1. /\ asked[t][u] > 0 /\ asked' = [asked EXCEPT ![t][u] = @ - 1]
        /\ shown' = [shown EXCEPT ![t] = IF u = session[t] THEN MissedNews(t, u) ELSE @]
        /\ UNCHANGED <<session, syncing, answers, calls, cart, changes, broken>>
    BY <1>7 DEF LoadFails, serverVars
  <2>2. /\ session[t] # "closed" /\ asked' \in [Tabs -> [Users -> Nat]]
        /\ \A v \in Tabs \ {t} : asked'[v] = asked[v]
        /\ session[t] = u \/ asked'[t][session[t]] = asked[t][session[t]]
    BY <1>1, <2>1 DEF PageType, PageSound, None
  <2>3. CASE session[t] = u
    <3> DEFINE screen == MissedNews(t, u)
    <3>1. shown[t] \in Screens /\ changes[u] \in Nat
      BY <1>1 DEF PageType, ServerType
    <3>2. /\ screen \in Screens /\ screen.newest = changes[u]
          /\ screen.last = shown[t].last /\ screen.items = shown[t].items
      BY <3>1 DEF MissedNews, Screens
    <3>3. shown' = [shown EXCEPT ![t] = screen]
      BY <2>1, <2>3
    <3>4. /\ ServerType /\ session[t] = u /\ UNCHANGED <<session, answers, calls, cart, changes, broken>>
          /\ syncing' \subseteq syncing /\ asked' \in [Tabs -> [Users -> Nat]]
          /\ \A v \in Tabs \ {t} : asked'[v] = asked[v] /\ (v \in syncing' <=> v \in syncing)
      BY <1>1, <2>1, <2>2, <2>3
    <3> HIDE DEF screen
    <3> QED
      BY <3>2, <3>3, <3>4, LostShows
  <2>4. CASE session[t] # u
    <3>1. shown' = shown
      BY <1>1, <2>1, <2>4 DEF PageType
    <3>2. PageType'
      BY <1>1, <2>1, <2>2, <3>1 DEF PageType
    <3>3. ASSUME NEW v \in Tabs \ {t} PROVE PageSound(v)'
      BY <1>1, <2>1, <2>2, <3>1, TabKept
    <3>4. PageSound(t)'
      <4>1. session[t] \in Users => Informed(t, session[t])'
        BY <1>1, <2>1, <2>2, <2>4, <3>1 DEF PageSound, Informed
      <4> QED
        BY <1>1, <2>1, <2>2, <3>1, <4>1 DEF PageSound, Aged
    <3> QED
      BY <3>2, <3>3, <3>4 DEF ScreenInv
  <2> QED
    BY <2>3, <2>4
<1>8. ASSUME NEW k \in Calls, ItemDone(k) PROVE ScreenInv'
  <2> DEFINE c == calls[k]
             t == c.tab
             u == c.user
             items == [shown[t].items EXCEPT ![c.product] = c.quantity]
             stamp == Stamp(t, u, PatchAge(k))
  <2>1. /\ c.phase = "setDone" /\ Free1(k) /\ NotifyCartSync(u)
        /\ shown' = [shown EXCEPT ![t] = Showing(t, [@.items EXCEPT ![c.product] = c.quantity], @.fill, stamp)]
        /\ UNCHANGED <<session, syncing, answers, cart, changes, broken>>
    BY <1>8 DEF ItemDone, serverVars
  <2>2. c \in CallRecs
    BY <1>1, <2>1, ActiveCall DEF Active
  <2>3. /\ c.phase \in Served /\ t \in Tabs /\ u \in Users /\ shown[t].items \in Rows /\ shown[t].fill \in Nat
        /\ items \in Rows /\ c.stamp \in Nat
    BY <1>1, <2>1, <2>2 DEF CallRecs, PageType, Screens, Served, Rows
  <2>4. PatchAge(k) = -1 \/ (PatchAge(k) = c.stamp /\ ~c.mixed /\ ~c.behind /\ shown[t].items = c.items)
    BY DEF PatchAge
  <2>5. ~c.mixed /\ ~c.behind =>
          c.stamp = changes[u] /\ cart[u] = [c.items EXCEPT ![c.product] = c.quantity]
    BY <2>1 DEF ServerInv, CallsServed
  <2>6. /\ stamp \in Nat \cup {-1}
        /\ IF u = session[t] THEN stamp <= changes[u] /\ (stamp = changes[u] => items = cart[u])
           ELSE stamp = -1
    <3>1. stamp = -1 \/ (u = session[t] /\ stamp = PatchAge(k))
      BY DEF Stamp
    <3>2. changes[u] \in Nat
      BY <1>1, <2>3 DEF ServerType
    <3>3. CASE stamp = -1
      BY <3>2, <3>3
    <3>4. CASE stamp # -1
      <4>1. stamp = c.stamp /\ u = session[t] /\ c.stamp = changes[u] /\ items = cart[u]
        BY <2>4, <2>5, <3>1, <3>4
      <4> HIDE DEF stamp, items
      <4> QED
        BY <3>2, <4>1
    <3> QED
      BY <3>3, <3>4
  <2>7. shown' = [shown EXCEPT ![t] = Showing(t, items, shown[t].fill, stamp)]
    BY <2>1
  <2>8. ASSUME NEW tab \in Tabs, NEW user \in Users, NEW rows \in Rows, NEW fill \in Nat,
               NEW age \in Nat \cup {-1},
               tab = t, user = u, rows = items, fill = shown[t].fill, age = stamp
        PROVE  ScreenInv'
    <3>1. /\ calls[k].tab = tab /\ calls[k].user = user /\ calls[k].phase \in Served
          /\ shown' = [shown EXCEPT ![tab] = Showing(tab, rows, fill, age)]
          /\ Free1(k) /\ NotifyCartSync(user)
          /\ IF user = session[tab] THEN age <= changes[user] /\ (age = changes[user] => rows = cart[user])
             ELSE age = -1
      BY <2>1, <2>3, <2>6, <2>7, <2>8
    <3>2. ServerType /\ UNCHANGED <<session, syncing, answers, cart, changes, broken>>
      BY <1>1, <2>1
    <3> HIDE DEF c, t, u, items, stamp
    <3> QED
      BY <3>1, <3>2, DoneShows
  <2> QED
    BY <2>3, <2>6, <2>8
<1>9. ASSUME NEW k \in Calls, CheckoutDone(k) PROVE ScreenInv'
  <2> DEFINE c == calls[k]
             t == c.tab
             u == c.user
             stamp == Stamp(t, u, c.stamp)
  <2>1. /\ c.phase = "cleared" /\ Free1(k) /\ NotifyCartSync(u)
        /\ shown' = [shown EXCEPT ![t] = Showing(t, Empty, fills[u], stamp)]
        /\ UNCHANGED <<session, syncing, answers, cart, changes, broken>>
    BY <1>9 DEF CheckoutDone, serverVars
  <2>2. c \in CallRecs
    BY <1>1, <2>1, ActiveCall DEF Active
  <2>3. c.phase \in Served /\ t \in Tabs /\ u \in Users /\ fills[u] \in Nat /\ c.stamp \in Nat
    BY <1>1, <2>1, <2>2 DEF CallRecs, ServerType, Served
  <2>4. c.stamp <= changes[u] /\ (c.stamp = changes[u] => cart[u] = Empty)
    BY <2>1 DEF ServerInv, CallsServed
  <2>5. /\ stamp \in Nat \cup {-1}
        /\ IF u = session[t] THEN stamp <= changes[u] /\ (stamp = changes[u] => Empty = cart[u])
           ELSE stamp = -1
    BY <2>3, <2>4 DEF Stamp
  <2>6. ASSUME NEW tab \in Tabs, NEW user \in Users, NEW fill \in Nat, NEW age \in Nat \cup {-1},
               tab = t, user = u, fill = fills[u], age = stamp
        PROVE  ScreenInv'
    <3>1. /\ calls[k].tab = tab /\ calls[k].user = user /\ calls[k].phase \in Served
          /\ shown' = [shown EXCEPT ![tab] = Showing(tab, Empty, fill, age)]
          /\ Free1(k) /\ NotifyCartSync(user)
          /\ IF user = session[tab] THEN age <= changes[user] /\ (age = changes[user] => Empty = cart[user])
             ELSE age = -1
      BY <2>1, <2>3, <2>5, <2>6
    <3>2. ServerType /\ UNCHANGED <<session, syncing, answers, cart, changes, broken>> /\ Empty \in Rows
      BY <1>1, <2>1, Blanks
    <3> HIDE DEF c, t, u, stamp
    <3> QED
      BY <3>1, <3>2, DoneShows
  <2> QED
    BY <2>3, <2>5, <2>6
<1>10. ASSUME UNCHANGED <<pageVars, calls, cart, changes, broken>> PROVE ScreenInv'
  <2>1. UNCHANGED <<session, shown, syncing, asked, answers, calls, cart, changes, broken>>
    BY <1>10 DEF pageVars
  <2>2. PageType'
    BY <1>1, <2>1 DEF PageType
  <2>3. \A t \in Tabs : PageSound(t)'
    BY <1>1, <2>1, TabKept
  <2> QED
    BY <2>2, <2>3 DEF ScreenInv
<1>11. ASSUME NEW t \in Tabs, GuestTab(t) PROVE ScreenInv'
  BY <1>10, <1>11 DEF GuestTab, serverVars
<1>12. ASSUME NEW t \in Tabs, NEW k \in Calls,
              NEW phase \in {"set", "order"}, NEW p \in Products, NEW n \in Int, Send(t, k, phase, p, n)
       PROVE  ScreenInv'
  <2>1. session[t] \in Users /\ calls[k].phase = "free"
        /\ UNCHANGED <<clientVars, cart, changes, broken>>
        /\ calls'[k].tab = t
        /\ \A j \in Calls \ {k} : calls'[j] = calls[j] \/
              (j \in CallsOf(session[t]) /\ calls'[j] = [calls[j] EXCEPT !.mixed = TRUE])
    BY <1>12 DEF Send, serverVars
  <2>2. \A j \in Calls \ {k} : calls'[j].phase = calls[j].phase /\ calls'[j].user = calls[j].user
          /\ (calls[j].phase # "free" => calls'[j].tab = calls[j].tab)
    <3>1. \A j \in CallsOf(session[t]) : calls[j] \in CallRecs
      BY <1>1, ActiveCall DEF CallsOf, Active
    <3>2. ASSUME NEW j \in CallsOf(session[t]), calls'[j] = [calls[j] EXCEPT !.mixed = TRUE]
          PROVE  calls'[j].phase = calls[j].phase /\ calls'[j].user = calls[j].user
                 /\ calls'[j].tab = calls[j].tab
      BY <3>1, <3>2 DEF CallRecs
    <3> QED
      BY <2>1, <3>2
  <2>3. \A j \in Calls : calls[j].phase \in Served => calls'[j].phase \in Served /\ calls'[j].user = calls[j].user
    BY <2>1, <2>2 DEF Served
  <2>4. \A j \in Calls : calls'[j].phase # "free" =>
          \/ session[calls'[j].tab] # "closed"
          \/ calls[j].phase # "free" /\ calls'[j].tab = calls[j].tab
    BY <2>1, <2>2, Blanks
  <2> DEFINE u == session[t]
  <2> HIDE DEF u
  <2>5. u \in Users
    BY <2>1 DEF u
  <2> QED
    BY <1>1, <2>1, <2>3, <2>4, <2>5, PageWaits
<1>13. ASSUME NEW t \in Tabs, NEW k \in Calls,
              \/ HandleCheckout(t, k)
              \/ \E p \in Products : AddToCart(t, k, p)
                    \/ \E n \in 0..Available : UpdateCartQuantity(t, k, p, n)
       PROVE  ScreenInv'
  <2>1. PICK phase \in {"set", "order"}, p \in Products, n \in Int : Send(t, k, phase, p, n)
    <3>1. CASE HandleCheckout(t, k)
      BY <3>1 DEF HandleCheckout
    <3>2. ASSUME NEW p \in Products, AddToCart(t, k, p)
          PROVE  shown[t].items[p] + 1 \in Int /\ Send(t, k, "set", p, shown[t].items[p] + 1)
      BY <1>1, <3>2 DEF PageType, Screens, Rows, AddToCart
    <3>3. ASSUME NEW p \in Products, NEW n \in 0..Available, UpdateCartQuantity(t, k, p, n)
          PROVE  n \in Int /\ Send(t, k, "set", p, n)
      BY <3>3 DEF UpdateCartQuantity
    <3> QED
      BY <1>13, <3>1, <3>2, <3>3
  <2> QED
    BY <1>12, <2>1
<1>14. ASSUME NEW k \in Calls,
              \/ ServeItem(k) \/ PlaceOrder(k) \/ RefuseOrder(k) \/ StartYape(k) \/ ClearCart(k)
              \/ Fails(k)
       PROVE  ScreenInv'
  <2>1. UNCHANGED clientVars /\ calls[k].phase \in {"set", "order", "start", "clear"} /\ Active(k)
    BY <1>14 DEF ServeItem, PlaceOrder, RefuseOrder, StartYape, ClearCart, Fails, Active
  <2>2. calls[k] \in CallRecs
    BY <1>1, <2>1, ActiveCall
  <2>3. /\ \A j \in Calls \ {k} : calls'[j] = calls[j]
        /\ calls'[k].phase # "free" => calls'[k].tab = calls[k].tab /\ calls'[k].user = calls[k].user
    <3>1. CASE RefuseOrder(k) \/ Fails(k)
      BY <1>1, <3>1, CallFreed DEF RefuseOrder, Fails, Free
    <3>2. CASE StartYape(k) \/ PlaceOrder(k)
      <4>1. PICK next \in Phases : calls' = [calls EXCEPT ![k].phase = next]
        BY <3>2 DEF StartYape, PlaceOrder, Step, Phases
      <4>2. (\A j \in Calls \ {k} : calls'[j] = calls[j]) /\ calls'[k] = [calls[k] EXCEPT !.phase = next]
        BY <1>1, <2>1, <4>1, PhaseSet
      <4> QED
        BY <2>2, <4>2 DEF CallRecs
    <3>3. CASE ServeItem(k) \/ ClearCart(k)
      BY <1>1, <2>2, <3>3 DEF ServeItem, ClearCart, ServerType, CallRecs
    <3> QED
      BY <1>14, <3>1, <3>2, <3>3
  <2> DEFINE u == calls[k].user
  <2>4. broken \subseteq broken' /\ u \in Users
    BY <1>14, <2>2 DEF ServeItem, PlaceOrder, RefuseOrder, StartYape, ClearCart, Fails, CallRecs
  <2>5. ASSUME NEW user \in Users, user = u
        PROVE  ScreenInv'
    <3>1. \/ UNCHANGED <<cart, changes>>
          \/ (WriteItem(k) \/ DeleteRows(k)) /\ (calls'[k].phase \in Served \/ user \in broken')
      <4>1. CASE ServeItem(k) \/ ClearCart(k)
        <5>1. calls'[k].phase \in Served
          BY <1>1, <2>2, <4>1 DEF ServeItem, ClearCart, ServerType, CallRecs, Served
        <5> QED
          BY <4>1, <5>1 DEF ServeItem, ClearCart
      <4>2. CASE Fails(k)
        BY <2>5, <4>2 DEF Fails, CreateOrder, serverVars
      <4>3. CASE PlaceOrder(k) \/ RefuseOrder(k) \/ StartYape(k)
        BY <4>3 DEF PlaceOrder, RefuseOrder, StartYape, CreateOrder, serverVars
      <4> QED
        BY <1>14, <4>1, <4>2, <4>3
    <3>2. /\ \A w \in Users \ {user} : cart'[w] = cart[w] /\ changes'[w] = changes[w]
          /\ \/ cart'[user] = cart[user] /\ changes'[user] = changes[user]
             \/ changes'[user] = changes[user] + 1 /\ (calls'[k].phase \in Served \/ user \in broken')
      BY <1>1, <2>5, <3>1 DEF WriteItem, DeleteRows, ServerType
    <3>3. calls'[k].phase \in Served => calls'[k].user = user
      BY <2>3, <2>5 DEF Served
    <3>4. \A j \in Calls : calls[j].phase \in Served => calls'[j].phase \in Served /\ calls'[j].user = calls[j].user
      BY <2>1, <2>3 DEF Served
    <3>5. \A j \in Calls : calls'[j].phase # "free" =>
            calls[j].phase # "free" /\ calls'[j].tab = calls[j].tab
      BY <2>1, <2>3
    <3> HIDE DEF u
    <3>6. \/ cart'[user] = cart[user] /\ changes'[user] = changes[user]
          \/ /\ changes'[user] = changes[user] + 1
             /\ user \in broken' \/ \E j \in Calls : calls'[j].phase \in Served /\ calls'[j].user = user
      BY <3>2, <3>3
    <3> QED
      BY <1>1, <2>1, <2>4, <3>2, <3>4, <3>5, <3>6, PageWaits
  <2> QED
    BY <2>4, <2>5
<1>15. CASE UNCHANGED vars
  BY <1>10, <1>15 DEF vars, clientVars, serverVars
<1>16. ASSUME NEW t \in Tabs, ShowAnswer(t) \/ Close(t) \/ Open(t) PROVE ScreenInv'
  BY <1>1, <1>16, AnswerShows, CloseShows, OpenShows
<1> QED
  BY <1>2, <1>3, <1>4, <1>5, <1>6, <1>7, <1>8, <1>9, <1>11, <1>13, <1>14, <1>15, <1>16 DEF Next

-----------------------------------------------------------------------------
(* What holds of the whole.                                                *)

StorefrontInv == GuestInv /\ ServerInv /\ ScreenInv

\* The calls, carts and orders of the server and what the tabs show fit
\* together at every moment.
THEOREM StorefrontSound == Spec => []StorefrontInv
<1>1. Init => StorefrontInv
  BY GuestStarts, ServerStarts, ScreenStarts DEF StorefrontInv
<1>2. StorefrontInv /\ [Next]_vars => StorefrontInv'
  BY GuestStep, ServerStep, ScreenStep DEF StorefrontInv, GuestInv, GuestType, ScreenInv
<1> QED
  BY <1>1, <1>2, PTL DEF Spec

\* One filling of a cart is ordered once, but for customers who started a call
\* while another was open, clicked on an outdated screen or whose call failed.
THEOREM FillingsOrderedOnce == Spec => []OrderedOnce
<1>1. StorefrontInv => OrderedOnce
  BY DEF StorefrontInv, ServerInv, OrdersApart, OrderedOnce
<1> QED
  BY <1>1, StorefrontSound, PTL

\* A call that was alone and whose user saw the cart finds it so: adding adds
\* one, and what a checkout deletes is what it ordered.
THEOREM CallsFindTheCart == Spec => ServerAsSeen
<1>1. StorefrontInv /\ [Next]_vars =>
        [\A k \in Calls :
           calls[k].phase \in {"set", "clear"} /\ calls'[k].phase \in {"setDone", "cleared"}
           => calls[k].mixed \/ calls[k].behind \/ cart[calls[k].user] = calls[k].items]_vars
  BY DEF StorefrontInv, ServerInv, CallsFresh
<1> QED
  BY <1>1, StorefrontSound, PTL DEF Spec, ServerAsSeen

\* A tab where nothing is under way shows the cart of the server, if what came
\* last was not older than what it had been told before.
THEOREM ScreensExact == Spec => []ScreenExact
<1>1. ASSUME StorefrontInv, NEW t \in Tabs, session[t] \in Users \ broken, Settled(t),
             shown[t].last >= shown[t].newest
      PROVE  shown[t].items = cart[session[t]]
  <2>1. Aged(t, session[t]) /\ Informed(t, session[t]) /\ shown[t] \in Screens
        /\ changes[session[t]] \in Nat
    BY <1>1 DEF StorefrontInv, ServerInv, ServerType, ScreenInv, PageType, PageSound
  <2>2. /\ t \notin syncing /\ asked[t][session[t]] = 0 /\ answers[t] = {}
        /\ \A k \in Calls : ~(calls[k].phase \in Served /\ calls[k].user = session[t])
    BY <1>1 DEF Settled, CallsOf, None, Served
  <2>3. shown[t].newest >= changes[session[t]]
    BY <1>1, <2>1, <2>2 DEF Informed
  <2>4. shown[t].last = changes[session[t]]
    BY <1>1, <2>1, <2>3 DEF Aged, Screens
  <2> QED
    BY <2>1, <2>4 DEF Aged
<1>2. StorefrontInv => ScreenExact
  BY <1>1 DEF ScreenExact
<1> QED
  BY <1>2, StorefrontSound, PTL

-----------------------------------------------------------------------------
(* The admin pages and the catalog.                                        *)

ProductTable  == [Goods -> Opt(ProductRows)]
VariantTable  == [Variants -> Opt(VariantRows)]
PriceTable    == [Prices -> Opt(PriceRows)]
ImageTable    == [Images -> Opt(ImageRows)]
CategoryTable == [Categories -> Opt(CategoryRows)]

Dbs ==
  [product : ProductTable, variant : VariantTable, price : PriceTable, image : ImageTable,
   category : CategoryTable, map : SUBSET (Goods \X Categories)]

\* Every variant is one of a product that there is.
DbSound(d) ==
  /\ d \in Dbs
  /\ \A v \in Present(d.variant) : d.product[d.variant[v].product] # Null

\* The rows that a deletion takes along.
LEMMA CascadeSound ==
  ASSUME NEW d \in Dbs
  PROVE  LET e == Cascade(d) IN
         /\ DbSound(e)
         /\ e.product = d.product /\ e.category = d.category /\ e.map \subseteq d.map
         /\ \A v \in Variants :
              \/ e.variant[v] = d.variant[v]
              \/ e.variant[v] = Null /\ d.product[d.variant[v].product] = Null
         /\ \A r \in Prices : e.price[r] = d.price[r] \/ e.price[r] = Null
         /\ \A i \in Images : e.image[i] = d.image[i] \/ e.image[i] = Null
         /\ \/ e.price = d.price
            \/ \E r \in Present(d.price) : d.price[r].variant \notin Present(e.variant)
         /\ \A m \in d.map : d.product[m[1]] # Null /\ d.category[m[2]] # Null => m \in e.map
<1> DEFINE e == Cascade(d)
           vs == {v \in Present(d.variant) : d.product[d.variant[v].product] # Null}
<1>1. /\ d.product \in ProductTable /\ d.variant \in VariantTable /\ d.price \in PriceTable
      /\ d.image \in ImageTable /\ d.category \in CategoryTable
      /\ d.map \in SUBSET (Goods \X Categories)
  BY DEF Dbs
<1>2. /\ e.product = d.product /\ e.category = d.category
      /\ e.variant = [v \in Variants |-> IF v \in vs THEN d.variant[v] ELSE Null]
      /\ e.price = [r \in Prices |->
           IF r \in Present(d.price) /\ d.price[r].variant \in vs THEN d.price[r] ELSE Null]
      /\ e.image = [i \in Images |->
           IF /\ i \in Present(d.image) /\ d.product[d.image[i].product] # Null
              /\ d.image[i].variant \in Opt(vs)
           THEN d.image[i] ELSE Null]
      /\ e.map = {m \in d.map : d.product[m[1]] # Null /\ d.category[m[2]] # Null}
  BY DEF Cascade
<1>3. e = [product |-> e.product, variant |-> e.variant, price |-> e.price, image |-> e.image,
           category |-> e.category, map |-> e.map]
  BY DEF Cascade
<1>3a. \A v \in Variants : v \in vs <=> d.variant[v] # Null /\ d.product[d.variant[v].product] # Null
  BY <1>1 DEF Present, VariantTable
<1> HIDE DEF e, vs
<1>4. /\ e.variant \in VariantTable /\ e.price \in PriceTable /\ e.image \in ImageTable
      /\ e.map \in SUBSET (Goods \X Categories)
  <2>1. e.variant \in VariantTable
    BY <1>1, <1>2 DEF VariantTable, Opt
  <2>2. e.price \in PriceTable
    BY <1>1, <1>2 DEF PriceTable, Opt
  <2>3. e.image \in ImageTable
    BY <1>1, <1>2 DEF ImageTable, Opt
  <2>4. e.map \in SUBSET (Goods \X Categories)
    BY <1>1, <1>2
  <2> QED
    BY <2>1, <2>2, <2>3, <2>4
<1>5. e \in Dbs
  BY <1>1, <1>2, <1>3, <1>4 DEF Dbs
<1>6. vs = Present(e.variant) /\ \A v \in vs : e.variant[v] = d.variant[v]
  <2>1. DOMAIN e.variant = Variants /\ vs \subseteq Variants
    BY <1>1, <1>2 DEF vs, VariantTable, Present
  <2>2. \A v \in Variants : e.variant[v] # Null <=> v \in vs
    BY <1>2, <1>3a
  <2> QED
    BY <1>2, <2>1, <2>2 DEF Present
<1>7. DbSound(e)
  <2>1. vs \subseteq Variants
    BY <1>1 DEF vs, VariantTable, Present
  <2> QED
    BY <1>2, <1>5, <1>6, <1>3a, <2>1 DEF DbSound
<1>8. \A v \in Variants :
        \/ e.variant[v] = d.variant[v]
        \/ e.variant[v] = Null /\ d.product[d.variant[v].product] = Null
  BY <1>2, <1>3a
<1>9. \/ e.price = d.price
      \/ \E r \in Present(d.price) : d.price[r].variant \notin Present(e.variant)
  <2>1. SUFFICES ASSUME \A r \in Present(d.price) : d.price[r].variant \in vs
                 PROVE  e.price = d.price
    BY <1>6
  <2>2. \A r \in Prices : e.price[r] = d.price[r]
    BY <1>1, <1>2, <2>1 DEF Present, PriceTable
  <2> QED
    BY <1>1, <1>4, <2>2 DEF PriceTable
<1> QED
  BY <1>2, <1>7, <1>8, <1>9 DEF e

\* What a statement that was executed has made of the tables, for its call q.
Reflected(d, q) ==
  /\ q.kind = "product" =>
       IF q.op = "delete" THEN d.product[q.id] = Null ELSE AsTyped(d.product[q.id], q.row)
  /\ q.kind = "variant" =>
       IF q.op = "delete" THEN d.variant[q.id] = Null ELSE AsTyped(d.variant[q.id], q.row)
  /\ q.kind = "price" =>
       IF q.op = "delete" THEN d.price[q.id] = Null ELSE AsTyped(d.price[q.id], q.row)
  /\ q.kind = "image" =>
       IF q.op = "delete" THEN d.image[q.id] = Null ELSE AsTyped(d.image[q.id], q.row)
  /\ q.kind = "category" =>
       IF q.op = "delete" THEN d.category[q.id] = Null ELSE AsTyped(d.category[q.id], q.row)
  /\ q.kind = "map" =>
       IF q.op = "create" THEN q.id \in d.map /\ d.product[q.id[1]] # Null ELSE q.id \notin d.map

Effect(q) ==
  /\ DbSound(db')
  /\ \A x \in Present(db'.product) : x \in Present(db.product) \/ (q.kind = "product" /\ q.op = "create" /\ q.id = x)
  /\ \A x \in Present(db'.variant) : x \in Present(db.variant) \/ (q.kind = "variant" /\ q.op = "create" /\ q.id = x)
  /\ \A v \in Present(db.variant) :
       \/ db'.variant[v] = db.variant[v] \/ db'.product[db.variant[v].product] = Null
       \/ q.kind = "variant" /\ q.op # "create" /\ q.id = v
  /\ \/ db'.variant = db.variant \/ db'.price = db.price
     \/ \E r \in Present(db.price) : db.price[r].variant \notin Present(db'.variant)
  /\ Reflected(db', q)

\* What a call asks for is of the kind that it names.
Addressed(q) ==
  /\ q.kind = "product" => q.id \in Goods /\ (q.op # "delete" => q.row \in ProductRows)
  /\ q.kind = "variant" => q.id \in Variants /\ (q.op # "delete" => q.row \in VariantRows)
  /\ q.kind = "price" => q.id \in Prices /\ (q.op # "delete" => q.row \in PriceRows)
  /\ q.kind = "image" => q.id \in Images /\ (q.op # "delete" => q.row \in ImageRows)
  /\ q.kind = "category" => q.id \in Categories /\ (q.op # "delete" => q.row \in CategoryRows)
  /\ q.kind = "map" => q.id \in Goods \X Categories

\* A table with one row set.
LEMMA ProductSet ==
  ASSUME NEW d \in Dbs, NEW id \in Goods, NEW row \in Opt(ProductRows)
  PROVE  LET e == [d EXCEPT !.product[id] = row] IN
         /\ e \in Dbs /\ e.product[id] = row
         /\ \A x \in Goods \ {id} : e.product[x] = d.product[x]
         /\ e.variant = d.variant /\ e.price = d.price
BY DEF Dbs, ProductTable

\* The same for the variants ...
LEMMA VariantSet ==
  ASSUME NEW d \in Dbs, NEW id \in Variants, NEW row \in Opt(VariantRows)
  PROVE  LET e == [d EXCEPT !.variant[id] = row] IN
         /\ e \in Dbs /\ e.variant[id] = row
         /\ \A x \in Variants \ {id} : e.variant[x] = d.variant[x]
         /\ e.product = d.product /\ e.price = d.price
BY DEF Dbs, VariantTable

\* ... the prices ...
LEMMA PriceSet ==
  ASSUME NEW d \in Dbs, NEW id \in Prices, NEW row \in Opt(PriceRows)
  PROVE  LET e == [d EXCEPT !.price[id] = row] IN
         /\ e \in Dbs /\ e.price[id] = row /\ e.product = d.product /\ e.variant = d.variant
BY DEF Dbs, PriceTable

\* ... the images ...
LEMMA ImageSet ==
  ASSUME NEW d \in Dbs, NEW id \in Images, NEW row \in Opt(ImageRows)
  PROVE  LET e == [d EXCEPT !.image[id] = row] IN
         /\ e \in Dbs /\ e.image[id] = row /\ e.product = d.product /\ e.variant = d.variant
BY DEF Dbs, ImageTable

\* ... the categories ...
LEMMA CategorySet ==
  ASSUME NEW d \in Dbs, NEW id \in Categories, NEW row \in Opt(CategoryRows)
  PROVE  LET e == [d EXCEPT !.category[id] = row] IN
         /\ e \in Dbs /\ e.category[id] = row /\ e.product = d.product /\ e.variant = d.variant
         /\ e.price = d.price
BY DEF Dbs, CategoryTable

\* ... and for the relation of products to categories.
LEMMA MapSet ==
  ASSUME NEW d \in Dbs, NEW map \in SUBSET (Goods \X Categories)
  PROVE  LET e == [d EXCEPT !.map = map] IN
         e \in Dbs /\ e.map = map /\ e.product = d.product /\ e.variant = d.variant
BY DEF Dbs

\* A row as it was typed, and one that keeps what was left empty.
LEMMA RowsAsTyped ==
  /\ \A row \in ProductRows \cup VariantRows \cup PriceRows \cup ImageRows \cup CategoryRows :
       AsTyped(row, row)
  /\ \A row \in ProductRows, old \in ProductRows :
       LET new == [note |-> Keep(row.note, old.note)] IN
       new \in ProductRows /\ AsTyped(new, row)
  /\ \A row \in VariantRows, old \in VariantRows :
       LET new == [product |-> old.product, sku |-> row.sku, active |-> row.active] IN
       new \in VariantRows /\ AsTyped(new, row)
  /\ \A row \in PriceRows, old \in PriceRows :
       LET new == [variant |-> old.variant, list |-> row.list, sale |-> Keep(row.sale, old.sale),
                   starts |-> Keep(row.starts, old.starts)] IN
       new \in PriceRows /\ AsTyped(new, row)
  /\ \A row \in ImageRows, old \in ImageRows :
       LET new == [product |-> old.product, variant |-> Keep(row.variant, old.variant)] IN
       new \in ImageRows /\ AsTyped(new, row)
  /\ \A row \in CategoryRows, old \in CategoryRows :
       LET new == [slug |-> row.slug, parent |-> Keep(row.parent, old.parent)] IN
       new \in CategoryRows /\ AsTyped(new, row)
<1>1. \A row \in ProductRows \cup VariantRows \cup PriceRows \cup ImageRows \cup CategoryRows :
        AsTyped(row, row)
  BY DEF AsTyped
<1>2. ASSUME NEW row \in ProductRows, NEW old \in ProductRows
      PROVE  LET new == [note |-> Keep(row.note, old.note)] IN
             new \in ProductRows /\ AsTyped(new, row)
  BY DEF ProductRows, Keep, AsTyped, Opt
<1>3. ASSUME NEW row \in VariantRows, NEW old \in VariantRows
      PROVE  LET new == [product |-> old.product, sku |-> row.sku, active |-> row.active] IN
             new \in VariantRows /\ AsTyped(new, row)
  BY DEF VariantRows, AsTyped
<1>4. ASSUME NEW row \in PriceRows, NEW old \in PriceRows
      PROVE  LET new == [variant |-> old.variant, list |-> row.list, sale |-> Keep(row.sale, old.sale),
                         starts |-> Keep(row.starts, old.starts)] IN
             new \in PriceRows /\ AsTyped(new, row)
  BY DEF PriceRows, Keep, AsTyped, Opt
<1>5. ASSUME NEW row \in ImageRows, NEW old \in ImageRows
      PROVE  LET new == [product |-> old.product, variant |-> Keep(row.variant, old.variant)] IN
             new \in ImageRows /\ AsTyped(new, row)
  BY DEF ImageRows, Keep, AsTyped, Opt
<1>6. ASSUME NEW row \in CategoryRows, NEW old \in CategoryRows
      PROVE  LET new == [slug |-> row.slug, parent |-> Keep(row.parent, old.parent)] IN
             new \in CategoryRows /\ AsTyped(new, row)
  BY DEF CategoryRows, Keep, AsTyped, Opt
<1> QED
  BY <1>1, <1>2, <1>3, <1>4, <1>5, <1>6

\* The rows of a table.
LEMMA PresentRows ==
  ASSUME NEW d \in Dbs
  PROVE  /\ Present(d.product) = {x \in Goods : d.product[x] # Null}
         /\ Present(d.variant) = {x \in Variants : d.variant[x] # Null}
         /\ Present(d.price) = {x \in Prices : d.price[x] # Null}
         /\ Present(d.image) = {x \in Images : d.image[x] # Null}
         /\ Present(d.category) = {x \in Categories : d.category[x] # Null}
         /\ \A x \in Present(d.product) : d.product[x] \in ProductRows
         /\ \A x \in Present(d.variant) : d.variant[x] \in VariantRows /\ d.variant[x].product \in Goods
         /\ \A x \in Present(d.price) : d.price[x] \in PriceRows
         /\ \A x \in Present(d.image) : d.image[x] \in ImageRows
         /\ \A x \in Present(d.category) : d.category[x] \in CategoryRows
<1>1. /\ d.product \in ProductTable /\ d.variant \in VariantTable /\ d.price \in PriceTable
      /\ d.image \in ImageTable /\ d.category \in CategoryTable
  BY DEF Dbs
<1>2. Present(d.product) = {x \in Goods : d.product[x] # Null}
      /\ \A x \in Present(d.product) : d.product[x] \in ProductRows
  BY <1>1 DEF ProductTable, Present, Opt
<1>3. Present(d.variant) = {x \in Variants : d.variant[x] # Null}
      /\ \A x \in Present(d.variant) : d.variant[x] \in VariantRows
  BY <1>1 DEF VariantTable, Present, Opt
<1>4. Present(d.price) = {x \in Prices : d.price[x] # Null}
      /\ \A x \in Present(d.price) : d.price[x] \in PriceRows
  BY <1>1 DEF PriceTable, Present, Opt
<1>5. Present(d.image) = {x \in Images : d.image[x] # Null}
      /\ \A x \in Present(d.image) : d.image[x] \in ImageRows
  BY <1>1 DEF ImageTable, Present, Opt
<1>6. Present(d.category) = {x \in Categories : d.category[x] # Null}
      /\ \A x \in Present(d.category) : d.category[x] \in CategoryRows
  BY <1>1 DEF CategoryTable, Present, Opt
<1>7. \A row \in VariantRows : row.product \in Goods
  BY DEF VariantRows
<1> QED
  BY <1>2, <1>3, <1>4, <1>5, <1>6, <1>7

\* A row is none that is missing.
LEMMA RowsAreSome ==
  /\ \A row \in ProductRows : row # Null
  /\ \A row \in VariantRows : row # Null
BY CatalogAssumption

\* A statement that touches neither products nor variants.
LEMMA OtherTables ==
  ASSUME DbSound(db), db' \in Dbs, db'.product = db.product, db'.variant = db.variant,
         NEW q, Reflected(db', q)
  PROVE  Effect(q)
BY DEF DbSound, Effect

\* Statements about products: a deletion takes the variants along.
LEMMA ProductServed ==
  ASSUME DbSound(db), NEW q, q.kind = "product", Addressed(q), ServeProduct(q)
  PROVE  Effect(q)
<1> DEFINE id == q.id
<1>1. db \in Dbs /\ id \in Goods
  BY DEF DbSound, Addressed
<1>2. CASE q.op = "create" /\ CreateProduct(q.id, q.row)
  <2>1. q.row \in ProductRows /\ q.row # Null /\ db.product[id] = Null /\ db' = [db EXCEPT !.product[id] = q.row]
    BY <1>2, RowsAreSome DEF Addressed, CreateProduct
  <2>2. /\ db' \in Dbs /\ db'.product[id] = q.row /\ db'.variant = db.variant /\ db'.price = db.price
        /\ \A x \in Goods \ {id} : db'.product[x] = db.product[x]
    BY <1>1, <2>1, ProductSet DEF Opt
  <2>3. DbSound(db')
    BY <1>1, <2>1, <2>2, PresentRows DEF DbSound
  <2>4. Reflected(db', q)
    BY <1>2, <2>1, <2>2, RowsAsTyped DEF Reflected
  <2>5. \A x \in Present(db'.product) : x \in Present(db.product) \/ q.id = x
    BY <1>1, <2>2, PresentRows
  <2> QED
    BY <1>2, <2>2, <2>3, <2>4, <2>5 DEF Effect
<1>3. CASE q.op = "update" /\ UpdateProduct(q.id, q.row)
  <2> DEFINE new == [note |-> Keep(q.row.note, db.product[id].note)]
  <2>1. db.product[id] \in ProductRows /\ q.row \in ProductRows
        /\ db' = [db EXCEPT !.product[id] = new]
    BY <1>1, <1>3, PresentRows DEF Addressed, UpdateProduct
  <2>2. new \in ProductRows /\ AsTyped(new, q.row)
    BY <2>1, RowsAsTyped
  <2> HIDE DEF new
  <2>3. new # Null
    BY <2>2, RowsAreSome
  <2>4. /\ db' \in Dbs /\ db'.product[id] = new /\ db'.variant = db.variant /\ db'.price = db.price
        /\ \A x \in Goods \ {id} : db'.product[x] = db.product[x]
    BY <1>1, <2>1, <2>2, ProductSet DEF Opt
  <2>5. DbSound(db')
    BY <1>1, <2>3, <2>4, PresentRows DEF DbSound
  <2>6. Reflected(db', q)
    BY <1>3, <2>2, <2>4 DEF Reflected
  <2>7. \A x \in Present(db'.product) : x \in Present(db.product)
    <3>1. db.product[id] # Null
      BY <1>3 DEF UpdateProduct
    <3> QED
      BY <1>1, <2>4, <3>1, PresentRows
  <2> QED
    BY <1>3, <2>4, <2>5, <2>6, <2>7 DEF Effect
<1>4. CASE q.op = "delete" /\ DeleteProduct(q.id)
  <2> DEFINE d == [db EXCEPT !.product[id] = Null]
  <2>1. /\ d \in Dbs /\ d.product[id] = Null /\ d.variant = db.variant /\ d.price = db.price
        /\ \A x \in Goods \ {id} : d.product[x] = db.product[x]
    BY <1>1, ProductSet DEF Opt
  <2>2. db' = Cascade(d)
    BY <1>4 DEF DeleteProduct
  <2> HIDE DEF d
  <2>3. /\ DbSound(db') /\ db'.product = d.product
        /\ \A v \in Variants :
              db'.variant[v] = d.variant[v] \/ (db'.variant[v] = Null /\ d.product[d.variant[v].product] = Null)
        /\ db'.price = d.price \/ \E r \in Present(d.price) : d.price[r].variant \notin Present(db'.variant)
    BY <2>1, <2>2, CascadeSound
  <2>4. Reflected(db', q)
    BY <1>4, <2>1, <2>3 DEF Reflected
  <2>5. db' \in Dbs
    BY <2>3 DEF DbSound
  <2>6. \A x \in Present(db'.product) : x \in Present(db.product)
    BY <1>1, <2>1, <2>3, <2>5, PresentRows
  <2>7. \A x \in Present(db'.variant) : x \in Present(db.variant)
    BY <1>1, <2>1, <2>3, <2>5, PresentRows
  <2>8. \A v \in Present(db.variant) :
          db'.variant[v] = db.variant[v] \/ db'.product[db.variant[v].product] = Null
    BY <1>1, <2>1, <2>3, PresentRows
  <2> QED
    BY <2>1, <2>3, <2>4, <2>6, <2>7, <2>8 DEF Effect
<1> QED
  BY <1>2, <1>3, <1>4 DEF ServeProduct

\* Statements about variants: a deletion takes the prices along.
LEMMA VariantServed ==
  ASSUME DbSound(db), NEW q, q.kind = "variant", Addressed(q), ServeVariant(q)
  PROVE  Effect(q)
<1> DEFINE id == q.id
<1>1. db \in Dbs /\ id \in Variants
  BY DEF DbSound, Addressed
<1>2. ASSUME NEW row \in VariantRows, db' = [db EXCEPT !.variant[id] = row], q.op \in {"create", "update"},
             q.op = "update" => db.variant[id] # Null /\ row.product = db.variant[id].product,
             q.op = "create" => db.variant[id] = Null,
             db.product[row.product] # Null, AsTyped(row, q.row)
      PROVE  Effect(q)
  <2>1. /\ db' \in Dbs /\ db'.variant[id] = row /\ db'.product = db.product /\ db'.price = db.price
        /\ \A x \in Variants \ {id} : db'.variant[x] = db.variant[x]
    BY <1>1, <1>2, VariantSet DEF Opt
  <2>1a. /\ q.op = "update" => db.variant[id] # Null
         /\ q.op \in {"create", "update"} /\ db.product[row.product] # Null
    BY <1>2
  <2>2. DbSound(db')
    <3>1. \A v \in Variants : db'.variant[v] # Null => db'.product[db'.variant[v].product] # Null
      BY <1>1, <2>1, <2>1a, PresentRows DEF DbSound
    <3> QED
      BY <2>1, <3>1, PresentRows DEF DbSound
  <2>3. Reflected(db', q)
    BY <1>2, <2>1 DEF Reflected
  <2>4. \A x \in Present(db'.variant) :
          x \in Present(db.variant) \/ (q.kind = "variant" /\ q.op = "create" /\ q.id = x)
    BY <1>1, <2>1, <2>1a, PresentRows
  <2>5. \A v \in Present(db.variant) :
          db'.variant[v] = db.variant[v] \/ (q.kind = "variant" /\ q.op # "create" /\ q.id = v)
    BY <1>1, <1>2, <2>1, PresentRows
  <2> QED
    BY <2>1, <2>2, <2>3, <2>4, <2>5 DEF Effect
<1>3. CASE q.op = "create" /\ CreateVariant(q.id, q.row)
  BY <1>2, <1>3, RowsAsTyped DEF Addressed, CreateVariant
<1>4. CASE q.op = "update" /\ UpdateVariant(q.id, q.row)
  <2> DEFINE old == db.variant[id]
             new == [product |-> old.product, sku |-> q.row.sku, active |-> q.row.active]
  <2>1. old # Null /\ db' = [db EXCEPT !.variant[id] = new] /\ q.row \in VariantRows
    BY <1>4 DEF Addressed, UpdateVariant
  <2>2. old \in VariantRows /\ db.product[old.product] # Null
    BY <1>1, <2>1, PresentRows DEF DbSound
  <2> HIDE DEF old
  <2>3. new \in VariantRows /\ AsTyped(new, q.row) /\ new.product = old.product
    BY <2>1, <2>2, RowsAsTyped
  <2> HIDE DEF new
  <2> QED
    BY <1>2, <1>4, <2>1, <2>2, <2>3 DEF old
<1>5. CASE q.op = "delete" /\ DeleteVariant(q.id)
  <2> DEFINE d == [db EXCEPT !.variant[id] = Null]
  <2>1. /\ d \in Dbs /\ d.variant[id] = Null /\ d.product = db.product /\ d.price = db.price
        /\ \A x \in Variants \ {id} : d.variant[x] = db.variant[x]
    BY <1>1, VariantSet DEF Opt
  <2>2. db' = Cascade(d)
    BY <1>5 DEF DeleteVariant
  <2> HIDE DEF d
  <2>3. /\ DbSound(db') /\ db'.product = d.product
        /\ \A v \in Variants :
              db'.variant[v] = d.variant[v] \/ (db'.variant[v] = Null /\ d.product[d.variant[v].product] = Null)
        /\ db'.price = d.price \/ \E r \in Present(d.price) : d.price[r].variant \notin Present(db'.variant)
    BY <2>1, <2>2, CascadeSound
  <2>4. Reflected(db', q)
    BY <1>1, <1>5, <2>1, <2>3 DEF Reflected
  <2>5. db' \in Dbs
    BY <2>3 DEF DbSound
  <2>6. \A x \in Present(db'.variant) : x \in Present(db.variant)
    BY <1>1, <2>1, <2>3, <2>5, PresentRows
  <2>7. \A v \in Present(db.variant) :
          db'.variant[v] = db.variant[v] \/ db'.product[db.variant[v].product] = Null \/ v = id
    BY <1>1, <2>1, <2>3, PresentRows
  <2> QED
    BY <1>5, <2>1, <2>3, <2>4, <2>6, <2>7 DEF Effect
<1> QED
  BY <1>3, <1>4, <1>5 DEF ServeVariant

\* Statements about prices ...
LEMMA PriceServed ==
  ASSUME DbSound(db), NEW q, q.kind = "price", Addressed(q), ServePrice(q)
  PROVE  Effect(q)
<1> DEFINE id == q.id
<1>1. db \in Dbs /\ id \in Prices
  BY DEF DbSound, Addressed
<1>2. ASSUME NEW row \in Opt(PriceRows), db' = [db EXCEPT !.price[id] = row],
             IF q.op = "delete" THEN row = Null ELSE AsTyped(row, q.row)
      PROVE  Effect(q)
  <2>1. db' \in Dbs /\ db'.price[id] = row /\ db'.product = db.product /\ db'.variant = db.variant
    BY <1>1, <1>2, PriceSet
  <2>2. Reflected(db', q)
    BY <1>2, <2>1 DEF Reflected
  <2> QED
    BY <1>2, <2>1, <2>2, OtherTables
<1>3. CASE q.op = "create" /\ CreatePrice(q.id, q.row)
  BY <1>2, <1>3, RowsAsTyped DEF Addressed, CreatePrice, Opt
<1>4. CASE q.op = "update" /\ UpdatePrice(q.id, q.row)
  <2> DEFINE old == db.price[id]
             new == [variant |-> old.variant, list |-> q.row.list, sale |-> Keep(q.row.sale, old.sale),
                     starts |-> Keep(q.row.starts, old.starts)]
  <2>1. old # Null /\ db' = [db EXCEPT !.price[id] = new] /\ q.row \in PriceRows
    BY <1>4 DEF Addressed, UpdatePrice
  <2>2. old \in PriceRows
    BY <1>1, <2>1, PresentRows
  <2> HIDE DEF old
  <2>3. new \in PriceRows /\ AsTyped(new, q.row)
    BY <2>1, <2>2, RowsAsTyped
  <2> HIDE DEF new
  <2> QED
    BY <1>2, <1>4, <2>1, <2>3 DEF Opt
<1>5. CASE q.op = "delete" /\ DeletePrice(q.id)
  BY <1>2, <1>5 DEF DeletePrice, Opt
<1> QED
  BY <1>3, <1>4, <1>5 DEF ServePrice

\* ... images ...
LEMMA ImageServed ==
  ASSUME DbSound(db), NEW q, q.kind = "image", Addressed(q), ServeImage(q)
  PROVE  Effect(q)
<1> DEFINE id == q.id
<1>1. db \in Dbs /\ id \in Images
  BY DEF DbSound, Addressed
<1>2. ASSUME NEW row \in Opt(ImageRows), db' = [db EXCEPT !.image[id] = row],
             IF q.op = "delete" THEN row = Null ELSE AsTyped(row, q.row)
      PROVE  Effect(q)
  <2>1. db' \in Dbs /\ db'.image[id] = row /\ db'.product = db.product /\ db'.variant = db.variant
    BY <1>1, <1>2, ImageSet
  <2>2. Reflected(db', q)
    BY <1>2, <2>1 DEF Reflected
  <2> QED
    BY <1>2, <2>1, <2>2, OtherTables
<1>3. CASE q.op = "create" /\ CreateImage(q.id, q.row)
  BY <1>2, <1>3, RowsAsTyped DEF Addressed, CreateImage, Opt
<1>4. CASE q.op = "update" /\ UpdateImage(q.id, q.row)
  <2> DEFINE old == db.image[id]
             new == [product |-> old.product, variant |-> Keep(q.row.variant, old.variant)]
  <2>1. old # Null /\ db' = [db EXCEPT !.image[id] = new] /\ q.row \in ImageRows
    BY <1>4 DEF Addressed, UpdateImage
  <2>2. old \in ImageRows
    BY <1>1, <2>1, PresentRows
  <2> HIDE DEF old
  <2>3. new \in ImageRows /\ AsTyped(new, q.row)
    BY <2>1, <2>2, RowsAsTyped
  <2> HIDE DEF new
  <2> QED
    BY <1>2, <1>4, <2>1, <2>3 DEF Opt
<1>5. CASE q.op = "delete" /\ DeleteImage(q.id)
  BY <1>2, <1>5 DEF DeleteImage, Opt
<1> QED
  BY <1>3, <1>4, <1>5 DEF ServeImage

\* ... categories ...
LEMMA CategoryServed ==
  ASSUME DbSound(db), NEW q, q.kind = "category", Addressed(q), ServeCategory(q)
  PROVE  Effect(q)
<1> DEFINE id == q.id
<1>1. db \in Dbs /\ id \in Categories
  BY DEF DbSound, Addressed
<1>2. ASSUME NEW row \in CategoryRows, db' = [db EXCEPT !.category[id] = row],
             q.op # "delete", AsTyped(row, q.row)
      PROVE  Effect(q)
  <2>1. /\ db' \in Dbs /\ db'.category[id] = row /\ db'.product = db.product
        /\ db'.variant = db.variant
    BY <1>1, <1>2, CategorySet DEF Opt
  <2>2. Reflected(db', q)
    BY <1>2, <2>1 DEF Reflected
  <2> QED
    BY <1>2, <2>1, <2>2, OtherTables
<1>3. CASE q.op = "create" /\ CreateCategory(q.id, q.row)
  BY <1>2, <1>3, RowsAsTyped DEF Addressed, CreateCategory
<1>4. CASE q.op = "update" /\ UpdateCategory(q.id, q.row)
  <2> DEFINE old == db.category[id]
             new == [slug |-> q.row.slug, parent |-> Keep(q.row.parent, old.parent)]
  <2>1. old # Null /\ db' = [db EXCEPT !.category[id] = new] /\ q.row \in CategoryRows
    BY <1>4 DEF Addressed, UpdateCategory
  <2>2. old \in CategoryRows
    BY <1>1, <2>1, PresentRows
  <2> HIDE DEF old
  <2>3. new \in CategoryRows /\ AsTyped(new, q.row)
    BY <2>1, <2>2, RowsAsTyped
  <2> HIDE DEF new
  <2> QED
    BY <1>2, <1>4, <2>1, <2>3
<1>5. CASE q.op = "delete" /\ DeleteCategory(q.id)
  <2> DEFINE d == [db EXCEPT !.category[id] = Null]
  <2>1. /\ d \in Dbs /\ d.category[id] = Null /\ d.product = db.product /\ d.variant = db.variant
        /\ d.price = db.price
    BY <1>1, CategorySet DEF Opt
  <2>2. db' = Cascade(d)
    BY <1>5 DEF DeleteCategory
  <2> HIDE DEF d
  <2>3. /\ DbSound(db') /\ db'.product = d.product /\ db'.category = d.category
        /\ \A v \in Variants :
              db'.variant[v] = d.variant[v] \/ (db'.variant[v] = Null /\ d.product[d.variant[v].product] = Null)
        /\ db'.price = d.price \/ \E r \in Present(d.price) : d.price[r].variant \notin Present(db'.variant)
    BY <2>1, <2>2, CascadeSound
  <2>4. Reflected(db', q)
    BY <1>5, <2>1, <2>3 DEF Reflected
  <2>5. db' \in Dbs
    BY <2>3 DEF DbSound
  <2>6. \A x \in Present(db'.variant) : x \in Present(db.variant)
    BY <1>1, <2>1, <2>3, <2>5, PresentRows
  <2>7. \A v \in Present(db.variant) :
          db'.variant[v] = db.variant[v] \/ db'.product[db.variant[v].product] = Null
    BY <1>1, <2>1, <2>3, PresentRows
  <2> QED
    BY <2>1, <2>3, <2>4, <2>6, <2>7 DEF Effect
<1> QED
  BY <1>3, <1>4, <1>5 DEF ServeCategory

\* ... and the relation of the two.
LEMMA MapServed ==
  ASSUME DbSound(db), NEW q, q.kind = "map", Addressed(q), ServeMap(q)
  PROVE  Effect(q)
<1>1. db \in Dbs /\ q.id \in Goods \X Categories /\ db.map \in SUBSET (Goods \X Categories)
  BY DEF DbSound, Addressed, Dbs
<1>2. q.id = <<q.id[1], q.id[2]>>
  BY <1>1
<1>3. ASSUME NEW map \in SUBSET (Goods \X Categories), db' = [db EXCEPT !.map = map],
             IF q.op = "create" THEN q.id \in map /\ db.product[q.id[1]] # Null ELSE q.id \notin map
      PROVE  Effect(q)
  <2>1. db' \in Dbs /\ db'.map = map /\ db'.product = db.product /\ db'.variant = db.variant
    BY <1>1, <1>3, MapSet
  <2>2. Reflected(db', q)
    BY <1>3, <2>1 DEF Reflected
  <2> QED
    BY <1>3, <2>1, <2>2, OtherTables
<1>4. CASE q.op = "create" /\ AssignCategoryToProduct(q.id[1], q.id[2])
  <2>1. db' = [db EXCEPT !.map = db.map \cup {q.id}] /\ db.product[q.id[1]] # Null
    BY <1>2, <1>4 DEF AssignCategoryToProduct
  <2> QED
    BY <1>1, <1>3, <1>4, <2>1
<1>5. CASE q.op = "delete" /\ UnassignCategoryFromProduct(q.id[1], q.id[2])
  <2>1. db' = [db EXCEPT !.map = db.map \ {q.id}]
    BY <1>2, <1>5 DEF UnassignCategoryFromProduct
  <2> QED
    BY <1>1, <1>3, <1>5, <2>1
<1> QED
  BY <1>4, <1>5 DEF ServeMap

-----------------------------------------------------------------------------
(* The listing, and the price that an order finds in it.                   *)

Listing ==
  [product : ProductTable, map : SUBSET (Goods \X Categories), variant : VariantTable,
   price : PriceTable, image : ImageTable]

Readings == [seen : SUBSET Dbs, cut : BOOLEAN]

\* A listing is made of tables of states that were seen.
LEMMA ListingIs ==
  ASSUME NEW seen \in SUBSET Dbs, NEW l \in Listings(seen)
  PROVE  /\ l \in Listing
         /\ \E a, b, c, d, e \in seen :
              l = FindAll(a.product, b.map, c.variant, d.price, e.image)
<1>1. PICK a \in seen, b \in seen, c \in seen, d \in seen, e \in seen :
        l = FindAll(a.product, b.map, c.variant, d.price, e.image)
  BY DEF Listings
<1>2. /\ a.product \in ProductTable /\ b.map \in SUBSET (Goods \X Categories)
      /\ c.variant \in VariantTable /\ d.price \in PriceTable /\ e.image \in ImageTable
  BY DEF Dbs
<1>3. /\ l.product = a.product /\ l.map \in SUBSET (Goods \X Categories)
      /\ l = [product |-> l.product, map |-> l.map, variant |-> l.variant, price |-> l.price, image |-> l.image]
  BY <1>1, <1>2 DEF FindAll
<1>4. l.variant \in VariantTable
  BY <1>1, <1>2 DEF FindAll, Present, VariantTable, Opt
<1>5. l.price \in PriceTable
  BY <1>1, <1>2 DEF FindAll, Present, PriceTable, Opt
<1>6. l.image \in ImageTable
  BY <1>1, <1>2 DEF FindAll, Present, ImageTable, Opt
<1> QED
  BY <1>1, <1>2, <1>3, <1>4, <1>5, <1>6 DEF Listing

\* A finite set with two elements at most has no three.
LEMMA NoThree ==
  ASSUME NEW S, IsFiniteSet(S), Cardinality(S) <= 2, NEW x \in S, NEW y \in S, NEW z \in S
  PROVE  x = y \/ y = z \/ x = z
<1> SUFFICES ASSUME x # y, y # z, x # z PROVE FALSE
  OBVIOUS
<1>1. IsFiniteSet({x}) /\ Cardinality({x}) = 1
  BY FS_Singleton
<1>2. IsFiniteSet({x} \cup {y}) /\ Cardinality({x} \cup {y}) = 2
  <2>1. y \notin {x}
    OBVIOUS
  <2>2. Cardinality({x} \cup {y}) = 1 + 1 /\ IsFiniteSet({x} \cup {y})
    BY ONLY <1>1, <2>1, FS_AddElement
  <2> QED
    BY <2>2
<1>3. IsFiniteSet({x} \cup {y} \cup {z}) /\ Cardinality({x} \cup {y} \cup {z}) = 3
  <2>1. z \notin {x} \cup {y}
    OBVIOUS
  <2>2. Cardinality({x} \cup {y} \cup {z}) = 2 + 1 /\ IsFiniteSet({x} \cup {y} \cup {z})
    BY ONLY <1>2, <2>1, FS_AddElement
  <2> QED
    BY <2>2
<1>4. Cardinality({x} \cup {y} \cup {z}) <= Cardinality(S)
  BY FS_Subset
<1>5. Cardinality(S) \in Nat
  BY FS_CardinalityType
<1> QED
  BY <1>3, <1>4, <1>5

\* Two states that a reader saw differ in variants or in prices, not in both.
ReadingOk(reading) ==
  /\ reading \in Readings /\ IsFiniteSet(reading.seen)
  /\ \A d \in reading.seen : DbSound(d)
  /\ ~reading.cut /\ Cardinality(reading.seen) <= 2 =>
       \A d, e \in reading.seen : d.variant = e.variant \/ d.price = e.price

\* A reader has seen one state when it begins ...
LEMMA ReadingStarts ==
  ASSUME DbSound(db)
  PROVE  ReadingOk(Reading(db)) /\ db \in Reading(db).seen
<1>1. Reading(db).seen = {db} /\ Reading(db) \in Readings
  BY DEF Reading, Readings, DbSound
<1>2. IsFiniteSet({db})
  BY FS_Singleton
<1> QED
  BY <1>1, <1>2 DEF ReadingOk

\* ... and each later one ...
LEMMA NotedReading ==
  ASSUME NEW reading \in Readings, DbSound(db')
  PROVE  /\ Noted(reading) \in Readings /\ Noted(reading).seen = reading.seen \cup {db'}
BY DEF Noted, Readings, DbSound

\* ... so that what it saw stays ReadingOk.
LEMMA ReadingGoesOn ==
  ASSUME ReadingOk(pricing), db \in pricing.seen, NEW q, Effect(q)
  PROVE  ReadingOk(Noted(pricing)) /\ db' \in Noted(pricing).seen
<1> DEFINE next == Noted(pricing)
<1>1. /\ next \in Readings /\ next.seen = pricing.seen \cup {db'}
      /\ next.cut = (pricing.cut \/ \E r \in Present(db.price) :
                        db.price[r].variant \notin Present(db'.variant))
  BY NotedReading DEF ReadingOk, Effect, Noted
<1>2. IsFiniteSet(next.seen) /\ \A d \in next.seen : DbSound(d)
  BY <1>1, FS_AddElement DEF ReadingOk, Effect
<1>3. ASSUME ~next.cut, Cardinality(next.seen) <= 2, NEW d \in next.seen, NEW e \in next.seen
      PROVE  d.variant = e.variant \/ d.price = e.price
  <2>1. db'.variant = db.variant \/ db'.price = db.price
    BY <1>1, <1>3 DEF Effect
  <2>2. CASE db' \in pricing.seen
    <3>1. next.seen = pricing.seen /\ ~pricing.cut
      BY <1>1, <1>3, <2>2 DEF ReadingOk, Readings
    <3> QED
      BY <1>3, <3>1 DEF ReadingOk
  <2>3. CASE db' \notin pricing.seen
    <3>1. \A f \in pricing.seen : f = db
      BY <1>1, <1>2, <1>3, <2>3, NoThree
    <3> QED
      BY <1>1, <1>3, <2>1, <3>1
  <2> QED
    BY <2>2, <2>3
<1> QED
  BY <1>1, <1>2, <1>3 DEF ReadingOk

\* A set of natural numbers that is not empty has a smallest.
LEMMA Smallest ==
  ASSUME NEW S \in SUBSET Nat, S # {}
  PROVE  \E m \in S : \A n \in S : m <= n
<1>1. PICK m \in S : \A n \in S : <<n, m>> \notin OpToRel(<, Nat)
  BY NatLessThanWellFounded, WFMin
<1>2. \A n \in S : ~(n < m)
  BY <1>1 DEF OpToRel
<1> QED
  BY <1>2

\* Of the listed prices of a variant one comes first.
LEMMA OneComesFirst ==
  ASSUME NEW l \in Listing, NEW v, NEW r \in Present(l.price),
         l.price[r].variant = v
  PROVE  FirstPrices(l, v) # {}
<1> DEFINE rs == {s \in Present(l.price) : l.price[s].variant = v}
           T == {l.price[s].starts : s \in rs}
<1>1. \A s \in rs : l.price[s] \in PriceRows
  BY DEF Listing, PriceTable, Opt, Present
<1>2. T \subseteq Opt(Starts) /\ Starts \subseteq Nat
  BY <1>1, CatalogAssumption DEF PriceRows
<1>3. FirstPrices(l, v) =
        {s \in rs : \A t \in rs :
           l.price[s].starts = Null
           \/ (l.price[t].starts # Null /\ l.price[s].starts <= l.price[t].starts)}
  BY DEF FirstPrices
<1>4. CASE \E s \in rs : l.price[s].starts = Null
  BY <1>3, <1>4
<1>5. CASE \A s \in rs : l.price[s].starts # Null
  <2>1. T \subseteq Nat /\ T # {}
    BY <1>2, <1>5 DEF Opt
  <2>2. PICK x \in T : \A y \in T : x <= y
    BY <2>1, Smallest
  <2>3. PICK s \in rs : l.price[s].starts = x
    BY <2>2
  <2>4. \A t \in rs : l.price[t].starts # Null /\ l.price[s].starts <= l.price[t].starts
    BY <1>5, <2>2, <2>3
  <2> QED
    BY <1>3, <2>3, <2>4
<1> QED
  BY <1>4, <1>5

\* What is listed of a product p: nothing, or its active variants with their
\* prices, as the two tables were read.
ListsOf(l, p, products, variants, prices) ==
  IF p \notin Present(products) THEN FirstVariants(l, p) = {}
  ELSE /\ \A v : (v \in Present(l.variant) /\ l.variant[v].product = p) <=>
            (v \in Present(variants) /\ variants[v].product = p /\ variants[v].active)
       /\ \A v \in Present(l.variant) : l.variant[v] = variants[v]
       /\ \A v \in Present(l.variant) : \A r :
            (r \in Present(l.price) /\ l.price[r].variant = v) <=>
              (r \in Present(prices) /\ prices[r].variant = v)
       /\ \A r \in Present(l.price) : l.price[r] = prices[r]

\* FindAll lists what ListsOf says.
LEMMA ListedIs ==
  ASSUME NEW products, NEW map, NEW variants \in VariantTable, NEW prices \in PriceTable, NEW images,
         NEW l, l = FindAll(products, map, variants, prices, images), NEW p
  PROVE  ListsOf(l, p, products, variants, prices)
<1> DEFINE vs == {v \in Present(variants) : variants[v].active
                                              /\ variants[v].product \in Present(products)}
<1>1. /\ l.variant = [v \in Variants |-> IF v \in vs THEN variants[v] ELSE Null]
      /\ l.price = [r \in Prices |->
           IF r \in Present(prices) /\ prices[r].variant \in vs THEN prices[r] ELSE Null]
  BY DEF FindAll
<1>2. /\ Present(variants) = {v \in Variants : variants[v] # Null}
      /\ Present(prices) = {r \in Prices : prices[r] # Null}
  BY DEF VariantTable, PriceTable, Present
<1>3. \A v : v \in vs <=> /\ v \in Present(variants) /\ variants[v].active
                          /\ variants[v].product \in Present(products)
  OBVIOUS
<1> HIDE DEF vs
<1>4. Present(l.variant) = vs /\ \A v \in vs : l.variant[v] = variants[v]
  <2>1. Present(l.variant) = {v \in Variants : l.variant[v] # Null}
    BY <1>1 DEF Present
  <2>2. \A v \in Variants : l.variant[v] = IF v \in vs THEN variants[v] ELSE Null
    BY <1>1
  <2> QED
    BY <1>2, <1>3, <2>1, <2>2
<1>5. /\ Present(l.price) = {r \in Present(prices) : prices[r].variant \in vs}
      /\ \A r \in Present(l.price) : l.price[r] = prices[r]
  <2>1. Present(l.price) = {r \in Prices : l.price[r] # Null}
    BY <1>1 DEF Present
  <2>2. \A r \in Prices : l.price[r] =
          IF r \in Present(prices) /\ prices[r].variant \in vs THEN prices[r] ELSE Null
    BY <1>1
  <2> QED
    BY <1>2, <2>1, <2>2
<1>6. ASSUME p \notin Present(products)
      PROVE  FirstVariants(l, p) = {}
  BY <1>3, <1>4, <1>6 DEF FirstVariants
<1>7. ASSUME p \in Present(products)
      PROVE  \A v : (v \in Present(l.variant) /\ l.variant[v].product = p) <=>
                   (v \in Present(variants) /\ variants[v].product = p /\ variants[v].active)
  BY <1>3, <1>4, <1>7
<1>8. ASSUME NEW v \in Present(l.variant)
      PROVE  \A r : (r \in Present(l.price) /\ l.price[r].variant = v) <=>
                     (r \in Present(prices) /\ prices[r].variant = v)
  BY <1>4, <1>5, <1>8
<1> QED
  BY <1>4, <1>5, <1>6, <1>7, <1>8 DEF ListsOf

\* The price that is found is what the product cost in one of the states.
LEMMA AmountTrue ==
  ASSUME NEW reading, ReadingOk(reading), ~reading.cut,
         Cardinality(reading.seen) <= 2,
         NEW l \in Listings(reading.seen), NEW p \in Goods, NEW x \in UnitPrices(l, p)
  PROVE  \E d \in reading.seen : x \in Costs(d, p)
<1> DEFINE seen == reading.seen
<1>1. seen \in SUBSET Dbs /\ \A d \in seen : DbSound(d)
  BY DEF ReadingOk, Readings
<1>2. PICK a \in seen, b \in seen, c \in seen, d4 \in seen, e \in seen :
        l = FindAll(a.product, b.map, c.variant, d4.price, e.image)
  BY <1>1, ListingIs
<1>2a. ListsOf(l, p, a.product, c.variant, d4.price)
  <2>1. c.variant \in VariantTable /\ d4.price \in PriceTable
    BY <1>1 DEF Dbs
  <2> QED
    BY <1>2, <2>1, ListedIs
<1>3. PICK d \in seen : d.variant = c.variant /\ d.price = d4.price
  BY DEF ReadingOk
<1>4. l \in Listing
  BY <1>1, ListingIs
<1> DEFINE rs == UNION {FirstPrices(l, v) : v \in FirstVariants(l, p)}
<1>5. IF rs = {} THEN x = 0 ELSE \E r \in rs : x = Keep(l.price[r].sale, l.price[r].list)
  BY DEF UnitPrices
<1>6. CASE p \notin Present(a.product)
  <2>1. FirstVariants(l, p) = {}
    BY <1>2a, <1>6 DEF ListsOf
  <2>2. x = 0
    BY <1>5, <2>1
  <2>3. \A v \in Present(a.variant) : a.variant[v].product # p
    BY <1>1, <1>6, PresentRows DEF DbSound
  <2>4. x \in Costs(a, p)
    BY <2>2, <2>3 DEF Costs
  <2> QED
    BY <2>4
<1>7. CASE p \in Present(a.product)
  <2> DEFINE sold == {v \in Present(d.variant) : d.variant[v].product = p /\ d.variant[v].active}
             Of(v) == {r \in Present(d.price) : d.price[r].variant = v}
  <2>1. /\ {v \in Present(l.variant) : l.variant[v].product = p} = sold
        /\ \A v \in sold : v \in Present(l.variant) /\ l.variant[v] = d.variant[v]
        /\ \A v \in sold : {r \in Present(l.price) : l.price[r].variant = v} = Of(v)
        /\ \A v \in sold : \A r \in Of(v) : r \in Present(l.price) /\ l.price[r] = d.price[r]
    <3>1. /\ {v \in Present(l.variant) : l.variant[v].product = p} = sold
          /\ \A v \in Present(l.variant) : l.variant[v] = d.variant[v]
          /\ \A v \in Present(l.variant) : {r \in Present(l.price) : l.price[r].variant = v} = Of(v)
          /\ \A r \in Present(l.price) : l.price[r] = d.price[r]
      <4>1. /\ \A v : (v \in Present(l.variant) /\ l.variant[v].product = p) <=>
                  (v \in Present(c.variant) /\ c.variant[v].product = p /\ c.variant[v].active)
            /\ \A v \in Present(l.variant) : l.variant[v] = c.variant[v]
            /\ \A v \in Present(l.variant) : \A r :
                 (r \in Present(l.price) /\ l.price[r].variant = v) <=>
                   (r \in Present(d4.price) /\ d4.price[r].variant = v)
            /\ \A r \in Present(l.price) : l.price[r] = d4.price[r]
        BY <1>7, <1>2a DEF ListsOf
      <4> QED
        BY <1>3, <4>1
    <3> QED
      BY <3>1
  <2>2. \A v : v \in FirstVariants(l, p) <=>
          v \in sold /\ \A w \in sold : d.variant[v].sku <= d.variant[w].sku
    BY <2>1 DEF FirstVariants
  <2>3. \A v \in sold : \A r : r \in FirstPrices(l, v) <=>
          /\ r \in Of(v)
          /\ \A s \in Of(v) : d.price[r].starts = Null
               \/ (d.price[s].starts # Null /\ d.price[r].starts <= d.price[s].starts)
    BY <2>1 DEF FirstPrices
  <2>4. \A v \in sold : Of(v) # {} => FirstPrices(l, v) # {}
    BY <1>4, <2>1, OneComesFirst
  <2>5. CASE rs = {}
    <3>1. x = 0
      BY <1>5, <2>5
    <3>2. \A v \in FirstVariants(l, p) : FirstPrices(l, v) = {}
      BY <2>5
    <3>3. \A v \in sold : (\A w \in sold : d.variant[v].sku <= d.variant[w].sku) => Of(v) = {}
      BY <2>2, <2>4, <3>2
    <3> QED
      BY <3>1, <3>3 DEF Costs
  <2>6. CASE rs # {}
    <3>1. PICK v \in FirstVariants(l, p) :
            \E r \in FirstPrices(l, v) : x = Keep(l.price[r].sale, l.price[r].list)
      BY <1>5, <2>6
    <3>1a. PICK r \in FirstPrices(l, v) : x = Keep(l.price[r].sale, l.price[r].list)
      BY <3>1
    <3>2. /\ v \in sold /\ (\A w \in sold : d.variant[v].sku <= d.variant[w].sku)
          /\ r \in Of(v) /\ l.price[r] = d.price[r]
          /\ \A s \in Of(v) : d.price[r].starts = Null
               \/ (d.price[s].starts # Null /\ d.price[r].starts <= d.price[s].starts)
      BY <2>1, <2>2, <2>3, <3>1, <3>1a
    <3>3. x = IF d.price[r].sale = Null THEN d.price[r].list ELSE d.price[r].sale
      BY <3>1a, <3>2 DEF Keep
    <3>4. d.price[r] \in PriceRows
      BY <1>1, <3>2, PresentRows
    <3>5. x \in ListPrices \cup SalePrices \cup {0}
      BY <3>3, <3>4 DEF PriceRows, Opt
    <3>6. \E y \in {d.price[s] : s \in Of(v)} :
            /\ \A z \in {d.price[s] : s \in Of(v)} :
                 y.starts = Null \/ (z.starts # Null /\ y.starts <= z.starts)
            /\ x = IF y.sale = Null THEN y.list ELSE y.sale
      BY <3>2, <3>3
    <3> QED
      BY <3>2, <3>5, <3>6 DEF Costs
  <2> QED
    BY <2>5, <2>6
<1> QED
  BY <1>6, <1>7

-----------------------------------------------------------------------------
(* The calls under way, and the pages.                                     *)

Items == Goods \cup Variants
Ids   == Items \cup Prices \cup Images \cup Categories \cup Goods \X Categories
TypedRows  == Opt(ProductRows \cup VariantRows \cup PriceRows \cup ImageRows \cup CategoryRows)
Ops   == {"create", "update", "delete"}
Asked == Kinds \cup {"map", "stock"}

SentCalls ==
  [phase : {"sent"}, console : Consoles, kind : Asked, op : Ops, id : Ids, row : TypedRows]
ServedCalls ==
  [phase : {"stored", "served"}, console : Consoles, kind : Asked, op : Ops, id : Ids, row : TypedRows,
   after : Dbs]
ReadingCalls ==
  [phase : {"reading"}, console : Consoles, kind : Asked, op : Ops, id : Ids, row : TypedRows,
   after : Dbs, reading : Readings]
CallRecords == {NoHandler} \cup SentCalls \cup ServedCalls \cup ReadingCalls

\* A call under way asks for what it names, and since it was served the tables
\* are as it left them, or were.
CallSound(q) ==
  /\ q \in CallRecords
  /\ q.phase # "free" => Addressed(q) /\ (q.kind = "stock" => q.phase = "sent" /\ q.id \in Items)
  /\ q.phase \in {"stored", "served", "reading"} => Reflected(q.after, q)
  /\ q.phase = "stored" => q.id \in Items

FormIds ==
  [product |-> Goods, variant |-> Variants, price |-> Prices, image |-> Images,
   category |-> Categories]

\* Pages, forms and topics hold what they are for, and the calls are sound.
AdminTypes ==
  /\ lists \in [Consoles -> [list : Listing, category : CategoryTable]]
  /\ editing \in [Consoles -> [Kinds -> Opt(Ids)]]
  /\ \A c \in Consoles : \A kind \in Kinds : editing[c][kind] \in Opt(FormIds[kind])
  /\ stock \subseteq Items /\ topic \subseteq Items
  /\ handlers \in [Handlers -> CallRecords] /\ \A k \in Handlers : CallSound(handlers[k])

AdminInv ==
  /\ AdminTypes
  /\ DbSound(db)
  /\ StockFollows
  /\ pricing # Null => ReadingOk(pricing) /\ db \in pricing.seen
  /\ PriceWasTrue

\* What the phase of a call says about its record.
LEMMA PhaseIs ==
  ASSUME NEW q \in CallRecords
  PROVE  /\ q.phase = "free" => q = NoHandler
         /\ q.phase = "sent" => q \in SentCalls
         /\ q.phase \in {"stored", "served"} => q \in ServedCalls
         /\ q.phase = "reading" => q \in ReadingCalls
         /\ q.phase \in {"free", "sent", "stored", "served", "reading"}
BY DEF CallRecords, SentCalls, ServedCalls, ReadingCalls, NoHandler

\* A free slot asks for nothing.
LEMMA FreeSound == CallSound(NoHandler)
BY DEF CallSound, CallRecords, NoHandler

\* What is true of a call is true of the same call later.
LEMMA SameRequest ==
  ASSUME NEW q, NEW r, r.kind = q.kind, r.op = q.op, r.id = q.id, r.row = q.row, NEW d
  PROVE  /\ Addressed(q) => Addressed(r)
         /\ Reflected(d, q) => Reflected(d, r)
<1>1. Addressed(q) => Addressed(r)
  BY DEF Addressed
<1>2. Reflected(d, q) => Reflected(d, r)
  BY DEF Reflected
<1> QED
  BY <1>1, <1>2

Sent(c, kind, op, id, row) ==
  [phase |-> "sent", console |-> c, kind |-> kind, op |-> op, id |-> id, row |-> row]

\* A call that was just sent is sound.
LEMMA SentSound ==
  ASSUME NEW c \in Consoles, NEW kind \in Asked, NEW op \in Ops, NEW id \in Ids, NEW row \in TypedRows,
         kind = "product" => id \in Goods /\ (op # "delete" => row \in ProductRows),
         kind = "variant" => id \in Variants /\ (op # "delete" => row \in VariantRows),
         kind = "price" => id \in Prices /\ (op # "delete" => row \in PriceRows),
         kind = "image" => id \in Images /\ (op # "delete" => row \in ImageRows),
         kind = "category" => id \in Categories /\ (op # "delete" => row \in CategoryRows),
         kind = "map" => id \in Goods \X Categories,
         kind = "stock" => id \in Items
  PROVE  CallSound(Sent(c, kind, op, id, row))
<1> DEFINE q == Sent(c, kind, op, id, row)
<1>1. /\ q.phase = "sent" /\ q.kind = kind /\ q.op = op /\ q.id = id /\ q.row = row
      /\ q \in SentCalls
  BY DEF Sent, SentCalls
<1> HIDE DEF q
<1>2. q \in CallRecords
  BY <1>1 DEF CallRecords
<1>3. Addressed(q)
  BY <1>1 DEF Addressed
<1> QED
  BY <1>1, <1>2, <1>3 DEF CallSound, q

\* A step on the pages and in the calls alone.
LEMMA PagesOnly ==
  ASSUME AdminInv, AdminTypes', UNCHANGED <<db, stock, topic, lost, pricing, priced>>,
         \A k \in Handlers : handlers[k].phase = "stored" =>
           handlers'[k].phase = "stored" /\ handlers'[k].id = handlers[k].id
  PROVE  AdminInv'
<1>1. StockFollows'
  BY DEF AdminInv, StockFollows
<1>2. DbSound(db') /\ (pricing' # Null => ReadingOk(pricing') /\ db' \in pricing'.seen)
  BY DEF AdminInv
<1>3. PriceWasTrue'
  BY DEF AdminInv, PriceWasTrue
<1> QED
  BY <1>1, <1>2, <1>3 DEF AdminInv

-----------------------------------------------------------------------------
(* Clicks.                                                                 *)

LEMMA ClickSent ==
  ASSUME AdminInv, NEW c \in Consoles, NEW k \in Handlers, NEW kind, NEW op, NEW id, NEW row,
         CallSound(Sent(c, kind, op, id, row)), Ask(c, k, kind, op, id, row)
  PROVE  AdminInv'
<1>1. /\ handlers[k].phase = "free" /\ handlers' = [handlers EXCEPT ![k] = Sent(c, kind, op, id, row)]
      /\ UNCHANGED <<db, stock, topic, lost, pricing, priced>> /\ UNCHANGED <<lists, editing>>
  BY DEF Ask, catalogVars, consoleVars, Sent
<1>2. handlers \in [Handlers -> CallRecords] /\ Sent(c, kind, op, id, row) \in CallRecords
  BY DEF AdminInv, AdminTypes, CallSound
<1>3. /\ handlers' \in [Handlers -> CallRecords]
      /\ handlers'[k] = Sent(c, kind, op, id, row) /\ \A j \in Handlers : j # k => handlers'[j] = handlers[j]
  BY <1>1, <1>2
<1>4. \A j \in Handlers : CallSound(handlers'[j])
  BY <1>3 DEF AdminInv, AdminTypes
<1>5. AdminTypes'
  BY <1>1, <1>3, <1>4 DEF AdminInv, AdminTypes
<1> QED
  BY <1>1, <1>3, <1>5, PagesOnly

\* A form is saved, ...
LEMMA SaveKeeps ==
  ASSUME AdminInv, NEW c \in Consoles, NEW k \in Handlers, NEW kind \in Kinds, NEW ids, NEW listed, NEW rows,
         ids = FormIds[kind], Save(c, k, kind, ids, listed, rows),
         \A id \in ids : \A row \in rows : \A op \in {"create", "update"} :
           CallSound(Sent(c, kind, op, id, row))
  PROVE  AdminInv'
<1>1. editing[c][kind] \in Opt(ids)
  BY DEF AdminInv, AdminTypes
<1>2. \E op \in {"create", "update"}, id \in ids, row \in rows : Ask(c, k, kind, op, id, row)
  BY <1>1 DEF Save, Opt
<1> QED
  BY <1>2, ClickSent

\* ... an entry deleted, ...
LEMMA DeleteKeeps ==
  ASSUME AdminInv, NEW c \in Consoles, NEW k \in Handlers, NEW kind, NEW listed,
         Delete(c, k, kind, listed),
         \A id \in listed : CallSound(Sent(c, kind, "delete", id, Null))
  PROVE  AdminInv'
BY ClickSent DEF Delete

\* ... or a form filled from an entry.
LEMMA EditKeeps ==
  ASSUME AdminInv, NEW c \in Consoles, NEW kind \in Kinds, NEW listed, listed \subseteq FormIds[kind],
         Edit(c, kind, listed)
  PROVE  AdminInv'
<1>1. PICK id \in listed : editing' = [editing EXCEPT ![c][kind] = id]
  BY DEF Edit
<1>2. UNCHANGED <<db, stock, topic, lost, pricing, priced>> /\ UNCHANGED <<lists, handlers>>
  BY DEF Edit, catalogVars
<1>3. id \in FormIds[kind] /\ FormIds[kind] \subseteq Ids
  BY <1>1 DEF FormIds, Kinds, Ids, Items
<1>4. editing \in [Consoles -> [Kinds -> Opt(Ids)]]
  BY DEF AdminInv, AdminTypes
<1>5. /\ editing' \in [Consoles -> [Kinds -> Opt(Ids)]]
      /\ \A b \in Consoles : \A form \in Kinds :
           editing'[b][form] = IF b = c /\ form = kind THEN id ELSE editing[b][form]
  BY <1>1, <1>3, <1>4 DEF Opt
<1>6. \A b \in Consoles : \A form \in Kinds : editing'[b][form] \in Opt(FormIds[form])
  BY <1>3, <1>5 DEF AdminInv, AdminTypes, Opt
<1>7. AdminTypes'
  BY <1>2, <1>5, <1>6 DEF AdminInv, AdminTypes
<1> QED
  BY <1>2, <1>7, PagesOnly

\* What a page lists is of the kind that it is listed as.
LEMMA ListedIds ==
  ASSUME AdminTypes, NEW c \in Consoles
  PROVE  /\ ListedProducts(c) \subseteq Goods /\ ListedVariants(c) \subseteq Variants
         /\ ListedPrices(c) \subseteq Prices /\ ListedImages(c) \subseteq Images
         /\ ListedCategories(c) \subseteq Categories
         /\ lists[c].list.map \subseteq Goods \X Categories
<1>1. /\ lists[c] \in [list : Listing, category : CategoryTable]
      /\ lists[c].list \in Listing /\ lists[c].category \in CategoryTable
  BY DEF AdminTypes
<1>2. /\ lists[c].list.product \in ProductTable /\ lists[c].list.map \in SUBSET (Goods \X Categories)
      /\ lists[c].list.variant \in VariantTable /\ lists[c].list.price \in PriceTable
      /\ lists[c].list.image \in ImageTable
  BY <1>1 DEF Listing
<1>3. /\ DOMAIN lists[c].list.product = Goods /\ DOMAIN lists[c].list.variant = Variants
      /\ DOMAIN lists[c].list.price = Prices /\ DOMAIN lists[c].list.image = Images
      /\ DOMAIN lists[c].category = Categories
  BY <1>1, <1>2 DEF ProductTable, VariantTable, PriceTable, ImageTable, CategoryTable
<1> QED
  BY <1>2, <1>3 DEF ListedProducts, ListedVariants, ListedPrices, ListedImages,
                    ListedCategories, Present

\* The clicks that send a call.
LEMMA ClickKeeps ==
  ASSUME AdminInv, NEW c \in Consoles, NEW k \in Handlers,
         \/ HandleCreateProduct(c, k) \/ HandleDeleteProduct(c, k)
         \/ HandleCreateOrUpdateVariant(c, k) \/ HandleDeleteVariant(c, k)
         \/ HandleCreateOrUpdatePrice(c, k) \/ HandleDeletePrice(c, k)
         \/ HandleCreateOrUpdateImage(c, k) \/ HandleDeleteImage(c, k)
         \/ HandleCreateOrUpdateCategory(c, k) \/ HandleDeleteCategory(c, k)
         \/ HandleAssignCategory(c, k) \/ HandleUnassignCategory(c, k)
         \/ HandleUpsertStock(c, k) \/ HandleDeleteStockItem(c, k)
  PROVE  AdminInv'
<1>1. /\ ListedProducts(c) \subseteq Goods /\ ListedVariants(c) \subseteq Variants
      /\ ListedPrices(c) \subseteq Prices /\ ListedImages(c) \subseteq Images
      /\ ListedCategories(c) \subseteq Categories
      /\ lists[c].list.map \subseteq Goods \X Categories /\ stock \subseteq Items
  BY ListedIds DEF AdminInv, AdminTypes
<1>2. /\ FormIds["product"] = Goods /\ FormIds["variant"] = Variants /\ FormIds["price"] = Prices
      /\ FormIds["image"] = Images /\ FormIds["category"] = Categories
  BY DEF FormIds
<1>3. /\ Goods \subseteq Ids /\ Variants \subseteq Ids /\ Prices \subseteq Ids /\ Images \subseteq Ids
      /\ Categories \subseteq Ids /\ Goods \X Categories \subseteq Ids /\ Items \subseteq Ids
  BY DEF Ids, Items
<1>4. /\ Null \in TypedRows /\ ProductRows \subseteq TypedRows /\ VariantRows \subseteq TypedRows
      /\ PriceRows \subseteq TypedRows /\ ImageRows \subseteq TypedRows /\ CategoryRows \subseteq TypedRows
  BY DEF TypedRows, Opt
<1>5. /\ {"product", "variant", "price", "image", "category"} = Kinds
      /\ {"product", "variant", "price", "image", "category", "map", "stock"} = Asked
      /\ Ops = {"create", "update", "delete"}
  BY DEF Kinds, Asked, Ops
<1>6. CASE HandleCreateProduct(c, k)
  <2>1. \A id \in Goods : \A row \in ProductRows : \A op \in {"create", "update"} :
          CallSound(Sent(c, "product", op, id, row))
    BY <1>3, <1>4, <1>5, SentSound
  <2> QED
    BY <1>2, <1>5, <1>6, <2>1, SaveKeeps DEF HandleCreateProduct
<1>7. CASE HandleDeleteProduct(c, k)
  <2>1. \A id \in Goods : CallSound(Sent(c, "product", "delete", id, Null))
    BY <1>3, <1>4, <1>5, SentSound
  <2> QED
    BY <1>1, <1>7, <2>1, DeleteKeeps DEF HandleDeleteProduct
<1>8. CASE HandleCreateOrUpdateVariant(c, k)
  <2>1. \A id \in Variants : \A row \in VariantRows : \A op \in {"create", "update"} :
          CallSound(Sent(c, "variant", op, id, row))
    BY <1>3, <1>4, <1>5, SentSound
  <2> DEFINE rows == {row \in VariantRows : row.product \in ListedProducts(c)}
  <2>2. Save(c, k, "variant", Variants, ListedVariants(c), rows)
    BY <1>8 DEF HandleCreateOrUpdateVariant
  <2>3. \A id \in Variants : \A row \in rows : \A op \in {"create", "update"} :
          CallSound(Sent(c, "variant", op, id, row))
    BY <2>1
  <2> HIDE DEF rows
  <2> QED
    BY <1>2, <1>5, <2>2, <2>3, SaveKeeps
<1>9. CASE HandleDeleteVariant(c, k)
  <2>1. \A id \in Variants : CallSound(Sent(c, "variant", "delete", id, Null))
    BY <1>3, <1>4, <1>5, SentSound
  <2> QED
    BY <1>1, <1>9, <2>1, DeleteKeeps DEF HandleDeleteVariant
<1>10. CASE HandleCreateOrUpdatePrice(c, k)
  <2>1. \A id \in Prices : \A row \in PriceRows : \A op \in {"create", "update"} :
          CallSound(Sent(c, "price", op, id, row))
    BY <1>3, <1>4, <1>5, SentSound
  <2> QED
    BY <1>2, <1>5, <1>10, <2>1, SaveKeeps DEF HandleCreateOrUpdatePrice
<1>11. CASE HandleDeletePrice(c, k)
  <2>1. \A id \in Prices : CallSound(Sent(c, "price", "delete", id, Null))
    BY <1>3, <1>4, <1>5, SentSound
  <2> QED
    BY <1>1, <1>11, <2>1, DeleteKeeps DEF HandleDeletePrice
<1>12. CASE HandleCreateOrUpdateImage(c, k)
  <2>1. \A id \in Images : \A row \in ImageRows : \A op \in {"create", "update"} :
          CallSound(Sent(c, "image", op, id, row))
    BY <1>3, <1>4, <1>5, SentSound
  <2> QED
    BY <1>2, <1>5, <1>12, <2>1, SaveKeeps DEF HandleCreateOrUpdateImage
<1>13. CASE HandleDeleteImage(c, k)
  <2>1. \A id \in Images : CallSound(Sent(c, "image", "delete", id, Null))
    BY <1>3, <1>4, <1>5, SentSound
  <2> QED
    BY <1>1, <1>13, <2>1, DeleteKeeps DEF HandleDeleteImage
<1>14. CASE HandleCreateOrUpdateCategory(c, k)
  <2>1. \A id \in Categories : \A row \in CategoryRows : \A op \in {"create", "update"} :
          CallSound(Sent(c, "category", op, id, row))
    BY <1>3, <1>4, <1>5, SentSound
  <2> DEFINE rows == {row \in CategoryRows : row.parent = Null}
  <2>2. Save(c, k, "category", Categories, ListedCategories(c), rows)
    BY <1>14 DEF HandleCreateOrUpdateCategory
  <2>3. \A id \in Categories : \A row \in rows : \A op \in {"create", "update"} :
          CallSound(Sent(c, "category", op, id, row))
    BY <2>1
  <2> HIDE DEF rows
  <2> QED
    BY <1>2, <1>5, <2>2, <2>3, SaveKeeps
<1>15. CASE HandleDeleteCategory(c, k)
  <2>1. \A id \in Categories : CallSound(Sent(c, "category", "delete", id, Null))
    BY <1>3, <1>4, <1>5, SentSound
  <2> QED
    BY <1>1, <1>15, <2>1, DeleteKeeps DEF HandleDeleteCategory
<1>16. CASE HandleAssignCategory(c, k)
  <2>1. \A id \in Goods \X Categories : CallSound(Sent(c, "map", "create", id, Null))
    BY <1>3, <1>4, <1>5, SentSound
  <2> QED
    BY <1>1, <1>16, <2>1, ClickSent DEF HandleAssignCategory
<1>17. CASE HandleUnassignCategory(c, k)
  <2>1. \A id \in Goods \X Categories : CallSound(Sent(c, "map", "delete", id, Null))
    BY <1>3, <1>4, <1>5, SentSound
  <2> QED
    BY <1>1, <1>17, <2>1, ClickSent DEF HandleUnassignCategory
<1>18. CASE HandleUpsertStock(c, k)
  <2>1. \A id \in Items : CallSound(Sent(c, "stock", "create", id, Null))
    BY <1>3, <1>4, <1>5, SentSound
  <2> QED
    BY <1>1, <1>18, <2>1, ClickSent DEF HandleUpsertStock, Items
<1>19. CASE HandleDeleteStockItem(c, k)
  <2>1. \A id \in Items : CallSound(Sent(c, "stock", "delete", id, Null))
    BY <1>3, <1>4, <1>5, SentSound
  <2> QED
    BY <1>1, <1>19, <2>1, ClickSent DEF HandleDeleteStockItem
<1> QED
  BY <1>6, <1>7, <1>8, <1>9, <1>10, <1>11, <1>12, <1>13, <1>14, <1>15, <1>16, <1>17, <1>18, <1>19

\* The clicks that open a form.
LEMMA FormKeeps ==
  ASSUME AdminInv, NEW c \in Consoles,
         \/ HandleEditProduct(c) \/ HandleEditVariant(c) \/ HandleEditPrice(c)
         \/ HandleEditImage(c) \/ HandleEditCategory(c)
  PROVE  AdminInv'
<1>1. /\ ListedProducts(c) \subseteq FormIds["product"] /\ ListedVariants(c) \subseteq FormIds["variant"]
      /\ ListedPrices(c) \subseteq FormIds["price"] /\ ListedImages(c) \subseteq FormIds["image"]
      /\ ListedCategories(c) \subseteq FormIds["category"]
  BY ListedIds DEF AdminInv, FormIds
<1>2. {"product", "variant", "price", "image", "category"} = Kinds
  BY DEF Kinds
<1>3. CASE HandleEditProduct(c)
  BY <1>1, <1>2, <1>3, EditKeeps DEF HandleEditProduct
<1>4. CASE HandleEditVariant(c)
  BY <1>1, <1>2, <1>4, EditKeeps DEF HandleEditVariant
<1>5. CASE HandleEditPrice(c)
  BY <1>1, <1>2, <1>5, EditKeeps DEF HandleEditPrice
<1>6. CASE HandleEditImage(c)
  BY <1>1, <1>2, <1>6, EditKeeps DEF HandleEditImage
<1>7. CASE HandleEditCategory(c)
  BY <1>1, <1>2, <1>7, EditKeeps DEF HandleEditCategory
<1> QED
  BY <1>3, <1>4, <1>5, <1>6, <1>7

-----------------------------------------------------------------------------
(* The services and the answers.                                           *)

LEMMA ServeEffect ==
  ASSUME AdminInv, NEW k \in Handlers, Serve(k)
  PROVE  /\ handlers[k] \in SentCalls /\ handlers[k].phase = "sent" /\ handlers[k].kind # "stock"
         /\ Addressed(handlers[k]) /\ Effect(handlers[k])
<1> DEFINE q == handlers[k]
<1>1. q.phase = "sent" /\ CallSound(q)
  BY DEF Serve, AdminInv, AdminTypes
<1>2. q \in SentCalls /\ Addressed(q) /\ q.kind \in Asked /\ DbSound(db)
  BY <1>1, PhaseIs DEF CallSound, SentCalls, AdminInv
<1>3. CASE q.kind = "product" BY <1>2, <1>3, ProductServed DEF Serve
<1>4. CASE q.kind = "variant" BY <1>2, <1>4, VariantServed DEF Serve
<1>5. CASE q.kind = "price" BY <1>2, <1>5, PriceServed DEF Serve
<1>6. CASE q.kind = "image" BY <1>2, <1>6, ImageServed DEF Serve
<1>7. CASE q.kind = "category" BY <1>2, <1>7, CategoryServed DEF Serve
<1>8. CASE q.kind = "map" BY <1>2, <1>8, MapServed DEF Serve
<1>9. q.kind # "stock"
  BY DEF Serve
<1>10. q.kind \in {"product", "variant", "price", "image", "category", "map", "stock"}
  BY <1>2 DEF Asked, Kinds
<1> QED
  BY <1>3, <1>4, <1>5, <1>6, <1>7, <1>8, <1>9, <1>10

\* A reading that goes on is that of a sound call.
LEMMA NotesMore ==
  ASSUME NEW q, CallSound(q), q.phase = "reading", NEW more \in Readings
  PROVE  LET r == [q EXCEPT !.reading = more] IN
         CallSound(r) /\ r.phase = "reading" /\ r.id = q.id
<1> DEFINE r == [q EXCEPT !.reading = more]
<1>1. q \in ReadingCalls
  BY PhaseIs DEF CallSound
<1>2. /\ r \in ReadingCalls /\ r.phase = "reading" /\ r.kind = q.kind /\ r.op = q.op /\ r.id = q.id
      /\ r.row = q.row /\ r.after = q.after
  BY <1>1 DEF ReadingCalls
<1> HIDE DEF r
<1>3. Addressed(r) /\ Reflected(r.after, r)
  BY <1>2, SameRequest DEF CallSound
<1>4. r.kind # "stock"
  BY <1>2 DEF CallSound
<1>5. CallSound(r)
  BY <1>2, <1>3, <1>4 DEF CallSound, CallRecords
<1> QED
  BY <1>2, <1>5 DEF r

\* A statement of the catalog: every reader notes the new state.
LEMMA ServeKeeps ==
  ASSUME AdminInv, NEW k \in Handlers, Serve(k)
  PROVE  AdminInv'
<1> DEFINE q == handlers[k]
           announced == q.op = "create" /\ q.kind \in {"product", "variant"}
           served == [phase |-> IF announced THEN "stored" ELSE "served", console |-> q.console,
                      kind |-> q.kind, op |-> q.op, id |-> q.id, row |-> q.row, after |-> db']
<1>1. /\ q \in SentCalls /\ q.phase = "sent" /\ q.kind # "stock"
      /\ Addressed(q) /\ Effect(q)
  BY ServeEffect
<1>2. /\ handlers' = [j \in Handlers |-> IF j = k THEN served
                     ELSE IF handlers[j].phase = "reading" THEN [handlers[j] EXCEPT !.reading = Noted(@)]
                     ELSE handlers[j]]
      /\ pricing' = IF pricing = Null THEN Null ELSE Noted(pricing)
      /\ stock' = stock /\ topic' = topic /\ lost' = lost /\ priced' = priced
      /\ lists' = lists /\ editing' = editing
  BY DEF Serve, consoleVars
<1>3. /\ served \in ServedCalls /\ served.kind = q.kind /\ served.op = q.op /\ served.id = q.id
      /\ served.row = q.row /\ served.after = db'
      /\ served.phase = (IF announced THEN "stored" ELSE "served")
  BY <1>1 DEF Effect, DbSound, SentCalls, ServedCalls
<1> HIDE DEF q, served
<1>4. CallSound(served)
  <2>1. Addressed(served) /\ Reflected(served.after, served)
    BY <1>1, <1>3, SameRequest DEF Effect
  <2>2. served.phase = "stored" => served.id \in Items
    BY <1>1, <1>3 DEF Addressed, Items
  <2>3. served \in CallRecords /\ served.kind # "stock"
    BY <1>1, <1>3 DEF CallRecords
  <2> QED
    BY <2>1, <2>2, <2>3 DEF CallSound
<1>5. handlers'[k] = served
  BY <1>2
<1>6. ASSUME NEW j \in Handlers, j # k
      PROVE  /\ CallSound(handlers'[j])
             /\ handlers'[j].phase = handlers[j].phase
             /\ handlers[j].phase = "stored" => handlers'[j].id = handlers[j].id
  <2>1. CallSound(handlers[j])
    BY DEF AdminInv, AdminTypes
  <2>2. CASE handlers[j].phase = "reading"
    <3>1. handlers[j] \in ReadingCalls /\ handlers[j].reading \in Readings
      BY <2>1, <2>2, PhaseIs DEF CallSound, ReadingCalls
    <3>2. Noted(handlers[j].reading) \in Readings
      BY <1>1, <3>1, NotedReading DEF Effect
    <3>3. handlers'[j] = [handlers[j] EXCEPT !.reading = Noted(handlers[j].reading)]
      BY <1>2, <1>6, <2>2, <3>1 DEF ReadingCalls
    <3>4. CallSound(handlers'[j]) /\ handlers'[j].phase = "reading"
      BY <2>1, <2>2, <3>2, <3>3, NotesMore
    <3> QED
      BY <2>2, <3>4
  <2>3. CASE handlers[j].phase # "reading"
    BY <1>2, <1>6, <2>1, <2>3
  <2> QED
    BY <2>2, <2>3
<1>7. AdminTypes'
  <2>1. \A j \in Handlers : CallSound(handlers'[j]) /\ handlers'[j] \in CallRecords
    BY <1>4, <1>5, <1>6 DEF CallSound
  <2>2. handlers' \in [Handlers -> CallRecords]
    BY <1>2, <2>1
  <2> QED
    BY <1>2, <2>1, <2>2 DEF AdminInv, AdminTypes
<1>8. StockFollows'
  <2>1. SUFFICES ASSUME NEW x \in Present(db'.product) \cup Present(db'.variant)
                 PROVE  \/ x \in stock \cup topic \cup lost
                        \/ \E j \in Handlers : handlers'[j].phase = "stored" /\ handlers'[j].id = x
    BY <1>2 DEF StockFollows
  <2>2. CASE x \in Present(db.product) \cup Present(db.variant)
    <3>1. \/ x \in stock \cup topic \cup lost
          \/ \E j \in Handlers : handlers[j].phase = "stored" /\ handlers[j].id = x
      BY <2>2 DEF AdminInv, StockFollows
    <3> QED
      BY <1>1, <1>6, <3>1 DEF q
  <2>3. CASE x \notin Present(db.product) \cup Present(db.variant)
    <3>1. q.kind \in {"product", "variant"} /\ q.op = "create" /\ q.id = x
      BY <1>1, <2>1, <2>3 DEF Effect
    <3> QED
      BY <1>3, <1>5, <3>1
  <2> QED
    BY <2>2, <2>3
<1>9. pricing' # Null => ReadingOk(pricing') /\ db' \in pricing'.seen
  <2>1. CASE pricing = Null
    BY <1>2, <2>1
  <2>2. CASE pricing # Null
    <3>1. ReadingOk(pricing) /\ db \in pricing.seen /\ pricing' = Noted(pricing)
      BY <1>2, <2>2 DEF AdminInv
    <3> QED
      BY <1>1, <3>1, ReadingGoesOn
  <2> QED
    BY <2>1, <2>2
<1>10. PriceWasTrue'
  BY <1>2 DEF AdminInv, PriceWasTrue
<1>11. DbSound(db')
  BY <1>1 DEF Effect
<1> QED
  BY <1>7, <1>8, <1>9, <1>10, <1>11 DEF AdminInv

\* A slot whose handler moves on, or becomes free.
LEMMA SlotSet ==
  ASSUME AdminTypes, NEW k \in Handlers, NEW q, CallSound(q), handlers' = [handlers EXCEPT ![k] = q]
  PROVE  /\ handlers' \in [Handlers -> CallRecords] /\ \A j \in Handlers : CallSound(handlers'[j])
         /\ handlers'[k] = q /\ \A j \in Handlers : j # k => handlers'[j] = handlers[j]
<1>1. handlers \in [Handlers -> CallRecords] /\ q \in CallRecords
  BY DEF AdminTypes, CallSound
<1>2. /\ handlers' \in [Handlers -> CallRecords] /\ handlers'[k] = q
      /\ \A j \in Handlers : j # k => handlers'[j] = handlers[j]
  BY <1>1
<1>3. \A j \in Handlers : CallSound(handlers'[j])
  BY <1>2 DEF AdminTypes
<1> QED
  BY <1>2, <1>3

\* The use case emits its event after the statement.
LEMMA CreateUseCaseKeeps ==
  ASSUME AdminInv, NEW k \in Handlers, CreateUseCase(k)
  PROVE  AdminInv'
<1> DEFINE q == handlers[k]
           r == [q EXCEPT !.phase = "served"]
<1>1. /\ q.phase = "stored" /\ CallSound(q) /\ q \in ServedCalls /\ q.id \in Items
  BY PhaseIs DEF CreateUseCase, AdminInv, AdminTypes, CallSound
<1>2. /\ handlers' = [handlers EXCEPT ![k] = r] /\ topic' = topic \cup {q.id}
      /\ db' = db /\ stock' = stock /\ lost' = lost /\ pricing' = pricing /\ priced' = priced
      /\ lists' = lists /\ editing' = editing
  BY DEF CreateUseCase, Publish, consoleVars
<1>3. /\ r \in ServedCalls /\ r.phase = "served" /\ r.kind = q.kind /\ r.op = q.op /\ r.id = q.id
      /\ r.row = q.row /\ r.after = q.after
  BY <1>1 DEF ServedCalls
<1> HIDE DEF q, r
<1>4. CallSound(r)
  <2>1. Addressed(r) /\ Reflected(r.after, r) /\ q.kind # "stock"
    BY <1>1, <1>3, SameRequest DEF CallSound
  <2>2. r \in CallRecords
    BY <1>3 DEF CallRecords
  <2> QED
    BY <1>3, <2>1, <2>2 DEF CallSound
<1>5. /\ handlers' \in [Handlers -> CallRecords] /\ \A j \in Handlers : CallSound(handlers'[j])
      /\ \A j \in Handlers : j # k => handlers'[j] = handlers[j]
  BY <1>2, <1>4, SlotSet DEF AdminInv
<1>6. AdminTypes'
  BY <1>1, <1>2, <1>5 DEF AdminInv, AdminTypes
<1>7. StockFollows'
  <2>1. \A x \in Present(db.product) \cup Present(db.variant) :
          \/ x \in stock \cup topic \cup lost
          \/ \E j \in Handlers : handlers[j].phase = "stored" /\ handlers[j].id = x
    BY DEF AdminInv, StockFollows
  <2>2. \A x \in Present(db.product) \cup Present(db.variant) :
          \/ x \in stock \cup topic' \cup lost
          \/ \E j \in Handlers : handlers'[j].phase = "stored" /\ handlers'[j].id = x
    BY <1>2, <1>5, <2>1 DEF q
  <2> QED
    BY <1>2, <2>2 DEF StockFollows
<1>8. PriceWasTrue' /\ DbSound(db') /\ (pricing' # Null => ReadingOk(pricing') /\ db' \in pricing'.seen)
  BY <1>2 DEF AdminInv, PriceWasTrue
<1> QED
  BY <1>6, <1>7, <1>8 DEF AdminInv

\* The inventory service sets or deletes a row.
LEMMA ServeStockKeeps ==
  ASSUME AdminInv, NEW k \in Handlers, ServeStock(k)
  PROVE  AdminInv'
<1> DEFINE q == handlers[k]
<1>1. q.phase = "sent" /\ q.id \in Items
  BY DEF ServeStock, AdminInv, AdminTypes, CallSound
<1>2. /\ handlers' = [handlers EXCEPT ![k] = NoHandler]
      /\ \/ stock' = stock \cup {q.id} /\ lost' = lost
         \/ stock' = stock \ {q.id} /\ lost' = lost \cup {q.id}
      /\ db' = db /\ topic' = topic /\ pricing' = pricing /\ priced' = priced
      /\ lists' = lists /\ editing' = editing
  BY DEF ServeStock, consoleVars
<1> HIDE DEF q
<1>3. /\ handlers' \in [Handlers -> CallRecords] /\ \A j \in Handlers : CallSound(handlers'[j])
      /\ \A j \in Handlers : j # k => handlers'[j] = handlers[j]
  BY <1>2, FreeSound, SlotSet DEF AdminInv
<1>4. AdminTypes'
  BY <1>1, <1>2, <1>3 DEF AdminInv, AdminTypes
<1>5. StockFollows'
  <2>1. \A x \in Present(db.product) \cup Present(db.variant) :
          \/ x \in stock \cup topic \cup lost
          \/ \E j \in Handlers : handlers[j].phase = "stored" /\ handlers[j].id = x
    BY DEF AdminInv, StockFollows
  <2>2. \A j \in Handlers : handlers[j].phase = "stored" => handlers'[j] = handlers[j]
    BY <1>1, <1>3 DEF q
  <2>3. \A x \in Present(db.product) \cup Present(db.variant) :
          \/ x \in stock' \cup topic \cup lost'
          \/ \E j \in Handlers : handlers'[j].phase = "stored" /\ handlers'[j].id = x
    BY <1>2, <2>1, <2>2
  <2> QED
    BY <1>2, <2>3 DEF StockFollows
<1>6. PriceWasTrue' /\ DbSound(db') /\ (pricing' # Null => ReadingOk(pricing') /\ db' \in pricing'.seen)
  BY <1>2 DEF AdminInv, PriceWasTrue
<1> QED
  BY <1>4, <1>5, <1>6 DEF AdminInv

\* A console begins to read the lists again ...
LEMMA StartRefreshKeeps ==
  ASSUME AdminInv, NEW k \in Handlers, StartRefresh(k)
  PROVE  AdminInv'
<1> DEFINE q == handlers[k]
           r == [phase |-> "reading", console |-> q.console, kind |-> q.kind, op |-> q.op,
                 id |-> q.id, row |-> q.row, after |-> q.after, reading |-> Reading(db)]
<1>1. q.phase = "served" /\ CallSound(q) /\ q \in ServedCalls
  BY PhaseIs DEF StartRefresh, AdminInv, AdminTypes, CallSound
<1>2. /\ handlers' = [handlers EXCEPT ![k] = r]
      /\ UNCHANGED <<db, stock, topic, lost, pricing, priced>> /\ UNCHANGED <<lists, editing>>
  BY DEF StartRefresh, catalogVars, consoleVars
<1>3. Reading(db) \in Readings
  BY ReadingStarts DEF AdminInv, ReadingOk
<1>4. /\ r \in ReadingCalls /\ r.phase = "reading" /\ r.kind = q.kind /\ r.op = q.op /\ r.id = q.id
      /\ r.row = q.row /\ r.after = q.after
  BY <1>1, <1>3 DEF ServedCalls, ReadingCalls
<1> HIDE DEF q, r
<1>5. CallSound(r)
  <2>1. Addressed(r) /\ Reflected(r.after, r) /\ q.kind # "stock"
    BY <1>1, <1>4, SameRequest DEF CallSound
  <2>2. r \in CallRecords
    BY <1>4 DEF CallRecords
  <2> QED
    BY <1>4, <2>1, <2>2 DEF CallSound
<1>6. /\ handlers' \in [Handlers -> CallRecords] /\ \A j \in Handlers : CallSound(handlers'[j])
      /\ \A j \in Handlers : j # k => handlers'[j] = handlers[j]
  BY <1>2, <1>5, SlotSet DEF AdminInv
<1>7. AdminTypes'
  BY <1>2, <1>6 DEF AdminInv, AdminTypes
<1>8. \A j \in Handlers : handlers[j].phase = "stored" =>
        handlers'[j].phase = "stored" /\ handlers'[j].id = handlers[j].id
  BY <1>1, <1>6 DEF q
<1> QED
  BY <1>2, <1>7, <1>8, PagesOnly

\* ... and shows them.
LEMMA RefreshedKeeps ==
  ASSUME AdminInv, NEW k \in Handlers, Refreshed(k)
  PROVE  AdminInv'
<1> DEFINE q == handlers[k]
<1>1. q.phase = "reading" /\ q \in ReadingCalls
  BY PhaseIs DEF Refreshed, AdminInv, AdminTypes, CallSound
<1>2. q.console \in Consoles /\ q.reading.seen \in SUBSET Dbs
  BY <1>1 DEF ReadingCalls, Readings
<1>3. PICK l \in Listings(q.reading.seen), d \in q.reading.seen :
        lists' = [lists EXCEPT ![q.console] =
          Shown(l, IF q.kind = "product" THEN @.category ELSE d.category)]
  BY DEF Refreshed
<1>4. /\ handlers' = [handlers EXCEPT ![k] = NoHandler] /\ editing' = Cleared(q)
      /\ UNCHANGED <<db, stock, topic, lost, pricing, priced>>
  BY DEF Refreshed, catalogVars
<1> HIDE DEF q
<1>5. /\ handlers' \in [Handlers -> CallRecords] /\ \A j \in Handlers : CallSound(handlers'[j])
      /\ \A j \in Handlers : j # k => handlers'[j] = handlers[j]
  BY <1>4, FreeSound, SlotSet DEF AdminInv
<1>6. lists' \in [Consoles -> [list : Listing, category : CategoryTable]]
  <2>1. l \in Listing /\ d.category \in CategoryTable
    BY <1>2, <1>3, ListingIs DEF Dbs
  <2>2. lists \in [Consoles -> [list : Listing, category : CategoryTable]]
    BY DEF AdminInv, AdminTypes
  <2>3. lists[q.console].category \in CategoryTable
    BY <1>2, <2>2
  <2> QED
    BY <1>2, <1>3, <2>1, <2>2, <2>3 DEF Shown
<1>7. /\ editing' \in [Consoles -> [Kinds -> Opt(Ids)]]
      /\ \A c \in Consoles : \A kind \in Kinds :
           editing'[c][kind] = editing[c][kind] \/ editing'[c][kind] = Null
  <2>1. editing \in [Consoles -> [Kinds -> Opt(Ids)]]
    BY DEF AdminInv, AdminTypes
  <2>2. PICK form \in [Kinds -> Opt(Ids)] :
          /\ editing' = [editing EXCEPT ![q.console] = form]
          /\ \A kind \in Kinds : form[kind] = editing[q.console][kind] \/ form[kind] = Null
    <3> DEFINE form == [kind \in Kinds |->
          IF kind = q.kind /\ (q.op # "delete" \/ (kind = "product" /\ editing[q.console][kind] = q.id))
          THEN Null ELSE editing[q.console][kind]]
    <3>1. editing' = [editing EXCEPT ![q.console] = form]
      BY <1>4 DEF Cleared
    <3>2. /\ form \in [Kinds -> Opt(Ids)]
          /\ \A kind \in Kinds : form[kind] = editing[q.console][kind] \/ form[kind] = Null
      BY <1>2, <2>1 DEF Opt
    <3> QED
      BY <3>1, <3>2
  <2> QED
    BY <1>2, <2>1, <2>2
<1>8. \A c \in Consoles : \A kind \in Kinds : editing'[c][kind] \in Opt(FormIds[kind])
  BY <1>7 DEF AdminInv, AdminTypes, Opt
<1>9. AdminTypes'
  BY <1>4, <1>5, <1>6, <1>7, <1>8 DEF AdminInv, AdminTypes
<1>10. \A j \in Handlers : handlers[j].phase = "stored" =>
        handlers'[j].phase = "stored" /\ handlers'[j].id = handlers[j].id
  BY <1>1, <1>5 DEF q
<1> QED
  BY <1>4, <1>9, <1>10, PagesOnly

\* A call fails.
LEMMA RejectedKeeps ==
  ASSUME AdminInv, NEW k \in Handlers, Rejected(k)
  PROVE  AdminInv'
<1> DEFINE q == handlers[k]
<1>1. /\ handlers' = [handlers EXCEPT ![k] = NoHandler]
      /\ lost' = IF q.phase = "stored" THEN lost \cup {q.id} ELSE lost
      /\ db' = db /\ stock' = stock /\ topic' = topic /\ pricing' = pricing /\ priced' = priced
      /\ lists' = lists /\ editing' = editing
  BY DEF Rejected, consoleVars
<1> HIDE DEF q
<1>2. /\ handlers' \in [Handlers -> CallRecords] /\ \A j \in Handlers : CallSound(handlers'[j])
      /\ \A j \in Handlers : j # k => handlers'[j] = handlers[j]
  BY <1>1, FreeSound, SlotSet DEF AdminInv
<1>3. AdminTypes'
  BY <1>1, <1>2 DEF AdminInv, AdminTypes
<1>4. StockFollows'
  <2>1. \A x \in Present(db.product) \cup Present(db.variant) :
          \/ x \in stock \cup topic \cup lost
          \/ \E j \in Handlers : handlers[j].phase = "stored" /\ handlers[j].id = x
    BY DEF AdminInv, StockFollows
  <2>2. \A x \in Present(db.product) \cup Present(db.variant) :
          \/ x \in stock \cup topic \cup lost'
          \/ \E j \in Handlers : handlers'[j].phase = "stored" /\ handlers'[j].id = x
    BY <1>1, <1>2, <2>1 DEF q
  <2> QED
    BY <1>1, <2>2 DEF StockFollows
<1>5. PriceWasTrue' /\ DbSound(db') /\ (pricing' # Null => ReadingOk(pricing') /\ db' \in pricing'.seen)
  BY <1>1 DEF AdminInv, PriceWasTrue
<1> QED
  BY <1>3, <1>4, <1>5 DEF AdminInv

\* An order is priced, and the inventory service answers an event.
LEMMA OthersKeep ==
  ASSUME AdminInv,
         \/ Order
         \/ \E p \in Goods : CalculateOrderSubtotal(p) /\ UNCHANGED <<lists, editing, handlers>>
         \/ \E x \in topic : HandleCreated(x) /\ UNCHANGED <<lists, editing, handlers>>
  PROVE  AdminInv'
<1>1. CASE Order
  <2>1. /\ pricing' = Reading(db) /\ priced' = Null
        /\ db' = db /\ stock' = stock /\ topic' = topic /\ lost' = lost
        /\ lists' = lists /\ editing' = editing /\ handlers' = handlers
    BY <1>1 DEF Order, StartPricing, consoleVars
  <2>2. ReadingOk(pricing') /\ db' \in pricing'.seen
    BY <2>1, ReadingStarts DEF AdminInv
  <2>3. PriceWasTrue'
    BY <2>1 DEF PriceWasTrue
  <2>4. AdminTypes' /\ DbSound(db')
    BY <2>1 DEF AdminInv, AdminTypes
  <2>5. StockFollows'
    BY <2>1 DEF AdminInv, StockFollows
  <2> QED
    BY <2>2, <2>3, <2>4, <2>5 DEF AdminInv
<1>2. ASSUME NEW p \in Goods, CalculateOrderSubtotal(p), UNCHANGED <<lists, editing, handlers>>
      PROVE  AdminInv'
  <2>1. /\ pricing # Null /\ pricing' = Null
        /\ db' = db /\ stock' = stock /\ topic' = topic /\ lost' = lost
    BY <1>2 DEF CalculateOrderSubtotal
  <2>2. PICK l \in Listings(pricing.seen) : \E x \in UnitPrices(l, p) :
          priced' = [product |-> p, amount |-> x, from |-> pricing]
    BY <1>2 DEF CalculateOrderSubtotal
  <2>2a. PICK x \in UnitPrices(l, p) : priced' = [product |-> p, amount |-> x, from |-> pricing]
    BY <2>2
  <2>3. /\ priced'.product = p /\ priced'.amount = x /\ priced'.from = pricing
    BY <2>2a
  <2>4. PriceWasTrue'
    <3>1. ReadingOk(pricing)
      BY <2>1 DEF AdminInv
    <3>2. ~pricing.cut /\ Cardinality(pricing.seen) <= 2 =>
            \E d \in pricing.seen : x \in Costs(d, p)
      BY <2>2, <3>1, AmountTrue
    <3> QED
      BY <2>3, <3>2 DEF PriceWasTrue
  <2>5. AdminTypes' /\ DbSound(db')
    BY <1>2, <2>1 DEF AdminInv, AdminTypes
  <2>6. StockFollows'
    BY <1>2, <2>1 DEF AdminInv, StockFollows
  <2> QED
    BY <2>1, <2>4, <2>5, <2>6 DEF AdminInv
<1>3. ASSUME NEW x \in topic, HandleCreated(x), UNCHANGED <<lists, editing, handlers>>
      PROVE  AdminInv'
  <2>1. /\ stock' = stock \cup {x} /\ topic' \in {topic, topic \ {x}}
        /\ db' = db /\ lost' = lost /\ pricing' = pricing /\ priced' = priced
    BY <1>3 DEF HandleCreated, EnsureItem
  <2>2. AdminTypes' /\ DbSound(db')
    BY <1>3, <2>1 DEF AdminInv, AdminTypes
  <2>3. StockFollows'
    BY <1>3, <2>1 DEF AdminInv, StockFollows
  <2>4. PriceWasTrue' /\ (pricing' # Null => ReadingOk(pricing') /\ db' \in pricing'.seen)
    BY <2>1 DEF AdminInv, PriceWasTrue
  <2> QED
    BY <2>2, <2>3, <2>4 DEF AdminInv
<1> QED
  BY <1>1, <1>2, <1>3

-----------------------------------------------------------------------------
(* The theorems about the admin pages.                                     *)

\* A table with one row in it.
LEMMA SeededTable ==
  ASSUME NEW S, NEW rows, NEW id \in S, NEW row \in rows
  PROVE  /\ Seeded(S, id, row) \in [S -> Opt(rows)] /\ Seeded(S, id, row)[id] = row
         /\ \A x \in S : x # id => Seeded(S, id, row)[x] = Null
BY DEF Seeded, Opt

\* CHOOSE from a set that is not empty.
LEMMA SomeOne ==
  ASSUME NEW S, S # {}
  PROVE  Some(S) \in S
BY DEF Some

\* At the start the tables are listed as they are.
LEMMA AdminInitSound ==
  ASSUME AdminInit
  PROVE  AdminInv
<1>1. PICK v \in Variants, r \in Prices, i \in Images, g \in Categories, h \in Categories, sku \in Skus :
        /\ g # h
        /\ db = [product  |-> [p \in Goods |-> [note |-> Null]],
                 variant  |-> Seeded(Variants, v,
                    [product |-> Some(Goods), sku |-> sku, active |-> TRUE]),
                 price    |-> Seeded(Prices, r,
                    [variant |-> v, list |-> Some(ListPrices), sale |-> Null, starts |-> Null]),
                 image    |-> Seeded(Images, i, [product |-> Some(Goods), variant |-> Null]),
                 category |-> [Seeded(Categories, g, [slug |-> Some(Slugs), parent |-> h])
                    EXCEPT ![h] = [slug |-> Some(Slugs \ {Some(Slugs)}), parent |-> Null]],
                 map      |-> Goods \X {g}]
        /\ lost = {v}
  BY DEF AdminInit
<1>2. /\ Some(Goods) \in Goods /\ Some(ListPrices) \in ListPrices
      /\ Some(Slugs) \in Slugs /\ Some(Slugs \ {Some(Slugs)}) \in Slugs
  <2>1. Goods # {} /\ ListPrices # {} /\ Slugs # {} /\ Slugs \ {Some(Slugs)} # {}
    BY AdminConsoleAssumption
  <2> QED
    BY <2>1, SomeOne
<1> DEFINE shirt == [product |-> Some(Goods), sku |-> sku, active |-> TRUE]
           price == [variant |-> v, list |-> Some(ListPrices), sale |-> Null, starts |-> Null]
           image == [product |-> Some(Goods), variant |-> Null]
           child == [slug |-> Some(Slugs), parent |-> h]
           root == [slug |-> Some(Slugs \ {Some(Slugs)}), parent |-> Null]
<1>3. /\ shirt \in VariantRows /\ shirt.product \in Goods /\ price \in PriceRows
      /\ image \in ImageRows /\ child \in CategoryRows /\ root \in CategoryRows
      /\ [note |-> Null] \in ProductRows
  BY <1>2 DEF VariantRows, PriceRows, ImageRows, CategoryRows, ProductRows, Opt
<1>4. /\ db.product = [p \in Goods |-> [note |-> Null]]
      /\ db.variant = Seeded(Variants, v, shirt) /\ db.price = Seeded(Prices, r, price)
      /\ db.image = Seeded(Images, i, image)
      /\ db.category = [Seeded(Categories, g, child) EXCEPT ![h] = root]
      /\ db.map = Goods \X {g}
      /\ db = [product |-> db.product, variant |-> db.variant, price |-> db.price,
               image |-> db.image, category |-> db.category, map |-> db.map]
  BY <1>1
<1> HIDE DEF shirt, price, image, child, root
<1>5. /\ db.product \in ProductTable /\ db.variant \in VariantTable /\ db.price \in PriceTable
      /\ db.image \in ImageTable /\ db.category \in CategoryTable
      /\ db.map \in SUBSET (Goods \X Categories)
  <2>1. db.product \in ProductTable
    BY <1>3, <1>4 DEF ProductTable, Opt
  <2>2. /\ db.variant \in VariantTable /\ db.price \in PriceTable /\ db.image \in ImageTable
    <3>1. Seeded(Variants, v, shirt) \in [Variants -> Opt(VariantRows)]
      BY <1>3, SeededTable
    <3>2. Seeded(Prices, r, price) \in [Prices -> Opt(PriceRows)]
      BY <1>3, SeededTable
    <3>3. Seeded(Images, i, image) \in [Images -> Opt(ImageRows)]
      BY <1>3, SeededTable
    <3> QED
      BY <1>4, <3>1, <3>2, <3>3 DEF VariantTable, PriceTable, ImageTable
  <2>3. Seeded(Categories, g, child) \in [Categories -> Opt(CategoryRows)]
    BY <1>3, SeededTable
  <2>4. db.category \in CategoryTable
    BY <1>3, <1>4, <2>3 DEF CategoryTable, Opt
  <2> QED
    BY <1>4, <2>1, <2>2, <2>4
<1>6. db \in Dbs
  BY <1>4, <1>5 DEF Dbs
<1>7. Present(db.product) \subseteq Goods /\ \A p \in Goods : db.product[p] # Null
  <2>1. [note |-> Null] # Null
    BY <1>3, CatalogAssumption
  <2> QED
    BY <1>4, <1>6, <2>1, PresentRows
<1>8. Present(db.variant) \subseteq {v} /\ db.variant[v].product \in Goods
  <2>1. db.variant[v] = shirt /\ \A x \in Variants : x # v => db.variant[x] = Null
    BY <1>4 DEF Seeded
  <2> QED
    BY <1>3, <1>6, <2>1, PresentRows
<1>9. DbSound(db)
  BY <1>6, <1>7, <1>8 DEF DbSound
<1>10. StockFollows
  BY <1>1, <1>7, <1>8 DEF StockFollows, AdminInit
<1>11. AdminTypes
  <2>1. /\ lists = [c \in Consoles |-> Shown(CHOOSE l \in Listings({db}) : TRUE, db.category)]
        /\ editing = [c \in Consoles |-> NoForms] /\ handlers = [k \in Handlers |-> NoHandler]
        /\ stock = Goods /\ topic = {}
    BY DEF AdminInit
  <2>2. FindAll(db.product, db.map, db.variant, db.price, db.image) \in Listings({db})
    BY DEF Listings
  <2>3. (CHOOSE l \in Listings({db}) : TRUE) \in Listings({db})
    BY <2>2
  <2>4. (CHOOSE l \in Listings({db}) : TRUE) \in Listing
    BY <1>6, <2>3, ListingIs
  <2>5. lists \in [Consoles -> [list : Listing, category : CategoryTable]]
    BY <1>5, <2>1, <2>4 DEF Shown
  <2>6. /\ editing \in [Consoles -> [Kinds -> Opt(Ids)]]
        /\ \A c \in Consoles : \A kind \in Kinds : editing[c][kind] = Null
    BY <2>1 DEF NoForms, Opt
  <2>7. handlers \in [Handlers -> CallRecords] /\ \A k \in Handlers : CallSound(handlers[k])
    BY <2>1, FreeSound DEF CallSound
  <2> QED
    BY <2>1, <2>5, <2>6, <2>7 DEF AdminTypes, Opt, Items
<1>12. pricing = Null /\ PriceWasTrue
  BY DEF AdminInit, PriceWasTrue
<1> QED
  BY <1>9, <1>10, <1>11, <1>12 DEF AdminInv

\* Every step keeps AdminInv.
LEMMA AdminNextKeeps ==
  ASSUME AdminInv, [AdminNext]_adminVars
  PROVE  AdminInv'
<1>1. ASSUME AdminNext
      PROVE  AdminInv'
  <2>1. ASSUME NEW c \in Consoles, NEW k \in Handlers,
               \/ HandleCreateProduct(c, k) \/ HandleDeleteProduct(c, k)
               \/ HandleCreateOrUpdateVariant(c, k) \/ HandleDeleteVariant(c, k)
               \/ HandleCreateOrUpdatePrice(c, k) \/ HandleDeletePrice(c, k)
               \/ HandleCreateOrUpdateImage(c, k) \/ HandleDeleteImage(c, k)
               \/ HandleCreateOrUpdateCategory(c, k) \/ HandleDeleteCategory(c, k)
               \/ HandleAssignCategory(c, k) \/ HandleUnassignCategory(c, k)
               \/ HandleUpsertStock(c, k) \/ HandleDeleteStockItem(c, k)
        PROVE  AdminInv'
    BY <2>1, ClickKeeps
  <2>2. ASSUME NEW c \in Consoles,
               \/ HandleEditProduct(c) \/ HandleEditVariant(c) \/ HandleEditPrice(c)
               \/ HandleEditImage(c) \/ HandleEditCategory(c)
        PROVE  AdminInv'
    BY <2>2, FormKeeps
  <2>3. ASSUME NEW k \in Handlers,
               \/ Serve(k) \/ CreateUseCase(k) \/ ServeStock(k)
               \/ StartRefresh(k) \/ Refreshed(k) \/ Rejected(k)
        PROVE  AdminInv'
    BY <2>3, ServeKeeps, CreateUseCaseKeeps, ServeStockKeeps, StartRefreshKeeps, RefreshedKeeps,
       RejectedKeeps
  <2>4. CASE \/ Order
             \/ \E p \in Goods : CalculateOrderSubtotal(p) /\ UNCHANGED <<consoleVars, handlers, acts>>
             \/ \E x \in topic : HandleCreated(x) /\ UNCHANGED <<consoleVars, handlers, acts>>
    BY <2>4, OthersKeep DEF consoleVars
  <2> QED
    BY <1>1, <2>1, <2>2, <2>3, <2>4 DEF AdminNext
<1>2. ASSUME UNCHANGED adminVars
      PROVE  AdminInv'
  <2>1. /\ UNCHANGED <<db, stock, topic, lost, pricing, priced>>
        /\ UNCHANGED <<lists, editing, handlers>>
    BY <1>2 DEF adminVars, catalogVars, consoleVars
  <2>2. AdminTypes'
    BY <2>1 DEF AdminInv, AdminTypes
  <2> QED
    BY <2>1, <2>2, PagesOnly
<1> QED
  BY <1>1, <1>2

\* The inductive invariant of the catalog and of the pages that change it.
THEOREM AdminSound == AdminSpec => []AdminInv
<1>1. AdminInit => AdminInv
  BY AdminInitSound
<1>2. AdminInv /\ [AdminNext]_adminVars => AdminInv'
  BY AdminNextKeeps
<1> QED
  BY <1>1, <1>2, PTL DEF AdminSpec

\* A product or variant in the tables is in the inventory or on its way there,
\* whichever of the services and consoles stops meanwhile, unless the event was
\* lost with its sender or an admin deleted the row.
THEOREM StockFollowsCatalog == AdminSpec => []StockFollows
<1>1. AdminInv => StockFollows
  BY DEF AdminInv
<1> QED
  BY <1>1, AdminSound, PTL

\* An order is priced as the product was at some moment, although the listing
\* reads five tables at five moments, whatever admins change in between: as
\* long as that is one change, and does not take away a variant with its prices.
THEOREM OrdersPricedAsItWas == AdminSpec => []PriceWasTrue
<1>1. AdminInv => PriceWasTrue
  BY DEF AdminInv
<1> QED
  BY <1>1, AdminSound, PTL

\* What one state of the tables is listed as.
LEMMA OneStateListed ==
  ASSUME NEW d \in Dbs, NEW l \in Listings({d})
  PROVE  /\ l.product = d.product
         /\ l.map = {m \in d.map : m[1] \in Present(d.product)}
         /\ \A v \in Variants : l.variant[v] = d.variant[v] \/ l.variant[v] = Null
         /\ \A r \in Prices : l.price[r] = d.price[r] \/ l.price[r] = Null
         /\ \A i \in Images : l.image[i] = d.image[i] \/ l.image[i] = Null
<1>1. l = FindAll(d.product, d.map, d.variant, d.price, d.image)
  BY DEF Listings
<1> QED
  BY <1>1 DEF FindAll

\* A page s that lists the one state which a call q left shows what q did.
LEMMA ListsWhatWasServed ==
  ASSUME NEW q, NEW s, q.after \in Dbs, Addressed(q), Reflected(q.after, q),
         q.kind \in {"product", "variant", "price", "image", "category", "map"},
         s.list \in Listings({q.after}), q.kind = "category" => s.category = q.after.category
  PROVE  Lists(s, q)
<1> DEFINE d == q.after
           l == s.list
<1>1. /\ l.product = d.product
      /\ l.map = {m \in d.map : m[1] \in Present(d.product)}
      /\ \A v \in Variants : l.variant[v] = d.variant[v] \/ l.variant[v] = Null
      /\ \A r \in Prices : l.price[r] = d.price[r] \/ l.price[r] = Null
      /\ \A i \in Images : l.image[i] = d.image[i] \/ l.image[i] = Null
  BY OneStateListed
<1> HIDE DEF d, l
<1>2. CASE q.kind = "map"
  <2>1. q.id \in Goods \X Categories /\ q.id[1] \in Goods
    BY <1>2 DEF Addressed
  <2>2. (q.op = "create") <=> (q.id \in l.map)
    BY <1>1, <1>2, <2>1, PresentRows DEF Reflected, d
  <2> QED
    BY <1>2, <2>2 DEF Lists, l
<1>3. CASE q.kind = "category"
  BY <1>3 DEF Reflected, Lists
<1>4. CASE q.kind = "product"
  <2>1. IF q.op = "delete" THEN l.product[q.id] = Null ELSE AsTyped(l.product[q.id], q.row)
    BY <1>1, <1>4 DEF Reflected, d
  <2> QED
    BY <1>4, <2>1 DEF Lists, l
<1>5. CASE q.kind = "variant"
  <2>1. IF q.op = "delete" THEN l.variant[q.id] = Null
        ELSE l.variant[q.id] = Null \/ AsTyped(l.variant[q.id], q.row)
    BY <1>1, <1>5 DEF Addressed, Reflected, d
  <2> QED
    BY <1>5, <2>1 DEF Lists, l
<1>6. CASE q.kind = "price"
  <2>1. IF q.op = "delete" THEN l.price[q.id] = Null
        ELSE l.price[q.id] = Null \/ AsTyped(l.price[q.id], q.row)
    BY <1>1, <1>6 DEF Addressed, Reflected, d
  <2> QED
    BY <1>6, <2>1 DEF Lists, l
<1>7. CASE q.kind = "image"
  <2>1. IF q.op = "delete" THEN l.image[q.id] = Null
        ELSE l.image[q.id] = Null \/ AsTyped(l.image[q.id], q.row)
    BY <1>1, <1>7 DEF Addressed, Reflected, d
  <2> QED
    BY <1>7, <2>1 DEF Lists, l
<1> QED
  BY <1>2, <1>3, <1>4, <1>5, <1>6, <1>7

\* A console that read only the state its call left lists what the call did.
LEMMA RefreshedShows ==
  ASSUME AdminInv, NEW k \in Handlers, handlers[k].phase = "reading",
         handlers[k].reading.seen = {handlers[k].after}, Refreshed(k)
  PROVE  Lists(lists'[handlers[k].console], handlers[k])
<1> DEFINE q == handlers[k]
           s == lists'[q.console]
<1>1. CallSound(q) /\ q \in ReadingCalls
  BY PhaseIs DEF AdminInv, AdminTypes, CallSound
<1>2. q.console \in Consoles /\ q.after \in Dbs /\ q.kind \in Asked
  BY <1>1 DEF ReadingCalls
<1>3. /\ Addressed(q) /\ Reflected(q.after, q)
      /\ q.kind \in {"product", "variant", "price", "image", "category", "map"}
  BY <1>1, <1>2 DEF CallSound, Asked, Kinds
<1>4. PICK l \in Listings({q.after}) :
        lists' = [lists EXCEPT ![q.console] =
          Shown(l, IF q.kind = "product" THEN @.category ELSE q.after.category)]
  BY DEF Refreshed
<1>5. s.list = l /\ (q.kind = "category" => s.category = q.after.category)
  BY <1>2, <1>4 DEF AdminInv, AdminTypes, Shown
<1> HIDE DEF s
<1>6. Lists(s, q)
  BY <1>2, <1>3, <1>4, <1>5, ListsWhatWasServed
<1> QED
  BY <1>6 DEF s

\* A page that tells of its success lists what was saved and not what was
\* deleted, if nothing else was changed after it.
THEOREM ReportsAreShown == AdminSpec => ReportedIsShown
<1>1. AdminInv =>
        [\A k \in Handlers :
           handlers[k].phase = "reading" /\ handlers[k].reading.seen = {handlers[k].after} /\ Refreshed(k) =>
             Lists(lists'[handlers[k].console], handlers[k])]_adminVars
  BY RefreshedShows
<1> QED
  BY <1>1, AdminSound, PTL DEF ReportedIsShown

\* A variant that no console lists, edits or has a call about changes only when
\* its product is deleted.
LEMMA OutOfReachStays ==
  ASSUME AdminInv, [AdminNext]_adminVars, NEW v \in Present(db.variant),
         \A c \in Consoles : ~InReach(c, v)
  PROVE  db'.variant[v] = db.variant[v] \/ db'.product[db.variant[v].product] = Null
<1>1. CASE \E k \in Handlers : Serve(k)
  <2>1. PICK k \in Handlers : Serve(k)
    BY <1>1
  <2>2. /\ handlers[k] \in SentCalls /\ handlers[k].phase = "sent" /\ Effect(handlers[k])
    BY <2>1, ServeEffect
  <2>3. handlers[k].console \in Consoles
    BY <2>2 DEF SentCalls
  <2>4. ~(handlers[k].op # "create" /\ handlers[k].id = v)
    BY <2>2, <2>3 DEF InReach
  <2> QED
    BY <2>2, <2>4 DEF Effect
<1>2. CASE ~\E k \in Handlers : Serve(k)
  <2>1. db' = db
    <3>1. CASE UNCHANGED adminVars
      BY <3>1 DEF adminVars, catalogVars
    <3>2. ASSUME NEW c \in Consoles, NEW k \in Handlers, NEW kind, NEW op, NEW id, NEW row,
                 Ask(c, k, kind, op, id, row)
          PROVE  db' = db
      BY <3>2 DEF Ask, catalogVars
    <3>3. ASSUME NEW c \in Consoles, NEW kind, NEW listed, Edit(c, kind, listed)
          PROVE  db' = db
      BY <3>3 DEF Edit, catalogVars
    <3>4. ASSUME NEW c \in Consoles, NEW k \in Handlers, NEW kind, NEW ids, NEW listed, NEW rows,
                 Save(c, k, kind, ids, listed, rows)
          PROVE  db' = db
      BY <3>2, <3>4 DEF Save
    <3>5. ASSUME NEW c \in Consoles, NEW k \in Handlers, NEW kind, NEW listed, Delete(c, k, kind, listed)
          PROVE  db' = db
      BY <3>2, <3>5 DEF Delete
    <3>6. ASSUME NEW c \in Consoles, NEW k \in Handlers,
                 \/ HandleCreateProduct(c, k) \/ HandleDeleteProduct(c, k)
                 \/ HandleCreateOrUpdateVariant(c, k) \/ HandleDeleteVariant(c, k)
                 \/ HandleCreateOrUpdatePrice(c, k) \/ HandleDeletePrice(c, k)
                 \/ HandleCreateOrUpdateImage(c, k) \/ HandleDeleteImage(c, k)
                 \/ HandleCreateOrUpdateCategory(c, k) \/ HandleDeleteCategory(c, k)
                 \/ HandleAssignCategory(c, k) \/ HandleUnassignCategory(c, k)
                 \/ HandleUpsertStock(c, k) \/ HandleDeleteStockItem(c, k)
          PROVE  db' = db
      <4>1. CASE \/ HandleCreateProduct(c, k) \/ HandleCreateOrUpdateVariant(c, k)
                 \/ HandleCreateOrUpdatePrice(c, k) \/ HandleCreateOrUpdateImage(c, k)
                 \/ HandleCreateOrUpdateCategory(c, k)
        BY <3>4, <4>1 DEF HandleCreateProduct, HandleCreateOrUpdateVariant,
             HandleCreateOrUpdatePrice, HandleCreateOrUpdateImage, HandleCreateOrUpdateCategory
      <4>2. CASE \/ HandleDeleteProduct(c, k) \/ HandleDeleteVariant(c, k)
                 \/ HandleDeletePrice(c, k) \/ HandleDeleteImage(c, k)
                 \/ HandleDeleteCategory(c, k)
        BY <3>5, <4>2 DEF HandleDeleteProduct, HandleDeleteVariant, HandleDeletePrice,
             HandleDeleteImage, HandleDeleteCategory
      <4>3. CASE \/ HandleAssignCategory(c, k) \/ HandleUnassignCategory(c, k)
                 \/ HandleUpsertStock(c, k) \/ HandleDeleteStockItem(c, k)
        BY <3>2, <4>3 DEF HandleAssignCategory, HandleUnassignCategory, HandleUpsertStock,
             HandleDeleteStockItem
      <4> QED
        BY <3>6, <4>1, <4>2, <4>3
    <3>7. ASSUME NEW c \in Consoles,
                 \/ HandleEditProduct(c) \/ HandleEditVariant(c) \/ HandleEditPrice(c)
                 \/ HandleEditImage(c) \/ HandleEditCategory(c)
          PROVE  db' = db
      BY <3>3, <3>7 DEF HandleEditProduct, HandleEditVariant, HandleEditPrice,
           HandleEditImage, HandleEditCategory
    <3>8. ASSUME NEW k \in Handlers,
                 \/ CreateUseCase(k) \/ ServeStock(k)
                 \/ StartRefresh(k) \/ Refreshed(k) \/ Rejected(k)
          PROVE  db' = db
      BY <3>8 DEF CreateUseCase, Publish, ServeStock, StartRefresh, Refreshed, Rejected,
           catalogVars
    <3>9. CASE \/ Order \/ (\E p \in Goods : CalculateOrderSubtotal(p))
               \/ (\E x \in topic : HandleCreated(x))
      BY <3>9 DEF Order, StartPricing, CalculateOrderSubtotal, HandleCreated
    <3> QED
      BY <1>2, <3>1, <3>6, <3>7, <3>8, <3>9 DEF AdminNext
  <2> QED
    BY <2>1
<1> QED
  BY <1>1, <1>2

\* An inactive variant that has left every console stays as it is until its
\* product is deleted.
THEOREM InactiveVariantsStay == AdminSpec => InactiveIsFinal
<1>1. AdminInv /\ [AdminNext]_adminVars =>
        [\A v \in Present(db.variant) :
           ~db.variant[v].active /\ (\A c \in Consoles : ~InReach(c, v)) =>
             \/ db'.variant[v] = db.variant[v]
             \/ db'.product[db.variant[v].product] = Null]_adminVars
  BY OutOfReachStays
<1> QED
  BY <1>1, AdminSound, PTL DEF InactiveIsFinal, AdminSpec

=============================================================================
