----------------------------- MODULE Storefront -----------------------------
(***************************************************************************)
(* The shop's page (App.tsx) in the tabs of one browser, and the carts of  *)
(* the cart service.  A tab shows the rows it read last; a click computes  *)
(* an absolute quantity, or the lines of an order, from what is shown, and *)
(* the calls of all tabs reach the server and come back in any order.      *)
(* After a change a tab tells all tabs of its user to read the cart again. *)
(*                                                                         *)
(* Without a token a tab shows the guest cart (GuestCart); Available is the *)
(* stock that the pages read when they were opened.                        *)
(*                                                                         *)
(* Each call is forwarded by the gateway to the cart service or to orders; *)
(* here it is served in one step and answered in a later one.              *)
(***************************************************************************)
EXTENDS GuestCart, Sequences

CONSTANTS
  Users,
  Calls,       \* slots for the clicks whose calls are under way
  MaxEvents    \* clicks, and calls or pages that fail

ASSUME StorefrontAssumption ==
  /\ Users \cap {"guest", "closed"} = {}
  /\ Available \in Nat /\ MaxEvents \in Nat

VARIABLES
  session,     \* per tab: the user of its token, "guest" or "closed"
  stored,      \* the user of the token in localStorage
  shown,       \* per tab: serverCartItems, and how old they are
  syncing,     \* tabs whose cart effect's GET /cart is under way to the server
  asked,       \* per tab and user: loadServerCart's GET /cart, likewise
  answers,     \* per tab: answers to both under way to the tab
  calls,       \* per slot: the click's call
  cart,        \* per user: the rows of cart_items, 0 for no row
  changes,     \* per user: how often the cart changed
  fills,       \* per user: how often a checkout emptied the cart
  orders,      \* per user: the fill that each order was taken from
  broken,      \* history: users one of whose calls got an error or no answer
  excused,     \* history: users who could order a cart twice
  apart,       \* history: there were never two guest tabs, nor a broken-off start
  events

pageVars   == <<session, stored, shown, syncing, asked, answers>>
serverVars == <<cart, changes, fills, orders>>
clientVars == <<pageVars, guestVars, apart>>
vars == <<clientVars, calls, serverVars, broken, excused, events>>

Blank == [items |-> Empty, fill |-> 0, last |-> -1, newest |-> 0]
Free  == [phase |-> "free"]
None  == [u \in Users |-> 0]

\* At most one tab shows the guest cart.
OneGuest(sessions) ==
  \A t, u \in Tabs : sessions[t] = "guest" /\ sessions[u] = "guest" => t = u

\* Some time after the open tabs were opened with the token that localStorage
\* has: they show what is in the cart.
Init ==
  /\ stored \in Users \cup {"guest"}
  /\ session \in {f \in [Tabs -> {stored, "closed"}] : \E t \in Tabs : f[t] = stored}
  /\ storage \in Rows
  /\ guest = [t \in Tabs |-> IF session[t] = "guest" THEN storage ELSE Empty]
  /\ pending = [t \in Tabs |-> Nothing]
  /\ heard = {}
  /\ wanted = storage
  /\ cart \in [Users -> Rows]
  /\ shown = [t \in Tabs |->
       IF session[t] \in Users
       THEN [items |-> cart[session[t]], fill |-> 0, last |-> 0, newest |-> 0] ELSE Blank]
  /\ syncing = {}
  /\ asked = [t \in Tabs |-> None]
  /\ answers = [t \in Tabs |-> {}]
  /\ calls = [k \in Calls |-> Free]
  /\ changes = None
  /\ fills = None
  /\ orders = [u \in Users |-> <<>>]
  /\ broken = {}
  /\ excused = {}
  /\ apart = OneGuest(session)
  /\ events = 0

Event == events < MaxEvents /\ events' = events + 1

-----------------------------------------------------------------------------
(* The session of a tab.                                                   *)

\* The token changes: what the tab shows is emptied, the cart effect of the
\* old token ignores its answer and that of the new one asks.  Answers to
\* loadServerCart are not ignored.
Enter(t, u) ==
  /\ session' = [session EXCEPT ![t] = u]
  /\ shown' = [shown EXCEPT ![t] = Blank]
  /\ syncing' = IF u = "guest" THEN syncing \ {t} ELSE syncing \cup {t}
  /\ answers' = [answers EXCEPT ![t] = {a \in @ : ~a.sync}]
  /\ apart' = (apart /\ pending[t] = Nothing /\ OneGuest(session'))

Login(t, u) ==
  /\ session[t] = "guest"
  /\ Event
  /\ Enter(t, u) /\ HideGuest(t)
  /\ stored' = u
  /\ UNCHANGED <<asked, calls, serverVars, broken, excused>>

Logout(t) ==
  /\ session[t] \in Users
  /\ Event
  /\ Enter(t, "guest") /\ ShowGuest(t, guest[t])
  /\ stored' = "guest"
  /\ UNCHANGED <<asked, calls, serverVars, broken, excused>>

\* The page is closed, or opened with the token in localStorage: the calls of
\* the old page were served or not, and nobody takes their answers.
Leave(t) ==
  LET gone == {k \in Calls : calls[k].phase # "free" /\ calls[k].tab = t} IN
  /\ calls' = [k \in Calls |-> IF k \in gone THEN Free ELSE calls[k]]
  /\ broken' = broken \cup {calls[k].user : k \in gone}
  /\ asked' = [asked EXCEPT ![t] = None]
  /\ answers' = [answers EXCEPT ![t] = {}]
  /\ shown' = [shown EXCEPT ![t] = Blank]
  /\ UNCHANGED <<serverVars, excused>>

Close(t) ==
  /\ session[t] # "closed"
  /\ Event
  /\ Leave(t) /\ CloseGuest(t)
  /\ session' = [session EXCEPT ![t] = "closed"]
  /\ syncing' = syncing \ {t}
  /\ apart' = (apart /\ pending[t] = Nothing)
  /\ UNCHANGED stored

Open(t) ==
  /\ session[t] = "closed"
  /\ Event
  /\ session' = [session EXCEPT ![t] = stored]
  /\ syncing' = IF stored = "guest" THEN syncing ELSE syncing \cup {t}
  /\ IF stored = "guest" THEN ShowGuest(t, Empty) ELSE UNCHANGED guestVars
  /\ apart' = (apart /\ OneGuest(session'))
  /\ UNCHANGED <<stored, shown, asked, answers, calls, serverVars, broken, excused>>

\* What a tab does with the guest cart while nobody is logged in.
GuestTab(t) ==
  /\ session[t] = "guest"
  /\ \/ (Hear(t) \/ Render(t)) /\ UNCHANGED events
     \/ Event /\ \E p \in Products :
          AddGuest(t, p) \/ \E n \in 0..Available : UpdateGuest(t, p, n)
  /\ UNCHANGED <<pageVars, apart, calls, serverVars, broken, excused>>

-----------------------------------------------------------------------------
(* Reading the cart.                                                       *)

Snapshot(u, sync) ==
  [user |-> u, sync |-> sync, items |-> cart[u], stamp |-> changes[u], fill |-> fills[u]]

\* getByCustomerId, for the effect and for loadServerCart.
ServeSync(t) ==
  /\ t \in syncing
  /\ syncing' = syncing \ {t}
  /\ answers' = [answers EXCEPT ![t] = @ \cup {Snapshot(session[t], TRUE)}]
  /\ UNCHANGED <<session, stored, guestVars, apart, shown, asked, calls, serverVars, broken, excused, events>>

ServeLoad(t, u) ==
  /\ asked[t][u] > 0
  /\ asked' = [asked EXCEPT ![t][u] = @ - 1]
  /\ answers' = [answers EXCEPT ![t] = @ \cup {Snapshot(u, FALSE)}]
  /\ UNCHANGED <<session, stored, guestVars, apart, shown, syncing, calls, serverVars, broken, excused, events>>

\* What the tab shows after an answer that is as old as its stamp; rows of
\* another user, or none for want of an answer, are older than any.
Showing(t, items, fill, stamp) ==
  [items |-> items, fill |-> fill, last |-> stamp,
   newest |-> IF stamp > shown[t].newest THEN stamp ELSE shown[t].newest]

Stamp(t, u, stamp) == IF u = session[t] THEN stamp ELSE -1

ShowAnswer(t) ==
  \E a \in answers[t] :
    /\ answers' = [answers EXCEPT ![t] = @ \ {a}]
    /\ shown' = [shown EXCEPT ![t] =
         Showing(t, a.items, a.fill, Stamp(t, a.user, a.stamp))]
    /\ UNCHANGED <<session, stored, guestVars, apart, syncing, asked, calls, serverVars, broken, excused, events>>

\* A read is lost, and with it news that the tab would have had.  The effect
\* then shows an empty cart, loadServerCart nothing new.
MissedNews(t, u) == [shown[t] EXCEPT !.newest = changes[u]]

SyncFails(t) ==
  /\ t \in syncing
  /\ Event
  /\ syncing' = syncing \ {t}
  /\ shown' = [shown EXCEPT ![t] =
       [MissedNews(t, session[t]) EXCEPT !.items = Empty, !.last = -1]]
  /\ UNCHANGED <<session, stored, guestVars, apart, asked, answers, calls, serverVars, broken, excused>>

LoadFails(t, u) ==
  /\ asked[t][u] > 0
  /\ Event
  /\ asked' = [asked EXCEPT ![t][u] = @ - 1]
  /\ shown' = [shown EXCEPT ![t] = IF u = session[t] THEN MissedNews(t, u) ELSE @]
  /\ UNCHANGED <<session, stored, guestVars, apart, syncing, answers, calls, serverVars, broken, excused>>

-----------------------------------------------------------------------------
(* Changing the cart.                                                      *)

CallsOf(u) == {k \in Calls : calls[k].phase # "free" /\ calls[k].user = u}

\* A click in t whose call carries what the tab shows.  Calls of one user that
\* are open together are mixed; a call is behind if what it saw is outdated.
Send(t, k, phase, p, n) ==
  LET u == session[t] IN
  /\ u \in Users /\ calls[k].phase = "free"
  /\ Event
  /\ calls' = [j \in Calls |->
       IF j = k THEN [phase |-> phase, tab |-> t, user |-> u, product |-> p, quantity |-> n,
                      items |-> shown[t].items, fill |-> shown[t].fill, stamp |-> 0,
                      mixed |-> CallsOf(u) # {},
                      behind |-> shown[t].items # cart[u] \/ shown[t].fill # fills[u]]
       ELSE IF j \in CallsOf(u) THEN [calls[j] EXCEPT !.mixed = TRUE] ELSE calls[j]]
  /\ UNCHANGED <<clientVars, serverVars, broken, excused>>

AddToCart(t, k, p) ==
  /\ shown[t].items[p] < Available
  /\ Send(t, k, "set", p, shown[t].items[p] + 1)

\* For a row of the cart panel; 0 removes it.
UpdateCartQuantity(t, k, p, n) ==
  /\ shown[t].items[p] > 0 /\ n <= Available
  /\ Send(t, k, "set", p, n)

Step(k, phase) == calls' = [calls EXCEPT ![k].phase = phase]
Free1(k) == calls' = [calls EXCEPT ![k] = Free]

\* upsertItem writes the quantity it is given; removeItem deletes the row.
WriteItem(k) ==
  LET c == calls[k] IN
  /\ cart' = [cart EXCEPT ![c.user][c.product] = c.quantity]
  /\ changes' = [changes EXCEPT ![c.user] = @ + 1]
  /\ UNCHANGED <<fills, orders>>

ServeItem(k) ==
  /\ calls[k].phase = "set"
  /\ WriteItem(k)
  /\ calls' = [calls EXCEPT ![k].phase = "setDone", ![k].stamp = changes'[calls[k].user]]
  /\ UNCHANGED <<clientVars, broken, excused, events>>

\* notifyCartSync: every tab of the user, this one too, calls loadServerCart.
Mutant_NotifyCartSync(u) == UNCHANGED asked
NotifyCartSync(u) ==
  asked' = [t \in Tabs |-> IF session[t] = u THEN [asked[t] EXCEPT ![u] = @ + 1] ELSE asked[t]]

\* The tab puts the row it is answered into what it shows by then.  If that is
\* what its user had seen, in a call that was alone, it is as old as the answer;
\* else there are rows of several ages.
PatchAge(k) ==
  LET c == calls[k] IN
  IF c.mixed \/ c.behind \/ shown[c.tab].items # c.items THEN -1 ELSE c.stamp

ItemDone(k) ==
  LET c == calls[k] IN
  /\ c.phase = "setDone"
  /\ Free1(k)
  /\ shown' = [shown EXCEPT ![c.tab] =
       Showing(c.tab, [@.items EXCEPT ![c.product] = c.quantity], @.fill,
               Stamp(c.tab, c.user, PatchAge(k)))]
  /\ NotifyCartSync(c.user)
  /\ UNCHANGED <<session, stored, guestVars, apart, syncing, answers, serverVars, broken, excused, events>>

-----------------------------------------------------------------------------
(* handleCheckout: the order, the start of a YAPE payment, DELETE /cart.    *)

HandleCheckout(t, k) ==
  /\ shown[t].items # Empty
  /\ \E p \in Products : Send(t, k, "order", p, 0)

Mutant_CreateOrder(u, fill) ==
  /\ orders' = [orders EXCEPT ![u] = Append(@, fill)]
  /\ cart' = [cart EXCEPT ![u] = Empty]
  /\ UNCHANGED <<changes, fills>>
CreateOrder(u, fill) ==
  /\ orders' = [orders EXCEPT ![u] = Append(@, fill)]
  /\ UNCHANGED <<cart, changes, fills>>

Excuse(k) ==
  LET c == calls[k] IN
  excused' = IF c.mixed \/ c.behind \/ c.user \in broken THEN excused \cup {c.user} ELSE excused

PlaceOrder(k) ==
  /\ calls[k].phase = "order"
  /\ CreateOrder(calls[k].user, calls[k].fill)
  /\ Excuse(k)
  /\ \E next \in {"start", "clear"} : Step(k, next)
  /\ UNCHANGED <<clientVars, broken, events>>

\* For instance out of stock.
RefuseOrder(k) ==
  /\ calls[k].phase = "order"
  /\ Free1(k)
  /\ UNCHANGED <<clientVars, serverVars, broken, excused, events>>

StartYape(k) ==
  /\ calls[k].phase = "start"
  /\ Step(k, "clear")
  /\ UNCHANGED <<clientVars, serverVars, broken, excused, events>>

\* clearCart deletes every row of the customer, ordered or not.
Mutant_DeleteRows(k) == UNCHANGED serverVars
DeleteRows(k) ==
  LET u == calls[k].user IN
  /\ cart' = [cart EXCEPT ![u] = Empty]
  /\ changes' = [changes EXCEPT ![u] = @ + 1]
  /\ fills' = [fills EXCEPT ![u] = @ + 1]
  /\ UNCHANGED orders

ClearCart(k) ==
  /\ calls[k].phase = "clear"
  /\ DeleteRows(k)
  /\ calls' = [calls EXCEPT ![k].phase = "cleared", ![k].stamp = changes'[calls[k].user]]
  /\ UNCHANGED <<clientVars, broken, excused, events>>

CheckoutDone(k) ==
  LET c == calls[k] IN
  /\ c.phase = "cleared"
  /\ Free1(k)
  /\ shown' = [shown EXCEPT ![c.tab] =
       Showing(c.tab, Empty, fills[c.user], Stamp(c.tab, c.user, c.stamp))]
  /\ NotifyCartSync(c.user)
  /\ UNCHANGED <<session, stored, guestVars, apart, syncing, answers, serverVars, broken, excused, events>>

\* A call fails, served or not: the handler shows the error and does no more.
Fails(k) ==
  LET c == calls[k] IN
  /\ Event
  /\ CASE c.phase = "set"   -> WriteItem(k) \/ UNCHANGED serverVars
       [] c.phase = "order" -> CreateOrder(c.user, c.fill) \/ UNCHANGED serverVars
       [] c.phase = "clear" -> DeleteRows(k) \/ UNCHANGED serverVars
       [] c.phase = "start" -> UNCHANGED serverVars
       [] OTHER -> FALSE
  /\ IF c.phase = "order" THEN Excuse(k) ELSE UNCHANGED excused
  /\ Free1(k)
  /\ broken' = broken \cup {c.user}
  /\ UNCHANGED <<clientVars>>

-----------------------------------------------------------------------------

Next ==
  \/ \E t \in Tabs, u \in Users : Login(t, u) \/ ServeLoad(t, u) \/ LoadFails(t, u)
  \/ \E t \in Tabs : Logout(t) \/ Close(t) \/ Open(t) \/ GuestTab(t)
  \/ \E t \in Tabs : ServeSync(t) \/ ShowAnswer(t) \/ SyncFails(t)
  \/ \E t \in Tabs, k \in Calls, p \in Products :
       \/ AddToCart(t, k, p)
       \/ \E n \in 0..Available : UpdateCartQuantity(t, k, p, n)
  \/ \E t \in Tabs, k \in Calls : HandleCheckout(t, k)
  \/ \E k \in Calls :
       \/ ServeItem(k) \/ ItemDone(k)
       \/ PlaceOrder(k) \/ RefuseOrder(k) \/ StartYape(k) \/ ClearCart(k) \/ CheckoutDone(k)
       \/ Fails(k)

Spec == Init /\ [][Next]_vars

-----------------------------------------------------------------------------
(* Properties.                                                             *)

\* Nothing is under way that could change what the tab shows.
Settled(t) ==
  /\ t \notin syncing /\ asked[t] = None /\ answers[t] = {}
  /\ CallsOf(session[t]) = {}

\* When nothing is under way, a logged-in tab shows the cart that the server
\* has, whichever tabs changed it; unless the answer that came last had been
\* overtaken by a newer one (App.tsx:95 does not ignore late answers), was
\* about a user who left, or was put into outdated rows with nothing read after,
\* or a call failed.
ScreenExact ==
  \A t \in Tabs :
    session[t] \in Users \ broken /\ Settled(t) /\ shown[t].last >= shown[t].newest
    => shown[t].items = cart[session[t]]

\* One filling of the cart is ordered once, unless the customer started a call
\* while another was open (the button stays enabled), clicked on an outdated
\* screen, or an earlier call had failed: POST /orders carries no key.
OrderedOnce ==
  \A u \in Users \ excused : \A i, j \in DOMAIN orders[u] :
    orders[u][i] = orders[u][j] => i = j

\* A call finds the cart as its user saw it when clicking, under the same
\* conditions: adding adds one, and a checkout empties what it ordered.
ServerAsSeen ==
  [][\A k \in Calls :
       calls[k].phase \in {"set", "clear"} /\ calls'[k].phase \in {"setDone", "cleared"}
       => calls[k].mixed \/ calls[k].behind \/ cart[calls[k].user] = calls[k].items]_vars

\* A guest's cart stays as the guest left it, in the tab and in localStorage,
\* through logging in and out and closing and opening the page; unless two
\* tabs showed it at once, as each writes back what it had read (App.tsx:131),
\* or it was left before it had rendered what it read.
GuestCartKept ==
  apart => \A t \in Tabs :
    session[t] = "guest" /\ pending[t] = Nothing /\ t \notin heard =>
      guest[t] = wanted /\ storage = wanted

=============================================================================
