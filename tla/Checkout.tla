------------------------------ MODULE Checkout ------------------------------
(***************************************************************************)
(* One customer checks out: the cart page with its shipping panel          *)
(* (AddressPanel), the order, and the payment of the order over the        *)
(* gateway's routes (PaymentRoutes), from the page that made the order,    *)
(* from the list of orders (MyOrders.tsx) and by other callers.            *)
(***************************************************************************)
EXTENDS AddressPanel, PaymentRoutes

CONSTANTS
  Me,         \* the customer, one of Clients
  Listed,     \* products: the unit price that the page read when it was opened
  Prices      \* unit prices the catalog may have

ASSUME CheckoutAssumption ==
  /\ Me \in Clients \ Admins /\ "nobody" \notin Clients
  /\ Listed \in Prices

VARIABLES
  price,      \* the catalog's price of the product
  placed,     \* per order: what it charges, and what the page had shown
  checkout,   \* where handleCheckout is
  pending,    \* yapePending and retryPending: the order to confirm, or Nobody
  seen,       \* paymentsByOrder of MyOrders
  reading     \* answers to its reads that are on the way

pageVars == <<price, placed, checkout, pending, seen, reading>>
vars == <<shippingVars, paymentVars, pageVars, events>>

Screens == {"checkout", "orders"}
NotPlaced == [sure |-> FALSE]
NoCode == "none"

\* Some time after the page was opened.  An order may have been placed before,
\* by a customer who has deleted the addresses since.
Init ==
  /\ ShippingInit
  /\ owner \in [Orders -> {"nobody", Me}]
  /\ method = [o \in Orders |-> "YAPE"]
  /\ payment \in {f \in [Orders -> {"NONE", "PENDING", "EXPIRED"}] :
                    \A o \in Orders : owner[o] = "nobody" => f[o] = "NONE"}
  /\ book = <<>> \/ owner = [o \in Orders |-> "nobody"]
  /\ keys = {}
  /\ requests = [k \in Requests |-> Idle]
  /\ confirmed = {} /\ notified = {}
  /\ price = Listed
  /\ placed = [o \in Orders |-> NotPlaced]
  /\ checkout = NoCall
  /\ pending = [s \in Screens |-> Nobody]
  /\ seen = payment
  /\ reading = {}

-----------------------------------------------------------------------------
(* handleCheckout                                                          *)

Elsewhere == UNCHANGED <<price, pending, seen, reading>>

\* checkoutTotal: without a quote, shipping counts as nothing.
CheckoutTotal ==
  units * Listed
    + IF quote = NoQuote THEN 0 ELSE BuildShippingQuote(Zone[quote.id], quote.units)

\* The button works while a quote is under way, or when there is none.
HandleCheckout(m) ==
  /\ checkout = NoCall
  /\ token # "none" /\ units > 0 /\ selected # Nobody
  /\ Event
  /\ checkout' = [phase |-> "order", method |-> m, id |-> selected, units |-> units,
                  auth |-> token, shown |-> CheckoutTotal,
                  sure |-> asking = NoCall /\ quote # NoQuote]
  /\ UNCHANGED <<shippingVars, paymentVars, placed>> /\ Elsewhere

\* createOrder prices the lines and the shipping again.
CreateOrder(o) ==
  /\ checkout.phase = "order" /\ AuthGuard(checkout.auth)
  /\ checkout.id \in IdsIn(book)
  /\ owner[o] = "nobody"
  /\ owner' = [owner EXCEPT ![o] = Me]
  /\ method' = [method EXCEPT ![o] = checkout.method]
  /\ placed' = [placed EXCEPT ![o] =
       [shown |-> checkout.shown, sure |-> checkout.sure /\ price = Listed,
        total |-> checkout.units * price + BuildShippingQuote(Zone[checkout.id], checkout.units)]]
  /\ checkout' = [phase |-> "ordered", order |-> o, auth |-> checkout.auth]
  /\ UNCHANGED <<shippingVars, payment, keys, requests, confirmed, notified, events>> /\ Elsewhere

\* 401, or 409 Shipping address not found: only the message changes.
OrderRefused ==
  /\ checkout.phase = "order"
  /\ ~AuthGuard(checkout.auth) \/ checkout.id \notin IdsIn(book)
  /\ checkout' = NoCall
  /\ UNCHANGED <<shippingVars, paymentVars, placed, events>> /\ Elsewhere

\* Out of stock, or a call of the chain or its answer is lost.
CheckoutFails ==
  /\ checkout.phase \in {"order", "ordered", "clearing"}
  /\ Event
  /\ checkout' = NoCall
  /\ UNCHANGED <<shippingVars, paymentVars, placed>> /\ Elsewhere

\* With YAPE the payment is started next.
StartPayment(k) ==
  /\ checkout.phase = "ordered" /\ method[checkout.order] = "YAPE"
  /\ AuthGuard(checkout.auth)
  /\ Ask(k, Me, "start", checkout.order, NoCode, "checkout")
  /\ checkout' = [checkout EXCEPT !.phase = "starting"]
  /\ UNCHANGED <<shippingVars, placed, events>> /\ Elsewhere

StartRefused ==
  /\ checkout.phase = "ordered" /\ ~AuthGuard(checkout.auth)
  /\ checkout' = NoCall
  /\ UNCHANGED <<shippingVars, paymentVars, placed, events>> /\ Elsewhere

OrderedAuto ==
  /\ checkout.phase = "ordered" /\ method[checkout.order] = "AUTO"
  /\ checkout' = [checkout EXCEPT !.phase = "clearing"]
  /\ UNCHANGED <<shippingVars, paymentVars, placed, events>> /\ Elsewhere

\* DELETE /cart and its answer: the page shows an empty cart and no quote.
CartCleared ==
  /\ checkout.phase = "clearing" /\ AuthGuard(checkout.auth)
  /\ units' = 0
  /\ QuoteEffect(token, selected, 0)
  /\ pending' = IF method[checkout.order] = "YAPE"
                  THEN [pending EXCEPT !["checkout"] = checkout.order] ELSE pending
  /\ checkout' = NoCall
  /\ UNCHANGED <<bookVars, token, list, selected, calls, mixed, paymentVars, price,
                 placed, seen, reading, events>>

-----------------------------------------------------------------------------
(* Payments from the pages and by other callers.                           *)

AsOrdered == UNCHANGED <<shippingVars, price, placed, checkout>>

\* reloadOrders and loadOrderStatuses: read now, shown later.
ReloadOrders ==
  /\ AuthGuard(token)
  /\ Event
  /\ reading' = reading \cup {payment}
  /\ UNCHANGED <<paymentVars, pending, seen>> /\ AsOrdered

OrdersLoaded ==
  /\ \E read \in reading : seen' = read /\ reading' = reading \ {read}
  /\ UNCHANGED <<paymentVars, pending, events>> /\ AsOrdered

FromOrders(k, route, o) ==
  /\ AuthGuard(token)
  /\ Event
  /\ Ask(k, Me, route, o, NoCode, "orders")
  /\ UNCHANGED <<pending, seen, reading>> /\ AsOrdered

\* The button also wants the listed order to be CANCELLED, which it becomes
\* some time after its payment failed or expired.
HandleRetryPayment(k, o) == seen[o] \in {"FAILED", "EXPIRED"} /\ FromOrders(k, "retry", o)

HandleOpenPendingYape(k, o) == seen[o] = "PENDING" /\ FromOrders(k, "start", o)

\* handleConfirmYapePayment and handleConfirmRetryPayment.
HandleConfirm(k, screen, code) ==
  /\ pending[screen] # Nobody
  /\ AuthGuard(token)
  /\ Event
  /\ Ask(k, Me, "confirm", pending[screen], code, screen)
  /\ UNCHANGED <<pending, seen, reading>> /\ AsOrdered

\* Another program of this customer or of somebody else.
AskElsewhere(k, client, route, o, code) ==
  /\ owner[o] # "nobody"
  /\ Event
  /\ Ask(k, client, route, o, IF route = "confirm" THEN code ELSE NoCode, "elsewhere")
  /\ UNCHANGED <<pending, seen, reading>> /\ AsOrdered

\* What the pages do with an answer.  Only a confirmed payment of MyOrders
\* has the list read again.
HearAnswer(k) ==
  LET r  == requests[k]
      ok == r.step = "told" /\ r.answer # Failed IN
  /\ Hear(k)
  /\ checkout' = IF r.screen = "checkout" /\ r.route = "start"
                   THEN IF ok THEN [checkout EXCEPT !.phase = "clearing"] ELSE NoCall
                   ELSE checkout
  /\ pending' = IF ~ok \/ r.screen = "elsewhere" THEN pending
                ELSE IF r.route = "confirm" THEN [pending EXCEPT ![r.screen] = Nobody]
                ELSE IF r.screen = "orders" THEN [pending EXCEPT !["orders"] = r.order]
                ELSE pending
  /\ reading' = IF ok /\ r.screen = "orders" /\ r.route = "confirm"
                  THEN reading \cup {payment} ELSE reading
  /\ UNCHANGED <<shippingVars, price, placed, seen, events>>

AnswerLost(k) ==
  /\ requests[k].step = "told" /\ requests[k].answer # Failed
  /\ Event
  /\ Tells(k, Failed)
  /\ UNCHANGED <<owner, method, payment, keys, confirmed, notified, pending, seen, reading>>
  /\ AsOrdered

PriceChanges ==
  /\ Event
  /\ price' \in Prices \ {price}
  /\ UNCHANGED <<shippingVars, paymentVars, placed, checkout, pending, seen, reading>>

-----------------------------------------------------------------------------
PaymentStep ==
  \/ \E k \in Requests : InGateway(k) /\ UNCHANGED events
  \/ \E k \in Requests : HandlerThrows(k) /\ Event
  \/ GatewayCrash /\ Event
  \/ \E o \in Orders : (ProcessPayment(o) \/ ExpirePending(o)) /\ UNCHANGED events
  \/ \E o \in Orders : ProcessCulqiWebhook(o) /\ Event

CheckoutStep ==
  \/ \E m \in {"AUTO", "YAPE"} : HandleCheckout(m)
  \/ \E o \in Orders : CreateOrder(o)
  \/ \E k \in Requests : StartPayment(k)
  \/ OrderRefused \/ CheckoutFails \/ StartRefused \/ OrderedAuto \/ CartCleared

OrdersStep ==
  \/ ReloadOrders \/ OrdersLoaded
  \/ \E k \in Requests, o \in Orders : HandleRetryPayment(k, o) \/ HandleOpenPendingYape(k, o)
  \/ \E k \in Requests, s \in Screens, code \in Codes : HandleConfirm(k, s, code)
  \/ \E k \in Requests, client \in Clients, route \in Routes, o \in Orders, code \in Codes :
       AskElsewhere(k, client, route, o, code)
  \/ \E k \in Requests : HearAnswer(k) \/ AnswerLost(k)

Next ==
  \/ ShippingNext /\ UNCHANGED <<paymentVars, pageVars>>
  \/ PaymentStep /\ UNCHANGED <<shippingVars, pageVars>>
  \/ CheckoutStep
  \/ OrdersStep
  \/ PriceChanges

Spec == Init /\ [][Next]_vars

-----------------------------------------------------------------------------
(* Properties.                                                             *)

\* An order charges the total that the page showed when its button was
\* pressed, however addresses, cart and quotes changed around the click:
\* unless the quote was still under way or had failed, for the button works
\* then too, or the catalog's price changed after the page was opened.
ChargedAsShown ==
  \A o \in Orders : placed[o].sure => placed[o].total = placed[o].shown

=============================================================================
