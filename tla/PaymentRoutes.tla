--------------------------- MODULE PaymentRoutes ---------------------------
(***************************************************************************)
(* The gateway's routes for YAPE payments.  Each runs under an idempotency *)
(* key that, when the caller sends none, is made of the route and the      *)
(* order: every call of one user for one order shares it.  The handler     *)
(* asks the payments service whose payment it is and then calls it.        *)
(*                                                                         *)
(* Here the statements of a claim, and a handler of the payments service,  *)
(* are one step: modules Idempotency and Payments take them apart.         *)
(***************************************************************************)
EXTENDS Integers, FiniteSets

CONSTANTS
  Orders,
  Clients,    \* the users that call, by their ids
  Admins,     \* those with role ADMIN
  Codes,      \* operation codes a caller may send
  Requests    \* slots for the requests in the gateway

VARIABLES
  owner,      \* customerId of each order, or "nobody" before it is placed
  method,     \* its payment method
  payment,    \* status of the row in payments, or "NONE"
  keys,       \* rows of gateway_idempotency_keys
  requests,   \* per slot: the request
  confirmed,  \* history: orders that some caller was told are paid
  notified    \* history: orders that a notification of Culqi came for

paymentVars == <<owner, method, payment, keys, requests, confirmed, notified>>

Routes == {"start", "confirm", "fail", "expire", "retry"}
Idle == [step |-> "idle"]
Failed == [of |-> "error"]

\* key, route_scope and user_scope of the row.
Mutant_Key(r) == <<r.route, r.order>>
Key(r) == <<r.client, r.route, r.order>>
RowOf(r) == {row \in keys : row.key = Key(r)}

\* Each route has other fields, and only the operation code differs between the
\* calls of one.
Payload(r) == <<r.route, r.code>>

Goes(k, step) == requests' = [requests EXCEPT ![k].step = step]
Tells(k, a) == requests' = [requests EXCEPT ![k].step = "told", ![k].answer = a]

\* A call passed the AuthGuard; screen is what waits for its answer.
Ask(k, client, route, o, code, screen) ==
  /\ requests[k] = Idle
  /\ requests' = [requests EXCEPT ![k] =
       [step |-> "claim", client |-> client, route |-> route, order |-> o, code |-> code,
        screen |-> screen, answer |-> Failed]]
  /\ UNCHANGED <<owner, method, payment, keys, confirmed, notified>>

-----------------------------------------------------------------------------
(* IdempotencyService.execute                                              *)

Claim(k) ==
  LET r == requests[k] IN
  /\ r.step = "claim" /\ RowOf(r) = {}
  /\ keys' = keys \cup {[key |-> Key(r), hash |-> Payload(r), response |-> Failed]}
  /\ Goes(k, "own")
  /\ UNCHANGED <<owner, method, payment, confirmed, notified>>

\* Another payload, still PROCESSING, or the stored response.
ClaimAnswered(k) ==
  LET r == requests[k] IN
  /\ r.step = "claim"
  /\ \E row \in RowOf(r) :
       Tells(k, IF row.hash # Payload(r) THEN Failed ELSE row.response)
  /\ UNCHANGED <<owner, method, payment, keys, confirmed, notified>>

Complete(k) ==
  LET r == requests[k] IN
  /\ r.step = "complete"
  /\ keys' = {IF row.key = Key(r) THEN [row EXCEPT !.response = r.answer] ELSE row : row \in keys}
  /\ Goes(k, "told")
  /\ UNCHANGED <<owner, method, payment, confirmed, notified>>

Release(k) ==
  LET r == requests[k] IN
  /\ r.step = "release"
  /\ keys' = keys \ {row \in RowOf(r) : row.response = Failed}
  /\ Goes(k, "told")
  /\ UNCHANGED <<owner, method, payment, confirmed, notified>>

-----------------------------------------------------------------------------
(* The handlers.                                                           *)

MayUse(client, o) == client = owner[o] \/ client \in Admins

\* getPaymentForUser: 404 without a payment, and for other customers.
AssertPaymentOwnership(k) ==
  LET r == requests[k] IN
  /\ r.step = "own"
  /\ Goes(k, IF payment[r.order] # "NONE" /\ MayUse(r.client, r.order) THEN "act" ELSE "release")
  /\ UNCHANGED <<owner, method, payment, keys, confirmed, notified>>

\* The statuses of the payment in which a route does something; a route that
\* finds its own outcome returns the row as it is.
Startable   == {"PENDING", "APPROVED", "FAILED", "EXPIRED"}
Confirmable == {"PENDING", "APPROVED"}
Failable    == {"PENDING", "EXPIRED", "FAILED"}
Expirable   == {"PENDING", "FAILED", "EXPIRED"}

Mutant_Allowed(route) ==
  CASE route = "start"   -> Startable
    [] route = "confirm" -> Confirmable
    [] route = "fail"    -> Failable \cup {"APPROVED"}
    [] route = "expire"  -> Expirable
    [] route = "retry"   -> {}
Allowed(route) ==
  CASE route = "start"   -> Startable
    [] route = "confirm" -> Confirmable
    [] route = "fail"    -> Failable
    [] route = "expire"  -> Expirable
    [] route = "retry"   -> {}
Outcome(route) == CASE route = "confirm" -> "APPROVED"
                    [] route = "fail"    -> "FAILED"
                    [] route = "expire"  -> "EXPIRED"

\* start does not look at the status.  retry asks the orders service for the
\* stock first: that never succeeds (OrderSaga, NeverReservedAgain), so what
\* would follow is not reached.
Act(k) ==
  LET r == requests[k] IN
  /\ r.step = "act"
  /\ IF method[r.order] = "YAPE" /\ payment[r.order] \in Allowed(r.route)
       THEN /\ payment' = IF r.route = "start" THEN payment
                          ELSE [payment EXCEPT ![r.order] = Outcome(r.route)]
            /\ requests' = [requests EXCEPT ![k].step = "complete",
                                            ![k].answer = [of |-> r.route, order |-> r.order]]
       ELSE Goes(k, "release") /\ UNCHANGED payment
  /\ UNCHANGED <<owner, method, keys, confirmed, notified>>

\* The answer reaches its caller.
Hear(k) ==
  /\ requests[k].step = "told"
  /\ requests' = [requests EXCEPT ![k] = Idle]
  /\ confirmed' = IF requests[k].route = "confirm" /\ requests[k].answer # Failed
                    THEN confirmed \cup {requests[k].order} ELSE confirmed
  /\ UNCHANGED <<owner, method, payment, keys, notified>>

InGateway(k) == Claim(k) \/ ClaimAnswered(k) \/ Complete(k) \/ Release(k)
                \/ AssertPaymentOwnership(k) \/ Act(k)

\* A statement or a call fails while the handler runs, and its key is released.
HandlerThrows(k) ==
  /\ requests[k].step \in {"own", "act", "complete"}
  /\ requests' = [requests EXCEPT ![k].step = "release", ![k].answer = Failed]
  /\ UNCHANGED <<owner, method, payment, keys, confirmed, notified>>

\* The gateway dies: callers get an error, rows stay PROCESSING.
GatewayCrash ==
  LET cut == {k \in Requests : requests[k].step \notin {"idle", "told"}} IN
  /\ cut # {}
  /\ requests' = [k \in Requests |-> IF k \in cut
                    THEN [requests[k] EXCEPT !.step = "told", !.answer = Failed] ELSE requests[k]]
  /\ UNCHANGED <<owner, method, payment, keys, confirmed, notified>>

-----------------------------------------------------------------------------
(* The payments service by itself.                                         *)

\* order.created reaches it some time after the order was placed.
ProcessPayment(o) ==
  /\ owner[o] # "nobody" /\ payment[o] = "NONE"
  /\ payment' = [payment EXCEPT ![o] = IF method[o] = "YAPE" THEN "PENDING" ELSE "APPROVED"]
  /\ UNCHANGED <<owner, method, keys, requests, confirmed, notified>>

\* The sweep expires a YAPE payment that is pending for too long.
ExpirePending(o) ==
  /\ method[o] = "YAPE" /\ payment[o] = "PENDING"
  /\ payment' = [payment EXCEPT ![o] = "EXPIRED"]
  /\ UNCHANGED <<owner, method, keys, requests, confirmed, notified>>

\* processCulqiWebhook: a signed notification, whatever the status is.
ProcessCulqiWebhook(o) ==
  /\ payment[o] # "NONE"
  /\ \E s \in {"APPROVED", "FAILED", "EXPIRED"} : payment' = [payment EXCEPT ![o] = s]
  /\ notified' = notified \cup {o}
  /\ UNCHANGED <<owner, method, keys, requests, confirmed>>

-----------------------------------------------------------------------------
(* Properties.                                                             *)

\* Who was told that an order is paid, by the service or by a stored response
\* of an earlier call with the same key, can rely on it: its payment stays
\* APPROVED, unless a notification of Culqi, which nothing guards, came.
ConfirmedIsPaid == \A o \in confirmed \ notified : payment[o] = "APPROVED"

\* A response about an order's payment is told to its customer or to an
\* administrator only: also a stored response, which is told without asking
\* whose payment it is although everybody's keys are made of the order's id.
OwnersOnly ==
  \A k \in Requests :
    requests[k].step = "told" /\ requests[k].answer # Failed
      => MayUse(requests[k].client, requests[k].order)

=============================================================================
