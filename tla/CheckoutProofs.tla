--------------------------- MODULE CheckoutProofs ---------------------------
(***************************************************************************)
(* Proofs about the making and the payment of orders in Checkout, for any  *)
(* number of orders, callers, requests and clicks under way: an order      *)
(* charges what the page showed, who was told that it is paid can rely on  *)
(* it, only owners and administrators hear of its payment, and the cart    *)
(* page lists the address book as it is.                                   *)
(***************************************************************************)
EXTENDS Checkout, SequenceTheorems, WellFoundedInduction, TLAPS

Steps == {"claim", "own", "act", "complete", "release", "told"}
CodesSent == Codes \cup {NoCode}
Answers == {Failed} \cup [of : Routes, order : Orders]
Request == [step : Steps, client : Clients, route : Routes, order : Orders,
            code : CodesSent, screen : Screens \cup {"elsewhere"}, answer : Answers]
KeyRow == [key : Clients \X Routes \X Orders, hash : Routes \X CodesSent, response : Answers]

RoutesTypeOK ==
  /\ owner \in [Orders -> Clients \cup {"nobody"}]
  /\ payment \in [Orders -> {"NONE", "PENDING", "APPROVED", "FAILED", "EXPIRED"}]
  /\ keys \subseteq KeyRow
  /\ requests \in [Requests -> Request \cup {Idle}]
  /\ confirmed \subseteq Orders

\* The cart page waits for its start of a payment.
Waiting(k) == requests[k] # Idle /\ requests[k].screen = "checkout" /\ requests[k].route = "start"

\* The orders that the pages can make calls about; at most one start of a
\* payment is under way for the cart page.
PagesInv ==
  /\ pending \in [Screens -> Orders \cup {Nobody}]
  /\ checkout.phase \in {"ordered", "starting", "clearing"} =>
       /\ checkout = [phase |-> checkout.phase, order |-> checkout.order, auth |-> checkout.auth]
       /\ checkout.order \in Orders
  /\ \A k \in Requests : Waiting(k) => checkout.phase = "starting"
  /\ \A j, k \in Requests : Waiting(j) /\ Waiting(k) => j = k

Paid(o) == o \in notified \/ payment[o] = "APPROVED"

\* A client that is told something by route about o may know it, and it is true.
Vouched(client, route, o) ==
  /\ MayUse(client, o)
  /\ route = "confirm" => Paid(o)

\* Ownership was checked before the handler acts, and what it answers is
\* vouched for.
RequestSound(k) ==
  LET r == requests[k] IN
  r # Idle =>
    /\ r.step = "act" => MayUse(r.client, r.order)
    /\ r.answer # Failed => Vouched(r.client, r.route, r.order)

\* So is a stored response, for everybody who has its key.
RowSound(row) == row.response # Failed => Vouched(row.key[1], row.key[2], row.key[3])

RoutesInv ==
  /\ RoutesTypeOK
  /\ \A k \in Requests : RequestSound(k)
  /\ \A row \in keys : RowSound(row)
  /\ \A o \in confirmed : Paid(o)

CheckoutInv == RoutesInv /\ PagesInv

-----------------------------------------------------------------------------

\* Nothing has been claimed, asked or told when the page is opened.
LEMMA CheckoutStarts == Init => CheckoutInv
<1>1. SUFFICES ASSUME Init PROVE CheckoutInv
  OBVIOUS
<1>2. RoutesTypeOK
  BY <1>1, CheckoutAssumption DEF Init, RoutesTypeOK
<1>3. \A k \in Requests : requests[k] = Idle
  BY <1>1 DEF Init
<1>4. keys = {} /\ confirmed = {}
  BY <1>1 DEF Init
<1>5. PagesInv
  BY <1>1, <1>3 DEF Init, PagesInv, Waiting, NoCall, Nobody
<1> QED
  BY <1>2, <1>3, <1>4, <1>5 DEF CheckoutInv, RoutesInv, RequestSound

\* Whatever is vouched for stays so when no owner changes and an approved
\* payment only by a notification.
LEMMA StillVouched ==
  ASSUME NEW c \in Clients, NEW route, NEW o \in Orders,
         Vouched(c, route, o),
         owner[o] # "nobody" => owner'[o] = owner[o],
         Paid(o) => Paid(o)'
  PROVE  Vouched(c, route, o)'
BY CheckoutAssumption DEF Vouched, MayUse

\* RoutesInv is kept by a step that makes no owner and no approval go away and
\* whose new requests, rows and confirmations are sound.
LEMMA RoutesKept ==
  ASSUME RoutesInv, RoutesTypeOK',
         \A o \in Orders : owner[o] # "nobody" => owner'[o] = owner[o],
         \A o \in Orders : Paid(o) => Paid(o)',
         \A k \in Requests : requests'[k] = requests[k] \/ RequestSound(k)',
         \A row \in keys' : row \in keys \/ RowSound(row)',
         \A o \in confirmed' : o \in confirmed \/ Paid(o)'
  PROVE  RoutesInv'
<1>1. ASSUME NEW k \in Requests, requests'[k] = requests[k] PROVE RequestSound(k)'
  <2>1. SUFFICES ASSUME requests[k] # Idle PROVE RequestSound(k)'
    BY <1>1 DEF RequestSound
  <2>2. PICK r \in Request : r = requests[k]
    BY <2>1 DEF RoutesInv, RoutesTypeOK
  <2>3. /\ r.step = "act" => MayUse(r.client, r.order)
        /\ r.answer # Failed => Vouched(r.client, r.route, r.order)
    BY <2>1, <2>2 DEF RoutesInv, RequestSound
  <2>4. r.client \in Clients /\ r.order \in Orders
    BY DEF Request
  <2>5. r.step = "act" => MayUse(r.client, r.order)'
    BY <2>3, <2>4, CheckoutAssumption DEF MayUse
  <2>6. r.answer # Failed => Vouched(r.client, r.route, r.order)'
    BY <2>3, <2>4, StillVouched
  <2> QED
    BY <1>1, <2>2, <2>5, <2>6 DEF RequestSound
<1>2. ASSUME NEW row \in keys PROVE RowSound(row)'
  <2>1. row.key[1] \in Clients /\ row.key[3] \in Orders
    BY DEF RoutesInv, RoutesTypeOK, KeyRow
  <2> QED
    BY <2>1, StillVouched DEF RoutesInv, RowSound
<1>3. \A o \in confirmed' : Paid(o)'
  BY DEF RoutesInv, RoutesTypeOK
<1> QED
  BY <1>1, <1>2, <1>3 DEF RoutesInv

\* Steps of the page that ask nothing and hear nothing.
LEMMA RoutesUntouched == RoutesInv /\ UNCHANGED paymentVars => RoutesInv'
BY DEF paymentVars, RoutesInv, RoutesTypeOK, RequestSound, RowSound, Paid, Vouched, MayUse

\* Steps that put request r into slot k and may store rows.
LEMMA RequestPut ==
  ASSUME RoutesInv, NEW k \in Requests, NEW r \in Request \cup {Idle},
         requests' = [requests EXCEPT ![k] = r],
         r # Idle => /\ r.step = "act" => MayUse(r.client, r.order)
                     /\ r.answer # Failed => Vouched(r.client, r.route, r.order),
         keys' \subseteq KeyRow,
         \A row \in keys' : row \in keys \/ RowSound(row),
         UNCHANGED <<owner, payment, confirmed, notified>>
  PROVE  RoutesInv'
<1>1. \A j \in Requests : requests'[j] = IF j = k THEN r ELSE requests[j]
  BY DEF RoutesInv, RoutesTypeOK
<1>2. RoutesTypeOK'
  BY DEF RoutesInv, RoutesTypeOK
<1>3. RequestSound(k)'
  BY <1>1 DEF RequestSound, Vouched, MayUse, Paid
<1>4. \A row \in keys' : row \in keys \/ RowSound(row)'
  BY DEF RowSound, Vouched, MayUse, Paid
<1> QED
  BY <1>1, <1>2, <1>3, <1>4, RoutesKept DEF Paid

\* A slot that is not idle holds a request.
LEMMA Active ==
  ASSUME RoutesTypeOK, NEW k \in Requests, requests[k].step # "idle"
  PROVE  /\ requests[k] \in Request
         /\ Key(requests[k]) \in Clients \X Routes \X Orders
         /\ Payload(requests[k]) \in Routes \X CodesSent
BY DEF RoutesTypeOK, Request, Idle, Key, Payload

\* So a step that only moves a request on or answers it keeps RoutesInv when the
\* answer is vouched for.
LEMMA RequestMoved ==
  ASSUME RoutesInv, NEW k \in Requests, requests[k].step # "idle",
         NEW s \in Steps, NEW a \in Answers,
         requests' = [requests EXCEPT ![k].step = s, ![k].answer = a],
         s = "act" => MayUse(requests[k].client, requests[k].order),
         a # Failed => Vouched(requests[k].client, requests[k].route, requests[k].order),
         keys' \subseteq KeyRow,
         \A row \in keys' : row \in keys \/ RowSound(row),
         UNCHANGED <<owner, payment, confirmed, notified>>
  PROVE  RoutesInv'
<1>1. PICK r \in Request : r = requests[k]
  BY Active DEF RoutesInv
<1>2. PICK q : q = [r EXCEPT !.step = s, !.answer = a]
  OBVIOUS
<1>3. /\ q \in Request /\ q.step = s /\ q.answer = a
      /\ q.client = r.client /\ q.route = r.route /\ q.order = r.order
  BY <1>2 DEF Request
<1>4. requests' = [requests EXCEPT ![k] = q]
  BY <1>1, <1>2 DEF RoutesInv, RoutesTypeOK
<1> QED
  BY <1>1, <1>3, <1>4, RequestPut

\* Moving on without an answer is answering what was answered before.
LEMMA RequestGoes ==
  ASSUME RoutesInv, NEW k \in Requests, requests[k].step # "idle",
         NEW s \in Steps, Goes(k, s),
         s = "act" => MayUse(requests[k].client, requests[k].order),
         keys' \subseteq KeyRow,
         \A row \in keys' : row \in keys \/ RowSound(row),
         UNCHANGED <<owner, payment, confirmed, notified>>
  PROVE  RoutesInv'
<1>1. requests[k] \in Request
  BY Active DEF RoutesInv
<1>2. requests[k].answer \in Answers /\ requests[k] # Idle
  BY <1>1 DEF Request, Steps, Idle
<1>3. requests' = [requests EXCEPT ![k].step = s, ![k].answer = requests[k].answer]
  BY <1>1 DEF Goes, Request, RoutesInv, RoutesTypeOK
<1>4. requests[k].answer # Failed =>
        Vouched(requests[k].client, requests[k].route, requests[k].order)
  BY <1>2 DEF RoutesInv, RequestSound
<1> HIDE DEF Answers
<1> QED
  BY <1>2, <1>3, <1>4, RequestMoved

-----------------------------------------------------------------------------
(* The gateway.                                                            *)

\* A new row has no response yet.
LEMMA ClaimKeeps == ASSUME RoutesInv, NEW k \in Requests, Claim(k) PROVE RoutesInv'
<1> DEFINE row == [key |-> Key(requests[k]), hash |-> Payload(requests[k]), response |-> Failed]
<1>1. requests[k].step # "idle"
  BY DEF Claim
<1>2. row \in KeyRow
  BY <1>1, Active DEF RoutesInv, KeyRow, Answers
<1>3. RowSound(row)
  BY DEF RowSound
<1>4. keys' = keys \cup {row} /\ Goes(k, "own") /\ UNCHANGED <<owner, payment, confirmed, notified>>
  BY DEF Claim
<1> HIDE DEF row
<1>5. keys' \subseteq KeyRow /\ \A x \in keys' : x \in keys \/ RowSound(x)
  BY <1>2, <1>3, <1>4 DEF RoutesInv, RoutesTypeOK
<1> QED
  BY <1>1, <1>4, <1>5, RequestGoes DEF Steps

\* A stored response is vouched for to everybody who has its key.
LEMMA ClaimAnsweredKeeps ==
  ASSUME RoutesInv, NEW k \in Requests, ClaimAnswered(k) PROVE RoutesInv'
<1>1. requests[k].step # "idle"
  BY DEF ClaimAnswered
<1>2. PICK row \in keys :
        /\ row.key = Key(requests[k])
        /\ Tells(k, IF row.hash # Payload(requests[k]) THEN Failed ELSE row.response)
  BY DEF ClaimAnswered, RowOf
<1>3. PICK a \in Answers :
        /\ Tells(k, a)
        /\ a # Failed => a = row.response
  BY <1>2 DEF RoutesInv, RoutesTypeOK, KeyRow, Answers
<1>4. a # Failed => Vouched(requests[k].client, requests[k].route, requests[k].order)
  BY <1>2, <1>3 DEF RoutesInv, RowSound, Key
<1>5. UNCHANGED <<owner, payment, keys, confirmed, notified>>
  BY DEF ClaimAnswered
<1> QED
  BY <1>1, <1>3, <1>4, <1>5, RequestMoved DEF Tells, Steps, RoutesInv, RoutesTypeOK

\* What is stored with a key is what its owner is about to be told.
LEMMA CompleteKeeps == ASSUME RoutesInv, NEW k \in Requests, Complete(k) PROVE RoutesInv'
<1>1. PICK r \in Request : r = requests[k]
  BY Active DEF RoutesInv, Complete
<1>2. r # Idle /\ requests[k].step # "idle"
  BY <1>1 DEF Request, Steps, Idle
<1>3. r.answer # Failed => Vouched(r.client, r.route, r.order)
  BY <1>1, <1>2 DEF RoutesInv, RequestSound
<1>4. /\ keys' = {IF row.key = Key(r) THEN [row EXCEPT !.response = r.answer] ELSE row : row \in keys}
      /\ Goes(k, "told") /\ UNCHANGED <<owner, payment, confirmed, notified>>
  BY <1>1 DEF Complete
<1>5. ASSUME NEW x \in keys' PROVE x \in KeyRow /\ (x \in keys \/ RowSound(x))
  <2>1. PICK row \in keys : x = IF row.key = Key(r) THEN [row EXCEPT !.response = r.answer] ELSE row
    BY <1>4
  <2>2. row \in KeyRow /\ r.answer \in Answers
    BY DEF RoutesInv, RoutesTypeOK, Request
  <2>3. CASE row.key = Key(r)
    <3>1. x \in KeyRow /\ x.key = Key(r) /\ x.response = r.answer
      BY <2>1, <2>2, <2>3 DEF KeyRow
    <3> QED
      BY <1>3, <3>1 DEF RowSound, Key
  <2> QED
    BY <2>1, <2>2, <2>3
<1> QED
  BY <1>2, <1>4, <1>5, RequestGoes DEF Steps

\* Steps that only move a request on.
LEMMA MovesKeep ==
  ASSUME RoutesInv, NEW k \in Requests,
         Release(k) \/ AssertPaymentOwnership(k) \/ HandlerThrows(k) \/ AnswerLost(k)
  PROVE  RoutesInv'
<1>0. keys \subseteq KeyRow
  BY DEF RoutesInv, RoutesTypeOK
<1>1. CASE Release(k)
  BY <1>0, <1>1, RequestGoes DEF Release, Steps
<1>2. CASE AssertPaymentOwnership(k)
  <2>1. PICK s \in {"act", "release"} :
          Goes(k, s) /\ (s = "act" => MayUse(requests[k].client, requests[k].order))
    BY <1>2 DEF AssertPaymentOwnership
  <2> QED
    BY <1>0, <1>2, <2>1, RequestGoes DEF AssertPaymentOwnership, Steps
<1>3. CASE HandlerThrows(k)
  BY <1>0, <1>3, RequestMoved DEF HandlerThrows, Steps, Answers
<1>4. CASE AnswerLost(k)
  BY <1>0, <1>4, RequestMoved DEF AnswerLost, Tells, Steps, Answers
<1> QED
  BY <1>1, <1>2, <1>3, <1>4

\* Allowed lets nothing but a confirmation leave a payment APPROVED or make it so.
LEMMA ActKeeps == ASSUME RoutesInv, NEW k \in Requests, Act(k) PROVE RoutesInv'
<1>1. PICK r \in Request : r = requests[k]
  BY Active DEF RoutesInv, Act
<1>2. r.route \in Routes /\ r.order \in Orders /\ r.step = "act" /\ r # Idle
  BY <1>1 DEF Request, Act, Idle
<1>3. MayUse(r.client, r.order)
  BY <1>1, <1>2 DEF RoutesInv, RequestSound
<1>4. UNCHANGED <<owner, keys, confirmed, notified>>
  BY DEF Act
<1>5. CASE method[r.order] = "YAPE" /\ payment[r.order] \in Allowed(r.route)
  <2>1. PICK a : a = [of |-> r.route, order |-> r.order]
    OBVIOUS
  <2>2. a \in Answers
    BY <1>2, <2>1 DEF Answers
  <2>3. PICK q : q = [r EXCEPT !.step = "complete", !.answer = a]
    OBVIOUS
  <2>4. /\ q \in Request /\ q # Idle /\ q.step = "complete"
        /\ q.client = r.client /\ q.route = r.route /\ q.order = r.order
    BY <2>2, <2>3 DEF Request, Steps, Idle
  <2>5. requests' = [requests EXCEPT ![k] = q]
    BY <1>1, <1>5, <2>1, <2>3 DEF Act, RoutesInv, RoutesTypeOK
  <2>6. \A j \in Requests : requests'[j] = IF j = k THEN q ELSE requests[j]
    BY <2>5 DEF RoutesInv, RoutesTypeOK
  <2>7. payment' = IF r.route = "start" THEN payment
                   ELSE [payment EXCEPT ![r.order] = Outcome(r.route)]
    BY <1>1, <1>5 DEF Act
  <2>8. r.route # "retry"
    BY <1>5 DEF Allowed
  <2>9. RoutesTypeOK'
    <3>1. r.route # "start" => Outcome(r.route) \in {"APPROVED", "FAILED", "EXPIRED"}
      BY <1>2, <2>8 DEF Routes, Outcome
    <3> QED
      BY <1>4, <2>4, <2>5, <2>7, <3>1 DEF RoutesInv, RoutesTypeOK
  <2>10. ASSUME NEW o \in Orders, payment[o] = "APPROVED" PROVE payment'[o] = "APPROVED"
    <3>1. o = r.order => r.route \in {"start", "confirm"}
      BY <1>2, <1>5, <2>10 DEF Allowed, Failable, Expirable, Routes
    <3> QED
      BY <2>7, <2>10, <3>1 DEF Outcome, RoutesInv, RoutesTypeOK
  <2>11. r.route = "confirm" => payment'[r.order] = "APPROVED"
    BY <1>2, <2>7 DEF Outcome, RoutesInv, RoutesTypeOK
  <2>12. RequestSound(k)'
    BY <1>3, <1>4, <2>4, <2>6, <2>11 DEF RequestSound, Vouched, MayUse, Paid
  <2> QED
    BY <1>4, <2>6, <2>9, <2>10, <2>12, RoutesKept DEF Paid
<1>6. CASE ~(method[r.order] = "YAPE" /\ payment[r.order] \in Allowed(r.route))
  <2>1. Goes(k, "release") /\ UNCHANGED payment
    BY <1>1, <1>6 DEF Act
  <2> QED
    BY <1>1, <1>2, <1>4, <2>1, RequestGoes DEF Steps, RoutesInv, RoutesTypeOK
<1> QED
  BY <1>5, <1>6

\* The callers of a gateway that dies get an error.
LEMMA CrashKeeps == ASSUME RoutesInv, GatewayCrash PROVE RoutesInv'
<1>1. ASSUME NEW k \in Requests, requests'[k] # requests[k]
      PROVE  requests'[k] \in Request /\ requests'[k].step = "told" /\ requests'[k].answer = Failed
  <2>1. /\ requests[k].step # "idle"
        /\ requests'[k] = [requests[k] EXCEPT !.step = "told", !.answer = Failed]
    BY <1>1 DEF GatewayCrash
  <2>2. PICK r \in Request : r = requests[k]
    BY <2>1, Active DEF RoutesInv
  <2> QED
    BY <2>1, <2>2 DEF Request, Steps, Answers
<1>2. UNCHANGED <<owner, payment, keys, confirmed, notified>>
  BY DEF GatewayCrash
<1>3. RoutesTypeOK'
  <2>1. requests' = [k \in Requests |-> requests'[k]]
    BY DEF GatewayCrash
  <2>2. \A k \in Requests : requests'[k] \in Request \cup {Idle}
    BY <1>1 DEF RoutesInv, RoutesTypeOK
  <2> QED
    BY <1>2, <2>1, <2>2 DEF RoutesInv, RoutesTypeOK
<1>4. \A k \in Requests : requests'[k] = requests[k] \/ RequestSound(k)'
  BY <1>1 DEF RequestSound
<1> QED
  BY <1>2, <1>3, <1>4, RoutesKept DEF Paid

-----------------------------------------------------------------------------
(* The callers, and the payments service by itself.                        *)

\* A call that begins has no answer.
LEMMA AskKeeps ==
  ASSUME RoutesInv, NEW k \in Requests, NEW client \in Clients, NEW route \in Routes,
         NEW o \in Orders, NEW code \in CodesSent, NEW screen \in Screens \cup {"elsewhere"},
         Ask(k, client, route, o, code, screen)
  PROVE  RoutesInv'
<1>1. PICK r : r = [step |-> "claim", client |-> client, route |-> route, order |-> o,
                    code |-> code, screen |-> screen, answer |-> Failed]
  OBVIOUS
<1>2. r \in Request /\ r.step = "claim" /\ r.answer = Failed
  BY <1>1 DEF Request, Steps, Answers
<1>3. /\ requests' = [requests EXCEPT ![k] = r]
      /\ UNCHANGED <<owner, payment, keys, confirmed, notified>>
  BY <1>1 DEF Ask
<1> QED
  BY <1>2, <1>3, RequestPut DEF RoutesInv, RoutesTypeOK

\* Whoever hears that an order is paid hears what was vouched for.
LEMMA HearKeeps == ASSUME RoutesInv, NEW k \in Requests, Hear(k) PROVE RoutesInv'
<1>1. PICK r \in Request : r = requests[k]
  BY Active DEF RoutesInv, Hear
<1>2. r # Idle /\ r.order \in Orders
  BY <1>1 DEF Request, Hear, Idle
<1>3. /\ requests' = [requests EXCEPT ![k] = Idle]
      /\ confirmed' = IF r.route = "confirm" /\ r.answer # Failed
                        THEN confirmed \cup {r.order} ELSE confirmed
      /\ UNCHANGED <<owner, payment, keys, notified>>
  BY <1>1 DEF Hear
<1>4. \A o \in confirmed' : o \in confirmed \/ Paid(o)'
  <2>1. r.route = "confirm" /\ r.answer # Failed => Paid(r.order)
    BY <1>1, <1>2 DEF RoutesInv, RequestSound, Vouched
  <2> QED
    BY <1>3, <2>1 DEF Paid
<1>5. \A j \in Requests : requests'[j] = requests[j] \/ RequestSound(j)'
  BY <1>3 DEF RoutesInv, RoutesTypeOK, RequestSound
<1>6. RoutesTypeOK'
  BY <1>2, <1>3 DEF RoutesInv, RoutesTypeOK
<1> QED
  BY <1>3, <1>4, <1>5, <1>6, RoutesKept DEF Paid

\* By itself the service leaves an approved payment alone, unless notified.
LEMMA PaymentsKeep ==
  ASSUME RoutesInv, NEW o \in Orders,
         ProcessPayment(o) \/ ExpirePending(o) \/ ProcessCulqiWebhook(o)
  PROVE  RoutesInv'
<1>1. UNCHANGED <<owner, keys, requests, confirmed>>
  BY DEF ProcessPayment, ExpirePending, ProcessCulqiWebhook
<1>2. PICK s \in {"PENDING", "APPROVED", "FAILED", "EXPIRED"} :
        payment' = [payment EXCEPT ![o] = s]
  BY DEF ProcessPayment, ExpirePending, ProcessCulqiWebhook
<1>3. \A p \in Orders : Paid(p) => Paid(p)'
  <2>1. notified \subseteq notified'
    BY DEF ProcessPayment, ExpirePending, ProcessCulqiWebhook
  <2>2. payment[o] = "APPROVED" => o \in notified'
    BY DEF ProcessPayment, ExpirePending, ProcessCulqiWebhook
  <2> QED
    BY <1>2, <2>1, <2>2 DEF Paid, RoutesInv, RoutesTypeOK
<1>4. RoutesTypeOK'
  BY <1>1, <1>2 DEF RoutesInv, RoutesTypeOK
<1> QED
  BY <1>1, <1>3, <1>4, RoutesKept

\* An order gets its owner once.
LEMMA CreateOrderKeeps == ASSUME RoutesInv, NEW o \in Orders, CreateOrder(o) PROVE RoutesInv'
<1>1. /\ owner[o] = "nobody" /\ owner' = [owner EXCEPT ![o] = Me]
      /\ UNCHANGED <<payment, keys, requests, confirmed, notified>>
  BY DEF CreateOrder
<1>2. RoutesTypeOK'
  BY <1>1, CheckoutAssumption DEF RoutesInv, RoutesTypeOK
<1>3. \A p \in Orders : owner[p] # "nobody" => owner'[p] = owner[p]
  BY <1>1 DEF RoutesInv, RoutesTypeOK
<1> QED
  BY <1>1, <1>2, <1>3, RoutesKept DEF Paid

-----------------------------------------------------------------------------
(* The pages.                                                              *)

\* In the gateway a request keeps who asked it.
LEMMA SameCaller ==
  ASSUME RoutesTypeOK, NEW k \in Requests,
         InGateway(k) \/ HandlerThrows(k) \/ AnswerLost(k),
         NEW j \in Requests, Waiting(j)'
  PROVE  Waiting(j)
<1>1. requests[k].step # "idle"
  BY DEF InGateway, Claim, ClaimAnswered, Complete, Release, AssertPaymentOwnership, Act,
         HandlerThrows, AnswerLost
<1>2. PICK r \in Request : r = requests[k]
  BY <1>1, Active
<1>3. PICK s, a : \/ requests' = [requests EXCEPT ![k].step = s]
                  \/ requests' = [requests EXCEPT ![k].step = s, ![k].answer = a]
  BY DEF InGateway, Claim, ClaimAnswered, Complete, Release, AssertPaymentOwnership, Act,
         HandlerThrows, AnswerLost, Goes, Tells
<1>4. PICK q : /\ q = [r EXCEPT !.step = s] \/ q = [r EXCEPT !.step = s, !.answer = a]
               /\ requests' = [requests EXCEPT ![k] = q]
  BY <1>2, <1>3 DEF RoutesTypeOK
<1>5. q.screen = r.screen /\ q.route = r.route /\ r # Idle
  BY <1>1, <1>2, <1>4 DEF Request, Idle
<1>6. \A i \in Requests : requests'[i] = IF i = k THEN q ELSE requests[i]
  BY <1>4 DEF RoutesTypeOK
<1> QED
  BY <1>2, <1>5, <1>6 DEF Waiting

\* Steps that leave the checkout alone, ask nothing for it and may close or
\* open a dialog.
LEMMA PagesKept ==
  ASSUME PagesInv, pending' \in [Screens -> Orders \cup {Nobody}], UNCHANGED checkout,
         \A k \in Requests : Waiting(k)' => Waiting(k)
  PROVE  PagesInv'
BY DEF PagesInv

\* Steps that leave requests and pages alone.
LEMMA PagesUntouched == PagesInv /\ UNCHANGED <<requests, checkout, pending>> => PagesInv'
BY DEF PagesInv, Waiting

\* A call that is not the cart page's leaves its checkout as it was.
LEMMA AskPages ==
  ASSUME RoutesTypeOK, PagesInv, NEW k \in Requests, NEW client, NEW route, NEW o, NEW code,
         NEW screen, Ask(k, client, route, o, code, screen),
         screen # "checkout" \/ route # "start", UNCHANGED <<pending, checkout>>
  PROVE  PagesInv'
<1>1. \A j \in Requests : Waiting(j)' => Waiting(j)
  BY DEF Ask, Waiting, RoutesTypeOK
<1> QED
  BY <1>1, PagesKept DEF PagesInv

\* The checkout goes from one call to the next about the same order.
LEMMA CheckoutPages ==
  ASSUME RoutesTypeOK, PagesInv, CheckoutStep
  PROVE  PagesInv'
<1>1. ASSUME NEW m \in {"AUTO", "YAPE"}, HandleCheckout(m) PROVE PagesInv'
  BY <1>1 DEF HandleCheckout, Elsewhere, PagesInv, Waiting, paymentVars, NoCall
<1>2. ASSUME NEW o \in Orders, CreateOrder(o) PROVE PagesInv'
  BY <1>2 DEF CreateOrder, Elsewhere, PagesInv, Waiting
<1>3. ASSUME NEW k \in Requests, StartPayment(k) PROVE PagesInv'
  <2>1. checkout.phase = "ordered" /\ \A j \in Requests : ~Waiting(j)
    BY <1>3 DEF StartPayment, PagesInv
  <2>2. checkout' = [phase |-> "starting", order |-> checkout.order, auth |-> checkout.auth]
    BY <1>3, <2>1 DEF StartPayment, PagesInv
  <2>3. \A j \in Requests : Waiting(j)' => j = k
    BY <1>3, <2>1 DEF StartPayment, Ask, Waiting, RoutesTypeOK
  <2> QED
    BY <1>3, <2>1, <2>2, <2>3 DEF StartPayment, Elsewhere, PagesInv
<1>4. CASE OrderRefused \/ CheckoutFails \/ StartRefused
  <2>1. checkout.phase # "starting" /\ checkout' = NoCall /\ UNCHANGED <<requests, pending>>
    BY <1>4 DEF OrderRefused, CheckoutFails, StartRefused, Elsewhere, paymentVars
  <2> QED
    BY <2>1 DEF PagesInv, Waiting, NoCall
<1>5. CASE OrderedAuto
  <2>1. checkout' = [phase |-> "clearing", order |-> checkout.order, auth |-> checkout.auth]
    BY <1>5 DEF OrderedAuto, PagesInv
  <2> QED
    BY <1>5, <2>1 DEF OrderedAuto, Elsewhere, PagesInv, Waiting, paymentVars
<1>6. CASE CartCleared
  BY <1>6 DEF CartCleared, PagesInv, Waiting, paymentVars, NoCall
<1> QED
  BY <1>1, <1>2, <1>3, <1>4, <1>5, <1>6 DEF CheckoutStep

\* The answer to its start is the only one that moves the checkout on.
LEMMA HearPages ==
  ASSUME RoutesTypeOK, PagesInv, NEW k \in Requests, HearAnswer(k)
  PROVE  PagesInv'
<1>1. Hear(k)
  BY DEF HearAnswer
<1>2. PICK r \in Request : r = requests[k]
  BY <1>1, Active DEF Hear
<1>3. r # Idle /\ r.order \in Orders /\ r.screen \in Screens \cup {"elsewhere"}
  BY <1>1, <1>2 DEF Request, Hear, Idle
<1>4. pending' \in [Screens -> Orders \cup {Nobody}]
  BY <1>2, <1>3 DEF HearAnswer, PagesInv, Screens
<1>5. \A j \in Requests : requests'[j] = IF j = k THEN Idle ELSE requests[j]
  BY <1>1 DEF Hear, RoutesTypeOK
<1>6. \A j \in Requests : Waiting(j)' => Waiting(j) /\ j # k
  BY <1>5 DEF Waiting
<1>7. CASE Waiting(k)
  <2>1. checkout' = NoCall \/ checkout' = [checkout EXCEPT !.phase = "clearing"]
    BY <1>7 DEF HearAnswer, Waiting
  <2>2. checkout.phase = "starting" /\ \A j \in Requests : ~Waiting(j)'
    BY <1>6, <1>7 DEF PagesInv
  <2>3. \/ checkout' = NoCall
        \/ checkout' = [phase |-> "clearing", order |-> checkout.order, auth |-> checkout.auth]
    BY <2>1, <2>2 DEF PagesInv
  <2> QED
    BY <1>4, <2>2, <2>3 DEF PagesInv, NoCall
<1>8. CASE ~Waiting(k)
  <2>1. UNCHANGED checkout
    BY <1>2, <1>3, <1>8 DEF HearAnswer, Waiting
  <2> QED
    BY <1>4, <1>6, <2>1, PagesKept
<1> QED
  BY <1>7, <1>8

-----------------------------------------------------------------------------
(* The invariant.                                                          *)

\* Every step of the page with the gateway keeps CheckoutInv.
LEMMA CheckoutInductive == CheckoutInv /\ [Next]_vars => CheckoutInv'
<1>1. SUFFICES ASSUME RoutesInv, PagesInv, [Next]_vars PROVE CheckoutInv'
  BY DEF CheckoutInv
<1>2. RoutesTypeOK
  BY <1>1 DEF RoutesInv
<1>3. CASE \/ ShippingNext /\ UNCHANGED <<paymentVars, pageVars>>
           \/ PriceChanges \/ ReloadOrders \/ OrdersLoaded \/ UNCHANGED vars
  <2>1. UNCHANGED paymentVars /\ UNCHANGED <<requests, checkout, pending>>
    BY <1>3 DEF PriceChanges, ReloadOrders, OrdersLoaded, AsOrdered, vars, paymentVars, pageVars
  <2> QED
    BY <1>1, <2>1, RoutesUntouched, PagesUntouched DEF CheckoutInv
<1>4. CASE PaymentStep /\ UNCHANGED <<shippingVars, pageVars>>
  <2>1. UNCHANGED <<checkout, pending>>
    BY <1>4 DEF pageVars
  <2>2. ASSUME NEW k \in Requests, InGateway(k) \/ HandlerThrows(k) PROVE CheckoutInv'
    <3>1. RoutesInv'
      BY <1>1, <2>2, ClaimKeeps, ClaimAnsweredKeeps, CompleteKeeps, MovesKeep, ActKeeps
         DEF InGateway
    <3>2. \A j \in Requests : Waiting(j)' => Waiting(j)
      BY <1>2, <2>2, SameCaller
    <3> QED
      BY <1>1, <2>1, <3>1, <3>2, PagesKept DEF CheckoutInv, PagesInv
  <2>3. CASE GatewayCrash
    <3>1. \A j \in Requests : Waiting(j)' => Waiting(j)
      BY <1>2, <2>3, Active DEF GatewayCrash, Waiting, Request, Idle
    <3> QED
      BY <1>1, <2>1, <2>3, <3>1, CrashKeeps, PagesKept DEF CheckoutInv, PagesInv
  <2>4. ASSUME NEW o \in Orders, ProcessPayment(o) \/ ExpirePending(o) \/ ProcessCulqiWebhook(o)
        PROVE  CheckoutInv'
    <3>1. UNCHANGED requests
      BY <2>4 DEF ProcessPayment, ExpirePending, ProcessCulqiWebhook
    <3> QED
      BY <1>1, <2>1, <2>4, <3>1, PaymentsKeep, PagesUntouched DEF CheckoutInv
  <2> QED
    BY <1>4, <2>2, <2>3, <2>4 DEF PaymentStep
<1>5. CASE CheckoutStep
  <2>1. ASSUME NEW k \in Requests, StartPayment(k) PROVE RoutesInv'
    <3>1. checkout.order \in Orders /\ Ask(k, Me, "start", checkout.order, NoCode, "checkout")
      BY <1>1, <2>1 DEF StartPayment, PagesInv
    <3> QED
      BY <1>1, <3>1, CheckoutAssumption, AskKeeps DEF Routes, CodesSent, Screens
  <2>2. ASSUME \/ \E m \in {"AUTO", "YAPE"} : HandleCheckout(m)
               \/ OrderRefused \/ CheckoutFails \/ StartRefused \/ OrderedAuto \/ CartCleared
        PROVE  RoutesInv'
    <3>1. UNCHANGED paymentVars
      BY <2>2 DEF HandleCheckout, OrderRefused, CheckoutFails, StartRefused, OrderedAuto, CartCleared
    <3> QED
      BY <1>1, <3>1, RoutesUntouched
  <2>3. RoutesInv'
    BY <1>1, <1>5, <2>1, <2>2, CreateOrderKeeps DEF CheckoutStep
  <2> QED
    BY <1>1, <1>2, <1>5, <2>3, CheckoutPages DEF CheckoutInv
<1>6. CASE OrdersStep
  <2>1. ASSUME NEW k \in Requests, NEW o \in Orders,
               HandleRetryPayment(k, o) \/ HandleOpenPendingYape(k, o)
        PROVE  CheckoutInv'
    <3>1. PICK route \in {"retry", "start"} : Ask(k, Me, route, o, NoCode, "orders")
      BY <2>1 DEF HandleRetryPayment, HandleOpenPendingYape, FromOrders
    <3>2. UNCHANGED <<pending, checkout>>
      BY <2>1 DEF HandleRetryPayment, HandleOpenPendingYape, FromOrders, AsOrdered
    <3>3. RoutesInv'
      BY <1>1, <3>1, CheckoutAssumption, AskKeeps DEF Routes, CodesSent, Screens
    <3> QED
      BY <1>1, <1>2, <3>1, <3>2, <3>3, AskPages DEF CheckoutInv
  <2>2. ASSUME NEW k \in Requests, NEW screen \in Screens, NEW code \in Codes,
               HandleConfirm(k, screen, code)
        PROVE  CheckoutInv'
    <3>1. /\ pending[screen] \in Orders
          /\ Ask(k, Me, "confirm", pending[screen], code, screen)
          /\ UNCHANGED <<pending, checkout>>
      BY <1>1, <2>2 DEF HandleConfirm, AsOrdered, PagesInv
    <3>2. RoutesInv'
      BY <1>1, <3>1, CheckoutAssumption, AskKeeps DEF Routes, CodesSent
    <3> QED
      BY <1>1, <1>2, <3>1, <3>2, AskPages DEF CheckoutInv
  <2>3. ASSUME NEW k \in Requests, NEW client \in Clients, NEW route \in Routes,
               NEW o \in Orders, NEW code \in Codes, AskElsewhere(k, client, route, o, code)
        PROVE  CheckoutInv'
    <3>1. PICK sent \in CodesSent : Ask(k, client, route, o, sent, "elsewhere")
      BY <2>3 DEF AskElsewhere, CodesSent
    <3>2. UNCHANGED <<pending, checkout>>
      BY <2>3 DEF AskElsewhere, AsOrdered
    <3>3. RoutesInv'
      BY <1>1, <3>1, AskKeeps
    <3> QED
      BY <1>1, <1>2, <3>1, <3>2, <3>3, AskPages DEF CheckoutInv
  <2>4. ASSUME NEW k \in Requests, HearAnswer(k) PROVE CheckoutInv'
    BY <1>1, <1>2, <2>4, HearKeeps, HearPages DEF CheckoutInv, HearAnswer
  <2>5. ASSUME NEW k \in Requests, AnswerLost(k) PROVE CheckoutInv'
    <3>1. \A j \in Requests : Waiting(j)' => Waiting(j)
      BY <1>2, <2>5, SameCaller
    <3>2. UNCHANGED <<pending, checkout>>
      BY <2>5 DEF AnswerLost, AsOrdered
    <3> QED
      BY <1>1, <2>5, <3>1, <3>2, MovesKeep, PagesKept DEF CheckoutInv, PagesInv
  <2> QED
    BY <1>3, <1>6, <2>1, <2>2, <2>3, <2>4, <2>5 DEF OrdersStep
<1> QED
  BY <1>1, <1>3, <1>4, <1>5, <1>6 DEF Next

\* So it always holds.
THEOREM RoutesAreSound == Spec => []CheckoutInv
BY CheckoutStarts, CheckoutInductive, PTL DEF Spec

\* Who was told that an order is paid can rely on it: by a handler that asked
\* the payments service, or by the stored response of an earlier call of the
\* same user; only a notification of Culqi takes an approval back.
THEOREM ConfirmationsStand == Spec => []ConfirmedIsPaid
<1>1. CheckoutInv => ConfirmedIsPaid
  BY DEF CheckoutInv, RoutesInv, RoutesTypeOK, Paid, ConfirmedIsPaid
<1> QED
  BY <1>1, RoutesAreSound, PTL

\* Nobody but its customer and the administrators is told of an order's
\* payment, also by a stored response, which is told without asking whose
\* payment it is.
THEOREM OnlyOwnersHear == Spec => []OwnersOnly
<1>1. CheckoutInv => OwnersOnly
  BY DEF CheckoutInv, RoutesInv, RequestSound, Vouched, Idle, OwnersOnly
<1> QED
  BY <1>1, RoutesAreSound, PTL

-----------------------------------------------------------------------------
(* What an order charges.                                                  *)

\* The quote under way, and the one that is shown when none is, are for the
\* selected address and the cart as it is.
QuoteCurrent ==
  /\ \/ asking = NoCall
     \/ /\ asking = [phase |-> asking.phase, id |-> selected, units |-> units]
        /\ asking.phase \in {"sent", "priced", "failed"}
  /\ asking = NoCall /\ quote # NoQuote => quote = [id |-> selected, units |-> units]

\* A total that was shown with such a quote is what the order in the making
\* will charge at the listed price.
ShownIsQuoted ==
  checkout.phase = "order" /\ checkout.sure =>
    checkout.shown = checkout.units * Listed
                       + BuildShippingQuote(Zone[checkout.id], checkout.units)

ChargeInv ==
  /\ QuoteCurrent
  /\ ShownIsQuoted
  /\ placed = [o \in Orders |-> placed[o]]
  /\ ChargedAsShown

\* An effect of the page asks for what is selected and in the cart from now on.
LEMMA EffectCurrent ==
  ASSUME NEW tok, QuoteEffect(tok, selected', units')
  PROVE  QuoteCurrent'
BY DEF QuoteEffect, Quoted, QuoteCurrent, NoCall, NoQuote

\* Showing a list asks again when the selection changes.
LEMMA ShowCurrent ==
  ASSUME QuoteCurrent, NEW s, NEW sel, Show(s, sel)
  PROVE  QuoteCurrent'
<1>1. CASE sel = selected
  BY <1>1 DEF Show, QuoteCurrent
<1>2. CASE sel # selected
  BY <1>2, EffectCurrent DEF Show, QuoteEffect
<1> QED
  BY <1>1, <1>2

\* Every step of the shipping panel keeps the quote current.
LEMMA PanelCurrent ==
  ASSUME QuoteCurrent, ShippingNext
  PROVE  QuoteCurrent'
<1>1. CASE UNCHANGED <<selected, units, asking, quote>>
  BY <1>1 DEF QuoteCurrent
<1>2. ASSUME NEW k \in Clicks,
             \/ HandleCreateAddress(k) \/ HandleDeleteAddress(k) \/ Serve(k) \/ CallFails(k)
      PROVE  QuoteCurrent'
  BY <1>1, <1>2 DEF HandleCreateAddress, HandleDeleteAddress, Serve, CallFails, AsShown,
       GetMyShippingAddresses, CreateMyShippingAddress, DeleteMyShippingAddress, CallRefused
<1>3. ASSUME NEW k \in Clicks, Login(k) PROVE QuoteCurrent'
  BY <1>3 DEF Login, QuoteEffect, Quoted, QuoteCurrent, NoCall, NoQuote
<1>4. ASSUME NEW k \in Clicks, Answer(k) PROVE QuoteCurrent'
  <2>1. (\E s, sel : Show(s, sel)) \/ UNCHANGED <<selected, units, asking, quote>>
    BY <1>4 DEF Answer, AddressesLoaded, AddressCreated, AddressDeleted, CallFailed, AsShown
  <2> QED
    BY <1>1, <2>1, ShowCurrent
<1>5. ASSUME NEW sel, SelectAddress(sel) PROVE QuoteCurrent'
  BY <1>5, ShowCurrent DEF SelectAddress
<1>6. ASSUME NEW n \in Units, CartChanges(n) PROVE QuoteCurrent'
  BY <1>6 DEF CartChanges, QuoteEffect, Quoted, QuoteCurrent, NoCall, NoQuote
<1>7. CASE HandleLogout
  BY <1>7 DEF HandleLogout, QuoteEffect, Quoted, QuoteCurrent
<1>8. CASE TokenExpires \/ ChangedElsewhere
  BY <1>1, <1>8 DEF TokenExpires, ChangedElsewhere, panelVars
<1>9. CASE QuoteShipping \/ QuoteFails
  <2>1. asking.phase \in {"sent", "priced"} /\ UNCHANGED <<selected, units, quote>>
    BY <1>9 DEF QuoteShipping, QuoteFails
  <2>2. PICK p \in {"priced", "failed"} : asking' = [asking EXCEPT !.phase = p]
    BY <1>9 DEF QuoteShipping, QuoteFails
  <2>3. asking' = [phase |-> p, id |-> selected, units |-> units]
    BY <2>1, <2>2 DEF QuoteCurrent, NoCall
  <2>4. asking' # NoCall
    BY <2>3 DEF NoCall
  <2> QED
    BY <2>1, <2>3, <2>4 DEF QuoteCurrent
<1>10. CASE LoadQuote
  BY <1>10 DEF LoadQuote, QuoteCurrent, NoCall, NoQuote
<1> QED
  BY <1>2, <1>3, <1>4, <1>5, <1>6, <1>7, <1>8, <1>9, <1>10 DEF ShippingNext

\* ChargeInv holds at the start.
LEMMA ChargeStarts == Init => ChargeInv
BY DEF Init, ShippingInit, ChargeInv, QuoteCurrent, ShownIsQuoted, ChargedAsShown, NotPlaced,
       NoCall

\* Steps that leave the checkout and the orders alone.
LEMMA ChargeKept ==
  ChargeInv /\ QuoteCurrent' /\ UNCHANGED <<checkout, placed>> => ChargeInv'
BY DEF ChargeInv, ShownIsQuoted, ChargedAsShown

\* Steps that end the checkout, or take it beyond the making of its order.
LEMMA ChargePast ==
  ChargeInv /\ QuoteCurrent' /\ checkout'.phase # "order" /\ UNCHANGED placed => ChargeInv'
BY DEF ChargeInv, ShownIsQuoted, ChargedAsShown

\* Every step keeps ChargeInv.
LEMMA ChargeInductive == PagesInv /\ ChargeInv /\ [Next]_vars => ChargeInv'
<1> SUFFICES ASSUME PagesInv, ChargeInv, [Next]_vars PROVE ChargeInv'
  OBVIOUS
<1>0. ASSUME checkout' = NoCall \/ /\ checkout.phase \in {"ordered", "starting"}
                                    /\ checkout' = [checkout EXCEPT !.phase = "clearing"]
      PROVE  checkout'.phase # "order"
  BY <1>0 DEF PagesInv, NoCall
<1>1. UNCHANGED shippingVars => QuoteCurrent'
  BY DEF ChargeInv, shippingVars, panelVars, QuoteCurrent
<1>2. CASE ShippingNext /\ UNCHANGED <<paymentVars, pageVars>>
  <2>1. UNCHANGED <<checkout, placed>>
    BY <1>2 DEF pageVars
  <2> QED
    BY <1>2, <2>1, PanelCurrent, ChargeKept DEF ChargeInv
<1>3. CASE \/ PaymentStep /\ UNCHANGED <<shippingVars, pageVars>>
           \/ PriceChanges \/ UNCHANGED vars
  <2>1. UNCHANGED shippingVars /\ UNCHANGED <<checkout, placed>>
    BY <1>3 DEF pageVars, vars, PriceChanges
  <2> QED
    BY <1>1, <2>1, ChargeKept
<1>4. CASE OrdersStep
  <2>1. UNCHANGED <<shippingVars, placed>>
    BY <1>4 DEF OrdersStep, ReloadOrders, OrdersLoaded, HandleRetryPayment, HandleOpenPendingYape,
         FromOrders, HandleConfirm, AskElsewhere, HearAnswer, AnswerLost, AsOrdered
  <2>2. ASSUME NEW k \in Requests, HearAnswer(k), checkout' # checkout
        PROVE  checkout'.phase # "order"
    <3>1. Waiting(k)
      BY <2>2 DEF HearAnswer, Hear, Waiting, Idle
    <3> QED
      BY <1>0, <2>2, <3>1 DEF HearAnswer, PagesInv
  <2>3. UNCHANGED checkout \/ \E k \in Requests : HearAnswer(k)
    BY <1>4 DEF OrdersStep, ReloadOrders, OrdersLoaded, HandleRetryPayment, HandleOpenPendingYape,
         FromOrders, HandleConfirm, AskElsewhere, AnswerLost, AsOrdered
  <2> QED
    BY <1>1, <2>1, <2>2, <2>3, ChargeKept, ChargePast
<1>5. CASE CheckoutStep
  <2>1. ASSUME NEW m \in {"AUTO", "YAPE"}, HandleCheckout(m) PROVE ChargeInv'
    <3>1. /\ checkout' = [phase |-> "order", method |-> m, id |-> selected, units |-> units,
                          auth |-> token, shown |-> CheckoutTotal,
                          sure |-> asking = NoCall /\ quote # NoQuote]
          /\ UNCHANGED <<shippingVars, placed>>
      BY <2>1 DEF HandleCheckout
    <3>2. asking = NoCall /\ quote # NoQuote =>
            CheckoutTotal = units * Listed + BuildShippingQuote(Zone[selected], units)
      BY DEF ChargeInv, QuoteCurrent, CheckoutTotal
    <3>3. ShownIsQuoted'
      BY <3>1, <3>2 DEF ShownIsQuoted
    <3> QED
      BY <1>1, <3>1, <3>3 DEF ChargeInv, ChargedAsShown
  <2>2. ASSUME NEW o \in Orders, CreateOrder(o) PROVE ChargeInv'
    <3>1. /\ checkout.phase = "order"
          /\ placed' = [placed EXCEPT ![o] =
               [shown |-> checkout.shown, sure |-> checkout.sure /\ price = Listed,
                total |-> checkout.units * price
                            + BuildShippingQuote(Zone[checkout.id], checkout.units)]]
          /\ checkout' = [phase |-> "ordered", order |-> o, auth |-> checkout.auth]
          /\ UNCHANGED shippingVars
      BY <2>2 DEF CreateOrder
    <3>2. placed'[o].sure => placed'[o].total = placed'[o].shown
      BY <3>1 DEF ChargeInv, ShownIsQuoted
    <3>3. \A p \in Orders : p # o => placed'[p] = placed[p]
      BY <3>1 DEF ChargeInv
    <3>4. ChargedAsShown'
      BY <3>2, <3>3 DEF ChargeInv, ChargedAsShown
    <3> QED
      BY <1>1, <3>1, <3>4 DEF ChargeInv, ShownIsQuoted
  <2>3. ASSUME NEW k \in Requests, StartPayment(k) PROVE ChargeInv'
    BY <1>1, <2>3 DEF StartPayment, ChargeInv, ShownIsQuoted, ChargedAsShown
  <2>4. CASE OrderRefused \/ CheckoutFails \/ StartRefused \/ OrderedAuto
    <3>1. UNCHANGED <<shippingVars, placed>>
      BY <2>4 DEF OrderRefused, CheckoutFails, StartRefused, OrderedAuto
    <3>2. \/ checkout' = NoCall
          \/ checkout.phase = "ordered" /\ checkout' = [checkout EXCEPT !.phase = "clearing"]
      BY <2>4 DEF OrderRefused, CheckoutFails, StartRefused, OrderedAuto
    <3> QED
      BY <1>0, <1>1, <3>1, <3>2, ChargePast
  <2>5. CASE CartCleared
    <3>1. QuoteCurrent'
      BY <2>5, EffectCurrent DEF CartCleared, QuoteEffect
    <3> QED
      BY <2>5, <3>1 DEF CartCleared, ChargeInv, ShownIsQuoted, ChargedAsShown, NoCall
  <2> QED
    BY <1>5, <2>1, <2>2, <2>3, <2>4, <2>5 DEF CheckoutStep
<1> QED
  BY <1>2, <1>3, <1>4, <1>5 DEF Next


\* An order charges the total that the page showed when its button was
\* pressed, however addresses, cart and quotes changed around the click: unless
\* the quote was under way or had failed, or the catalog's price changed.
THEOREM ChargesAreAsShown == Spec => []ChargedAsShown
<1>1. ChargeInv => ChargedAsShown
  BY DEF ChargeInv
<1>2. CheckoutInv => PagesInv
  BY DEF CheckoutInv
<1> QED
  BY <1>1, <1>2, RoutesAreSound, ChargeStarts, ChargeInductive, PTL DEF Spec

-----------------------------------------------------------------------------
(* Sequences and Filter.                                                    *)

\* Induction: a set that has zero and every successor has all numbers.
LEMMA AllNumbers ==
  ASSUME NEW X, 0 \in X, \A n \in Nat : n \in X => n + 1 \in X
  PROVE  Nat \subseteq X
<1>1. SUFFICES ASSUME Nat \ X # {} PROVE FALSE
  OBVIOUS
<1>2. PICK m \in Nat \ X : \A n \in Nat \ X : <<n, m>> \notin OpToRel(<, Nat)
  BY <1>1, NatLessThanWellFounded, WFMin
<1>3. m \in Nat /\ m \notin X /\ m # 0
  BY <1>2
<1>4. m - 1 \in Nat /\ m - 1 < m /\ (m - 1) + 1 = m
  BY <1>3
<1>5. <<m - 1, m>> \in OpToRel(<, Nat)
  BY <1>3, <1>4 DEF OpToRel
<1>6. m - 1 \in X
  BY <1>2, <1>4, <1>5
<1> QED
  BY <1>3, <1>4, <1>6


\* Every other sequence ends with an element.
LEMMA Ended ==
  ASSUME NEW S, NEW s \in Seq(S), s # <<>>
  PROVE  \E t \in Seq(S), a \in S : s = Append(t, a) /\ Len(s) = Len(t) + 1
<1> DEFINE n == Len(s) - 1
           t == [i \in 1..n |-> s[i]]
           a == s[Len(s)]
<1>1. Len(s) \in Nat \ {0} /\ n \in Nat
  BY EmptySeq
<1>2. t \in Seq(S) /\ Len(t) = n /\ \A i \in 1..n : t[i] = s[i]
  BY <1>1
<1>3. a \in S
  BY <1>1
<1>4. n + 1 = Len(s) /\ a = s[n + 1] /\ 1..Len(s) = 1..n \cup {n + 1}
  BY <1>1
<1> HIDE DEF t, a, n
<1>5. /\ Append(t, a) \in Seq(S) /\ Len(Append(t, a)) = Len(s)
      /\ \A i \in 1..Len(s) : s[i] = Append(t, a)[i]
  BY <1>1, <1>2, <1>3, <1>4, AppendProperties, LenProperties
<1>6. s = Append(t, a)
  BY <1>5, SeqEqual
<1> QED
  BY <1>2, <1>3, <1>6, <1>4

\* Induction: a set that has the empty sequence and every longer one has all.
LEMMA AllSequences ==
  ASSUME NEW S, NEW X, <<>> \in X,
         \A s \in Seq(S), a \in S : s \in X => Append(s, a) \in X
  PROVE  Seq(S) \subseteq X
<1> DEFINE N == {n \in Nat : \A s \in Seq(S) : Len(s) = n => s \in X}
<1>1. 0 \in N
  BY EmptySeq
<1>2. ASSUME NEW n \in Nat, n \in N PROVE n + 1 \in N
  <2>1. ASSUME NEW s \in Seq(S), Len(s) = n + 1 PROVE s \in X
    <3>1. s # <<>>
      BY <2>1, EmptySeq
    <3>2. PICK t \in Seq(S), a \in S : s = Append(t, a) /\ Len(s) = Len(t) + 1
      BY <3>1, Ended
    <3>3. Len(t) = n
      BY <2>1, <3>2, AppendProperties, LenProperties
    <3> QED
      BY <1>2, <3>2, <3>3
  <2> QED
    BY <2>1
<1> HIDE DEF N
<1>3. Nat \subseteq N
  BY <1>1, <1>2, AllNumbers
<1> QED
  BY <1>3, LenProperties DEF N

\* f is what Filter(s, T) builds up to place n.
UpTo(f, s, T, n) ==
  f = [i \in 0..n |-> IF i = 0 THEN <<>>
                      ELSE IF s[i] \in T THEN Append(f[i - 1], s[i]) ELSE f[i - 1]]

\* There is one, for every place.
LEMMA UpToIs ==
  ASSUME NEW s, NEW T, NEW n \in Nat
  PROVE  \E f : UpTo(f, s, T, n)
<1> DEFINE N == {k \in Nat : \E f : UpTo(f, s, T, k)}
<1>1. 0 \in N
  <2>1. UpTo([i \in 0..0 |-> <<>>], s, T, 0)
    BY DEF UpTo
  <2> QED
    BY <2>1
<1>2. ASSUME NEW k \in Nat, k \in N PROVE k + 1 \in N
  <2>1. PICK f : UpTo(f, s, T, k)
    BY <1>2
  <2> DEFINE last == IF s[k + 1] \in T THEN Append(f[k], s[k + 1]) ELSE f[k]
             g == [i \in 0..(k + 1) |-> IF i = k + 1 THEN last ELSE f[i]]
  <2>2. \A i \in 0..k : f[i] = IF i = 0 THEN <<>>
                               ELSE IF s[i] \in T THEN Append(f[i - 1], s[i]) ELSE f[i - 1]
    BY <2>1 DEF UpTo
  <2>3. \A i \in 0..k : g[i] = f[i]
    OBVIOUS
  <2>4. g[k + 1] = last /\ k \in 0..k
    OBVIOUS
  <2> DEFINE h == [i \in 0..(k + 1) |-> IF i = 0 THEN <<>>
                      ELSE IF s[i] \in T THEN Append(g[i - 1], s[i]) ELSE g[i - 1]]
  <2>5. ASSUME NEW i \in 0..(k + 1) PROVE g[i] = h[i]
    <3>1. CASE i = k + 1
      <4>1. (k + 1) - 1 = k /\ k + 1 # 0
        OBVIOUS
      <4> QED
        BY <2>3, <2>4, <3>1, <4>1
    <3>2. CASE i \in 0..k
      <4>1. i = 0 \/ i - 1 \in 0..k
        BY <3>2
      <4> QED
        BY <2>2, <2>3, <3>2, <4>1
    <3> QED
      BY <3>1, <3>2
  <2>6. g = h
    BY <2>5
  <2>7. UpTo(g, s, T, k + 1)
    BY <2>6 DEF UpTo
  <2> QED
    BY <2>7
<1> HIDE DEF N
<1>3. n \in N
  BY <1>1, <1>2, AllNumbers
<1> QED
  BY <1>3 DEF N

\* Two of them agree where the sequences do.
LEMMA UpToAgree ==
  ASSUME NEW s, NEW t, NEW T, NEW m \in Nat, NEW n \in Nat, NEW f, NEW g,
         UpTo(f, s, T, m), UpTo(g, t, T, n), m <= n, \A i \in 1..m : s[i] = t[i]
  PROVE  f[m] = g[m]
<1> DEFINE N == {k \in Nat : k <= m => f[k] = g[k]}
<1>1. /\ \A i \in 0..m : f[i] = IF i = 0 THEN <<>>
                               ELSE IF s[i] \in T THEN Append(f[i - 1], s[i]) ELSE f[i - 1]
      /\ \A i \in 0..n : g[i] = IF i = 0 THEN <<>>
                               ELSE IF t[i] \in T THEN Append(g[i - 1], t[i]) ELSE g[i - 1]
  BY DEF UpTo
<1>2. 0 \in N
  BY <1>1
<1>3. ASSUME NEW k \in Nat, k \in N PROVE k + 1 \in N
  <2>1. SUFFICES ASSUME k + 1 <= m PROVE f[k + 1] = g[k + 1]
    OBVIOUS
  <2>2. k + 1 \in 0..m /\ k + 1 \in 0..n /\ k + 1 \in 1..m /\ k + 1 # 0 /\ (k + 1) - 1 = k /\ k <= m
    BY <2>1
  <2>3. f[k] = g[k] /\ s[k + 1] = t[k + 1]
    BY <1>3, <2>2
  <2> QED
    BY <1>1, <2>2, <2>3
<1> HIDE DEF N
<1>4. m \in N
  BY <1>2, <1>3, AllNumbers
<1> QED
  BY <1>4 DEF N

\* Filter is the last of what it builds.
LEMMA FilterBuilds ==
  ASSUME NEW S, NEW s \in Seq(S), NEW T
  PROVE  \E f : UpTo(f, s, T, Len(s)) /\ Filter(s, T) = f[Len(s)]
<1> DEFINE f == CHOOSE g : UpTo(g, s, T, Len(s))
<1>1. Len(s) \in Nat
  OBVIOUS
<1>2. UpTo(f, s, T, Len(s))
  BY <1>1, UpToIs
<1>3. Filter(s, T) = f[Len(s)]
  BY DEF Filter, UpTo
<1> QED
  BY <1>2, <1>3

\* Nothing is left of nothing.
LEMMA FilterEmpty == \A T : Filter(<<>>, T) = <<>>
<1>1. <<>> \in Seq({}) /\ Len(<<>>) = 0 /\ 0 \in 0..0
  BY EmptySeq
<1>2. ASSUME NEW T PROVE Filter(<<>>, T) = <<>>
  <2>1. PICK f : UpTo(f, <<>>, T, 0) /\ Filter(<<>>, T) = f[0]
    BY <1>1, FilterBuilds
  <2>2. f[0] = <<>>
    BY <1>1, <2>1 DEF UpTo
  <2> QED
    BY <2>1, <2>2
<1> QED
  BY <1>2

\* It looks at one element after the other.
LEMMA FilterAppend ==
  ASSUME NEW S, NEW s \in Seq(S), NEW a \in S, NEW T
  PROVE  Filter(Append(s, a), T) = IF a \in T THEN Append(Filter(s, T), a) ELSE Filter(s, T)
<1> DEFINE t == Append(s, a)
           n == Len(s)
<1>1. /\ t \in Seq(S) /\ Len(t) = n + 1 /\ n \in Nat /\ t[n + 1] = a
      /\ \A i \in 1..n : s[i] = t[i]
  BY AppendProperties, LenProperties
<1> HIDE DEF t
<1>2. PICK f : UpTo(f, s, T, n) /\ Filter(s, T) = f[n]
  BY FilterBuilds
<1>3. PICK g : UpTo(g, t, T, n + 1) /\ Filter(t, T) = g[n + 1]
  BY <1>1, FilterBuilds
<1> HIDE DEF n
<1>4. /\ n \in Nat /\ n + 1 \in Nat /\ n <= n + 1 /\ n + 1 \in 0..(n + 1)
      /\ n + 1 # 0 /\ (n + 1) - 1 = n
  BY <1>1
<1>5. f[n] = g[n]
  BY <1>1, <1>2, <1>3, <1>4, UpToAgree
<1>6. g[n + 1] = IF t[n + 1] \in T THEN Append(g[n], t[n + 1]) ELSE g[n]
  BY <1>3, <1>4 DEF UpTo
<1> QED
  BY <1>1, <1>2, <1>3, <1>5, <1>6 DEF t

\* What a sequence holds.
In(s) == {s[i] : i \in DOMAIN s}

\* It holds what is put at its end, ...
LEMMA InAppend ==
  ASSUME NEW S, NEW s \in Seq(S), NEW a \in S
  PROVE  In(Append(s, a)) = In(s) \cup {a}
<1> DEFINE t == Append(s, a)
           n == Len(s)
<1>1. /\ t \in Seq(S) /\ Len(t) = n + 1 /\ n \in Nat /\ t[n + 1] = a
      /\ \A i \in 1..n : t[i] = s[i]
  BY AppendProperties, LenProperties
<1>2. DOMAIN s = 1..n /\ DOMAIN t = 1..(n + 1)
  BY <1>1, LenProperties
<1> HIDE DEF t, n
<1>3. 1..(n + 1) = 1..n \cup {n + 1}
  BY <1>1
<1>4. In(t) = In(s) \cup {a}
  BY <1>1, <1>2, <1>3 DEF In
<1> QED
  BY <1>4 DEF t

\* ... nothing when it is empty, ...
LEMMA InEmpty ==
  ASSUME NEW S, NEW s \in Seq(S)
  PROVE  In(s) \subseteq S /\ (In(s) = {} <=> s = <<>>)
<1>1. DOMAIN s = 1..Len(s) /\ Len(s) \in Nat /\ \A i \in 1..Len(s) : s[i] \in S
  BY LenProperties, ElementOfSeq
<1>2. s = <<>> => In(s) = {}
  BY DEF In
<1>3. s # <<>> => 1 \in 1..Len(s)
  BY <1>1, EmptySeq
<1> QED
  BY <1>1, <1>2, <1>3 DEF In

\* ... and, of two that are joined, what both hold.
LEMMA InConcat ==
  ASSUME NEW S, NEW s \in Seq(S), NEW t \in Seq(S)
  PROVE  In(s \o t) = In(s) \cup In(t)
<1>1. In(s) = Range(s) /\ In(t) = Range(t) /\ In(s \o t) = Range(s \o t)
  BY DEF In, Range
<1> QED
  BY <1>1, RangeConcatenation

\* Filter of a sequence: what it is and what it holds.
LEMMA FilterIn ==
  ASSUME NEW S, NEW T
  PROVE  \A s \in Seq(S) : Filter(s, T) \in Seq(S) /\ In(Filter(s, T)) = In(s) \cap T
<1> DEFINE Good(s) == Filter(s, T) \in Seq(S) /\ In(Filter(s, T)) = In(s) \cap T
           X == {s \in Seq(S) : Good(s)}
<1>1. <<>> \in X
  <2>1. <<>> \in Seq(S) /\ In(<<>>) = {}
    BY EmptySeq, InEmpty
  <2> QED
    BY <2>1, FilterEmpty
<1>2. ASSUME NEW s \in Seq(S), NEW a \in S, Good(s) PROVE Good(Append(s, a))
  <2> DEFINE f == Filter(s, T)
  <2>1. Filter(Append(s, a), T) = IF a \in T THEN Append(f, a) ELSE f
    BY FilterAppend
  <2>2. f \in Seq(S) /\ In(f) = In(s) \cap T
    BY <1>2
  <2> HIDE DEF f
  <2>3. /\ In(Append(s, a)) = In(s) \cup {a} /\ In(Append(f, a)) = In(f) \cup {a}
        /\ Append(f, a) \in Seq(S)
    BY <2>2, InAppend, AppendProperties
  <2>4. CASE a \in T
    BY <2>1, <2>2, <2>3, <2>4
  <2>5. CASE a \notin T
    BY <2>1, <2>2, <2>3, <2>5
  <2> QED
    BY <2>4, <2>5
<1> HIDE DEF Good
<1>3. \A s \in Seq(S), a \in S : s \in X => Append(s, a) \in X
  BY <1>2, AppendProperties
<1> HIDE DEF X
<1>4. Seq(S) \subseteq X
  BY <1>1, <1>3, AllSequences
<1> QED
  BY <1>4 DEF X, Good

\* A filter of two sequences that are joined.
LEMMA FilterConcat ==
  ASSUME NEW S, NEW T, NEW s \in Seq(S)
  PROVE  \A t \in Seq(S) : Filter(s \o t, T) = Filter(s, T) \o Filter(t, T)
<1> DEFINE Good(t) == Filter(s \o t, T) = Filter(s, T) \o Filter(t, T)
           X == {t \in Seq(S) : Good(t)}
<1>0. Filter(s, T) \in Seq(S)
  BY FilterIn
<1>1. <<>> \in X
  <2>1. s \o <<>> = s /\ Filter(s, T) \o <<>> = Filter(s, T)
    BY <1>0, ConcatEmptySeq
  <2> QED
    BY <2>1, FilterEmpty, EmptySeq
<1>2. ASSUME NEW t \in Seq(S), NEW a \in S, Good(t) PROVE Good(Append(t, a))
  <2> DEFINE f == Filter(s, T)
             g == Filter(t, T)
  <2>1. g \in Seq(S) /\ f \in Seq(S) /\ <<a>> \in Seq(S) /\ s \o t \in Seq(S)
    BY FilterIn, ConcatProperties
  <2>2. s \o Append(t, a) = Append(s \o t, a)
    <3>1. s \o (t \o <<a>>) = (s \o t) \o <<a>>
      BY <2>1, ConcatAssociative
    <3>2. Append(t, a) = t \o <<a>>
      BY AppendIsConcat
    <3> HIDE DEF f, g
    <3> DEFINE u == s \o t
    <3>3. u \in Seq(S)
      BY <2>1
    <3> HIDE DEF u
    <3>4. Append(u, a) = u \o <<a>>
      BY <3>3, AppendIsConcat
    <3> QED
      BY <3>1, <3>2, <3>4 DEF u
  <2>3. Filter(s \o Append(t, a), T) = IF a \in T THEN Append(f \o g, a) ELSE f \o g
    <3> DEFINE u == s \o t
    <3>1. u \in Seq(S) /\ Filter(u, T) = f \o g
      BY <1>2, <2>1
    <3> HIDE DEF f, g, u
    <3>2. Filter(Append(u, a), T) = IF a \in T THEN Append(Filter(u, T), a) ELSE Filter(u, T)
      BY <3>1, FilterAppend
    <3> QED
      BY <2>2, <3>1, <3>2 DEF u
  <2>4. Filter(Append(t, a), T) = IF a \in T THEN Append(g, a) ELSE g
    BY FilterAppend
  <2> HIDE DEF f, g
  <2>5. f \o Append(g, a) = Append(f \o g, a)
    <3>1. f \o (g \o <<a>>) = (f \o g) \o <<a>> /\ f \o g \in Seq(S)
      BY <2>1, ConcatAssociative, ConcatProperties
    <3> QED
      BY <2>1, <3>1, AppendIsConcat
  <2>6. Filter(s \o Append(t, a), T) = f \o Filter(Append(t, a), T)
    BY <2>3, <2>4, <2>5
  <2> QED
    BY <2>6 DEF f
<1> HIDE DEF Good
<1>3. \A t \in Seq(S), a \in S : t \in X => Append(t, a) \in X
  BY <1>2, AppendProperties
<1> HIDE DEF X
<1>4. Seq(S) \subseteq X
  BY <1>1, <1>3, AllSequences
<1> QED
  BY <1>4 DEF X, Good

\* To filter twice is to filter for both.
LEMMA FilterFilter ==
  ASSUME NEW S, NEW T, NEW U
  PROVE  \A s \in Seq(S) : Filter(Filter(s, T), U) = Filter(s, T \cap U)
<1> DEFINE Good(s) == Filter(Filter(s, T), U) = Filter(s, T \cap U)
           X == {s \in Seq(S) : Good(s)}
<1>1. <<>> \in X
  BY FilterEmpty, EmptySeq
<1>2. ASSUME NEW s \in Seq(S), NEW a \in S, Good(s) PROVE Good(Append(s, a))
  <2> DEFINE f == Filter(s, T)
             g == Filter(s, T \cap U)
  <2>1. Filter(Append(s, a), T) = IF a \in T THEN Append(f, a) ELSE f
    BY FilterAppend
  <2>2. Filter(Append(s, a), T \cap U) = IF a \in T \cap U THEN Append(g, a) ELSE g
    BY FilterAppend
  <2>3. f \in Seq(S) /\ Filter(f, U) = g
    BY <1>2, FilterIn
  <2> HIDE DEF f, g
  <2>4. Filter(Append(f, a), U) = IF a \in U THEN Append(g, a) ELSE g
    BY <2>3, FilterAppend
  <2> QED
    BY <2>1, <2>2, <2>3, <2>4
<1> HIDE DEF Good
<1>3. \A s \in Seq(S), a \in S : s \in X => Append(s, a) \in X
  BY <1>2, AppendProperties
<1> HIDE DEF X
<1>4. Seq(S) \subseteq X
  BY <1>1, <1>3, AllSequences
<1> QED
  BY <1>4 DEF X, Good

\* A filter that everything passes ...
LEMMA FilterAll ==
  ASSUME NEW S, NEW T
  PROVE  \A s \in Seq(S) : In(s) \subseteq T => Filter(s, T) = s
<1> DEFINE Good(s) == In(s) \subseteq T => Filter(s, T) = s
           X == {s \in Seq(S) : Good(s)}
<1>1. <<>> \in X
  BY FilterEmpty, EmptySeq
<1>2. ASSUME NEW s \in Seq(S), NEW a \in S, Good(s) PROVE Good(Append(s, a))
  <2>1. In(Append(s, a)) = In(s) \cup {a}
    BY InAppend
  <2>2. Filter(Append(s, a), T) = IF a \in T THEN Append(Filter(s, T), a) ELSE Filter(s, T)
    BY FilterAppend
  <2> QED
    BY <1>2, <2>1, <2>2
<1> HIDE DEF Good
<1>3. \A s \in Seq(S), a \in S : s \in X => Append(s, a) \in X
  BY <1>2, AppendProperties
<1> HIDE DEF X
<1>4. Seq(S) \subseteq X
  BY <1>1, <1>3, AllSequences
<1> QED
  BY <1>4 DEF X, Good

\* ... and one that nothing passes.
LEMMA FilterNone ==
  ASSUME NEW S, NEW T, NEW s \in Seq(S), In(s) \cap T = {}
  PROVE  Filter(s, T) = <<>>
BY FilterIn, InEmpty

\* The default mark and the order are all that DefaultsFirst looks at: it holds
\* the same rows, and the marked and the others keep their order.
LEMMA DefaultsFirstIs ==
  ASSUME NEW s \in Seq(Rows)
  PROVE  /\ DefaultsFirst(s) \in Seq(Rows)
         /\ In(DefaultsFirst(s)) = In(s)
         /\ Filter(DefaultsFirst(s), Marked) = Filter(s, Marked)
         /\ Filter(DefaultsFirst(s), Unmarked) = Filter(s, Unmarked)
<1> DEFINE m == Filter(s, Marked)
           u == Filter(s, Unmarked)
<1>1. /\ m \in Seq(Rows) /\ u \in Seq(Rows)
      /\ In(m) = In(s) \cap Marked /\ In(u) = In(s) \cap Unmarked
  BY FilterIn
<1>2. /\ Filter(m, Marked) = Filter(s, Marked \cap Marked)
      /\ Filter(u, Unmarked) = Filter(s, Unmarked \cap Unmarked)
  BY FilterFilter
<1>3. In(s) \subseteq Rows /\ Marked \cap Marked = Marked /\ Unmarked \cap Unmarked = Unmarked
      /\ Marked \cap Unmarked = {} /\ Rows = Marked \cup Unmarked
  BY InEmpty DEF Marked, Unmarked
<1>4. DefaultsFirst(s) = m \o u
  BY DEF DefaultsFirst
<1>5. Filter(m, Marked) = m /\ Filter(u, Unmarked) = u
  BY <1>2, <1>3
<1> HIDE DEF m, u
<1>6. Filter(u, Marked) = <<>> /\ Filter(m, Unmarked) = <<>>
  BY <1>1, <1>3, FilterNone
<1>7. /\ Filter(m \o u, Marked) = m \o <<>>
      /\ Filter(m \o u, Unmarked) = <<>> \o u
  <2>1. Filter(m \o u, Marked) = Filter(m, Marked) \o Filter(u, Marked)
    BY <1>1, FilterConcat
  <2>2. Filter(m \o u, Unmarked) = Filter(m, Unmarked) \o Filter(u, Unmarked)
    BY <1>1, FilterConcat
  <2>3. Filter(m \o u, Marked) = m \o <<>>
    BY <1>5, <1>6, <2>1
  <2>4. Filter(m \o u, Unmarked) = <<>> \o u
    BY <1>5, <1>6, <2>2
  <2> QED
    BY <2>3, <2>4
<1>8. m \o <<>> = m /\ <<>> \o u = u
  BY <1>1, ConcatEmptySeq
<1>9. m \o u \in Seq(Rows)
  BY <1>1, ConcatProperties
<1>10. In(m \o u) = In(s)
  <2>1. In(m \o u) = In(m) \cup In(u)
    BY <1>1, InConcat
  <2> QED
    BY <1>1, <1>3, <2>1
<1> QED
  BY <1>4, <1>7, <1>8, <1>9, <1>10 DEF m, u

\* It is empty when there is nothing to list.
LEMMA DefaultsFirstEmpty ==
  ASSUME NEW s \in Seq(Rows)
  PROVE  DefaultsFirst(s) = <<>> <=> s = <<>>
BY DefaultsFirstIs, InEmpty

\* The rows of the other ids, of a list in its order.
LEMMA WithoutIs ==
  ASSUME NEW s \in Seq(Rows), NEW id
  PROVE  /\ Without(s, id) \in Seq(Rows)
         /\ In(Without(s, id)) = {a \in In(s) : a.id # id}
         /\ Without(DefaultsFirst(s), id) = DefaultsFirst(Without(s, id))
<1> DEFINE W == {a \in Rows : a.id # id}
           m == Filter(s, Marked)
           u == Filter(s, Unmarked)
<1>1. /\ Filter(s, W) \in Seq(Rows) /\ In(Filter(s, W)) = In(s) \cap W
      /\ m \in Seq(Rows) /\ u \in Seq(Rows)
  BY FilterIn
<1>2. In(s) \subseteq Rows
  BY InEmpty
<1>3. /\ Filter(m, W) = Filter(s, Marked \cap W) /\ Filter(u, W) = Filter(s, Unmarked \cap W)
      /\ Filter(Filter(s, W), Marked) = Filter(s, W \cap Marked)
      /\ Filter(Filter(s, W), Unmarked) = Filter(s, W \cap Unmarked)
  BY FilterFilter
<1> HIDE DEF m, u, W
<1>4. Filter(m \o u, W) = Filter(m, W) \o Filter(u, W)
  BY <1>1, FilterConcat
<1>5. Marked \cap W = W \cap Marked /\ Unmarked \cap W = W \cap Unmarked
  OBVIOUS
<1>6. Filter(m \o u, W) = Filter(Filter(s, W), Marked) \o Filter(Filter(s, W), Unmarked)
  BY <1>3, <1>4, <1>5
<1>7. Without(DefaultsFirst(s), id) = DefaultsFirst(Without(s, id))
  BY <1>6 DEF Without, DefaultsFirst, m, u, W
<1> QED
  BY <1>1, <1>2, <1>7 DEF Without, W

\* A row put before a list that is in order comes to the same place as one put
\* before the book.
LEMMA InFront ==
  ASSUME NEW s \in Seq(Rows), NEW row \in Rows
  PROVE  /\ <<row>> \o s \in Seq(Rows)
         /\ In(<<row>> \o s) = {row} \cup In(s)
         /\ DefaultsFirst(<<row>> \o DefaultsFirst(s)) = DefaultsFirst(<<row>> \o s)
<1> DEFINE d == DefaultsFirst(s)
           r == <<row>>
<1>1. r \in Seq(Rows) /\ In(r) = {row}
  BY DEF In
<1>2. /\ d \in Seq(Rows)
      /\ Filter(d, Marked) = Filter(s, Marked) /\ Filter(d, Unmarked) = Filter(s, Unmarked)
  BY DefaultsFirstIs
<1> HIDE DEF d, r
<1>3. /\ Filter(r \o d, Marked) = Filter(r, Marked) \o Filter(d, Marked)
      /\ Filter(r \o s, Marked) = Filter(r, Marked) \o Filter(s, Marked)
      /\ Filter(r \o d, Unmarked) = Filter(r, Unmarked) \o Filter(d, Unmarked)
      /\ Filter(r \o s, Unmarked) = Filter(r, Unmarked) \o Filter(s, Unmarked)
  BY <1>1, <1>2, FilterConcat
<1>4. DefaultsFirst(r \o d) = DefaultsFirst(r \o s)
  BY <1>2, <1>3 DEF DefaultsFirst
<1>5. r \o s \in Seq(Rows) /\ In(r \o s) = In(r) \cup In(s)
  BY <1>1, ConcatProperties, InConcat
<1> QED
  BY <1>1, <1>4, <1>5 DEF r, d

\* The ids of the rows it holds.
LEMMA IdsInIs == \A s : IdsIn(s) = {a.id : a \in In(s)}
BY DEF IdsIn, In

\* The address that is chosen is one of the list.
LEMMA PreferredListed ==
  ASSUME NEW s \in Seq(Rows)
  PROVE  Preferred(s) \in IdsIn(s) \cup {Nobody}
<1>1. CASE s = <<>>
  BY <1>1 DEF Preferred
<1>2. CASE s # <<>>
  <2> DEFINE d == DefaultsFirst(s)
  <2>1. d \in Seq(Rows) /\ In(d) = In(s) /\ d # <<>>
    BY <1>2, DefaultsFirstIs, DefaultsFirstEmpty
  <2> HIDE DEF d
  <2>2. DOMAIN d = 1..Len(d) /\ 1 \in 1..Len(d)
    BY <2>1, EmptySeq, LenProperties
  <2>3. d[1] \in In(d)
    BY <2>2 DEF In
  <2>4. d[1].id \in IdsIn(s)
    BY <2>1, <2>3, IdsInIs
  <2> QED
    BY <1>2, <2>4 DEF Preferred, d
<1> QED
  BY <1>1, <1>2

\* A new row comes first, and only a new default changes the others.
LEMMA CreatedIs ==
  ASSUME book \in Seq(Rows), NEW row \in Rows
  PROVE  /\ Created(row) \in Seq(Rows)
         /\ IdsIn(Created(row)) \subseteq IdsIn(book) \cup {row.id}
         /\ (row.default => book = <<>>) => Created(row) = <<row>> \o book
<1> DEFINE m == Filter(book, Marked)
           u == Filter(book, Unmarked)
           c == [i \in DOMAIN m |-> [m[i] EXCEPT !.default = FALSE]]
<1>1. /\ m \in Seq(Rows) /\ u \in Seq(Rows)
      /\ In(m) = In(book) \cap Marked /\ In(u) = In(book) \cap Unmarked
  BY FilterIn
<1>2. book = <<>> => m = <<>> /\ u = <<>>
  BY FilterEmpty
<1>3. ~row.default => Created(row) = <<row>> \o book
  <2>1. ASSUME ~row.default
        PROVE  Created(row) =
                 <<row>> \o [i \in DOMAIN <<>> |-> [<<>>[i] EXCEPT !.default = FALSE]] \o book
    BY <2>1 DEF Created
  <2>2. [i \in DOMAIN <<>> |-> [<<>>[i] EXCEPT !.default = FALSE]] = <<>>
    OBVIOUS
  <2>3. <<row>> \in Seq(Rows) /\ <<row>> \o <<>> = <<row>>
    BY ConcatEmptySeq
  <2> QED
    BY <2>1, <2>2, <2>3
<1>4. row.default => Created(row) = <<row>> \o c \o u
  BY DEF Created
<1> HIDE DEF m, u
<1>5. /\ c \in Seq(Rows) /\ DOMAIN c = DOMAIN m
      /\ \A i \in DOMAIN m : /\ c[i] = [m[i] EXCEPT !.default = FALSE]
                            /\ m[i] \in Rows /\ c[i].id = m[i].id
  <2>1. DOMAIN m = 1..Len(m) /\ Len(m) \in Nat /\ \A i \in 1..Len(m) : m[i] \in Rows
    BY <1>1, LenProperties, ElementOfSeq
  <2>2. DOMAIN c = DOMAIN m
    OBVIOUS
  <2>3. ASSUME NEW i \in DOMAIN m
        PROVE  /\ c[i] = [m[i] EXCEPT !.default = FALSE]
               /\ m[i] \in Rows /\ c[i].id = m[i].id /\ c[i] \in Rows
    <3>1. m[i] \in Rows
      BY <2>1, <2>3
    <3>2. c[i] = [m[i] EXCEPT !.default = FALSE]
      BY <2>3
    <3> QED
      BY <3>1, <3>2 DEF Rows
  <2>4. c \in Seq(Rows)
    <3>1. c \in [1..Len(m) -> Rows]
      BY <2>1, <2>2, <2>3
    <3> QED
      BY <2>1, <3>1
  <2> QED
    BY <2>2, <2>3, <2>4
<1>6. m = <<>> => c = <<>>
  BY <1>5
<1> HIDE DEF c
<1>7. /\ <<row>> \in Seq(Rows) /\ <<row>> \o c \in Seq(Rows) /\ (<<row>> \o c) \o u \in Seq(Rows)
      /\ <<row>> \o book \in Seq(Rows)
  BY <1>1, <1>5, ConcatProperties
<1>8. book = <<>> /\ row.default => Created(row) = <<row>> \o book
  BY <1>2, <1>4, <1>6, <1>7, ConcatEmptySeq
<1>9. IdsIn(<<row>> \o book) = IdsIn(book) \cup {row.id}
  BY InFront, IdsInIs
<1>10. IdsIn(c) = IdsIn(m)
  BY <1>5 DEF IdsIn
<1>11. IdsIn((<<row>> \o c) \o u) \subseteq IdsIn(book) \cup {row.id}
  <2>1. In((<<row>> \o c) \o u) = {row} \cup In(c) \cup In(u)
    <3>1. In(<<row>> \o c) = {row} \cup In(c)
      BY <1>5, InFront
    <3> DEFINE v == <<row>> \o c
    <3>2. v \in Seq(Rows)
      BY <1>7
    <3> HIDE DEF v
    <3>3. In(v \o u) = In(v) \cup In(u)
      BY <1>1, <3>2, InConcat
    <3> QED
      BY <3>1, <3>3 DEF v
  <2>2. IdsIn((<<row>> \o c) \o u) = {row.id} \cup IdsIn(c) \cup IdsIn(u)
    BY <2>1, IdsInIs
  <2>3. IdsIn(m) \subseteq IdsIn(book) /\ IdsIn(u) \subseteq IdsIn(book)
    BY <1>1, IdsInIs
  <2> QED
    BY <1>10, <2>2, <2>3
<1>12. row.default \in BOOLEAN
  BY DEF Rows
<1>13. CASE ~row.default
  BY <1>3, <1>7, <1>9, <1>13
<1>14. CASE row.default
  BY <1>4, <1>7, <1>8, <1>11, <1>14
<1> QED
  BY <1>13, <1>14

-----------------------------------------------------------------------------
(* The panel and the book.                                                 *)

Tokens == {"none", "valid", "expired"}
Call ==
  {NoCall}
    \cup [phase : {"sent", "failed"}, auth : Tokens, op : {"load"}]
    \cup [phase : {"served", "failed"}, op : {"load"}, list : Seq(Rows)]
    \cup [phase : {"sent", "served", "failed"}, auth : Tokens, op : {"create"}, row : Rows]
    \cup [phase : {"sent", "served", "failed"}, auth : Tokens, op : {"delete"}, id : Ids,
          list : Seq(Rows)]

\* Ids in the book, and those on the way to it, were given out; a logout ends
\* the loads.
PanelType ==
  /\ book \in Seq(Rows) /\ list \in Seq(Rows)
  /\ used \subseteq Ids /\ IdsIn(book) \subseteq used
  /\ selected \in Ids \cup {Nobody} /\ token \in Tokens
  /\ calls \in [Clicks -> Call]
  /\ \A k \in UnderWay : calls[k].op = "create" => calls[k].row.id \in used
  /\ token = "none" => \A k \in UnderWay : calls[k].op # "load"

\* The only call under way fits: when it is answered, the list will be the book.
Fits(c) ==
  \/ c.op = "load" /\ c.phase = "sent"
  \/ c.op = "load" /\ c.phase = "served" /\ c.list = DefaultsFirst(book)
  \/ /\ c.op = "create" /\ c.phase = "sent"
     /\ list = DefaultsFirst(book) /\ c.row.default = (list = <<>>) /\ c.row.id \notin IdsIn(book)
  \/ /\ c.op = "create" /\ c.phase = "served"
     /\ DefaultsFirst(<<c.row>> \o Without(list, c.row.id)) = DefaultsFirst(book)
     /\ c.row.id \in IdsIn(book)
  \/ c.op = "delete" /\ c.phase = "sent" /\ c.list = DefaultsFirst(book)
  \/ c.op = "delete" /\ c.phase = "served" /\ Without(c.list, c.id) = DefaultsFirst(book)

Settled == UnderWay = {} /\ list = DefaultsFirst(book) /\ selected \in IdsIn(book) \cup {Nobody}
Fitting == \E k \in Clicks : UnderWay = {k} /\ Fits(calls[k])

PanelInv ==
  /\ PanelType
  /\ token # "none" /\ ~mixed => Settled \/ Fitting

\* What a call carries.
LEMMA CallCarries ==
  ASSUME NEW c \in Call, c.phase # "free"
  PROVE  /\ c.op = "load" /\ c.phase = "served" => c.list \in Seq(Rows)
         /\ c.op = "create" => c.row \in Rows
         /\ c.op = "delete" => c.list \in Seq(Rows) /\ c.id \in Ids
<1>1. c # NoCall
  BY DEF NoCall
<1> QED
  BY <1>1 DEF Call

\* It stays a call, with what it carries, when it is served or fails.
LEMMA CallMoves ==
  ASSUME NEW c \in Call, c.phase # "free", NEW p \in {"served", "failed"},
         c.op = "load" => p = "failed"
  PROVE  /\ [c EXCEPT !.phase = p] \in Call /\ [c EXCEPT !.phase = p].phase = p
         /\ [c EXCEPT !.phase = p].op = c.op
         /\ c.op = "create" => [c EXCEPT !.phase = p].row = c.row
         /\ c.op = "delete" => /\ [c EXCEPT !.phase = p].list = c.list
                               /\ [c EXCEPT !.phase = p].id = c.id
<1> DEFINE d == [c EXCEPT !.phase = p]
<1>1. c # NoCall
  BY DEF NoCall
<1>2. CASE c \in [phase : {"sent", "failed"}, auth : Tokens, op : {"load"}]
  BY <1>2 DEF Call
<1>3. CASE c \in [phase : {"served", "failed"}, op : {"load"}, list : Seq(Rows)]
  BY <1>3 DEF Call
<1>4. CASE c \in [phase : {"sent", "served", "failed"}, auth : Tokens, op : {"create"}, row : Rows]
  BY <1>4 DEF Call
<1>5. CASE c \in [phase : {"sent", "served", "failed"}, auth : Tokens, op : {"delete"}, id : Ids,
                  list : Seq(Rows)]
  BY <1>5 DEF Call
<1> QED
  BY <1>1, <1>2, <1>3, <1>4, <1>5 DEF Call

\* One call changes: the others stay what they are.
LEMMA OneChanges ==
  ASSUME PanelType, NEW k \in Clicks, NEW c \in Call, Move(k, c)
  PROVE  /\ calls' \in [Clicks -> Call] /\ calls'[k] = c
         /\ \A j \in Clicks \ {k} : calls'[j] = calls[j]
         /\ UnderWay' = (UnderWay \ {k}) \cup (IF c.phase # "free" THEN {k} ELSE {})
<1>1. calls \in [Clicks -> Call] /\ calls' = [calls EXCEPT ![k] = c]
  BY DEF PanelType, Move
<1>2. /\ calls' \in [Clicks -> Call] /\ calls'[k] = c
      /\ \A j \in Clicks \ {k} : calls'[j] = calls[j]
  BY <1>1
<1>3. UnderWay' = {j \in Clicks : calls'[j].phase # "free"}
  BY DEF UnderWay
<1>4. UnderWay' = (UnderWay \ {k}) \cup (IF c.phase # "free" THEN {k} ELSE {})
  BY <1>2, <1>3 DEF UnderWay
<1> QED
  BY <1>2, <1>4

\* What PanelType says of the calls, when one of them changes.
LEMMA CallsTyped ==
  ASSUME PanelType, NEW k \in Clicks, NEW c \in Call, Move(k, c), used \subseteq used',
         c.phase # "free" /\ c.op = "create" => c.row.id \in used',
         c.phase # "free" /\ c.op = "load" => token' # "none",
         token' = "none" => token = "none"
  PROVE  /\ calls' \in [Clicks -> Call]
         /\ \A j \in UnderWay' : calls'[j].op = "create" => calls'[j].row.id \in used'
         /\ token' = "none" => \A j \in UnderWay' : calls'[j].op # "load"
<1>1. /\ calls' \in [Clicks -> Call] /\ calls'[k] = c
      /\ \A j \in Clicks \ {k} : calls'[j] = calls[j]
      /\ UnderWay' = (UnderWay \ {k}) \cup (IF c.phase # "free" THEN {k} ELSE {})
      /\ UnderWay \subseteq Clicks
  BY OneChanges DEF UnderWay
<1>2. ASSUME NEW j \in UnderWay'
      PROVE  /\ calls'[j].op = "create" => calls'[j].row.id \in used'
             /\ token' = "none" => calls'[j].op # "load"
  <2>1. CASE j = k
    <3>1. c.phase # "free"
      BY <1>1, <1>2, <2>1
    <3> QED
      BY <1>1, <2>1, <3>1
  <2>2. CASE j # k
    <3>1. j \in UnderWay /\ calls'[j] = calls[j]
      BY <1>1, <1>2, <2>2
    <3> QED
      BY <3>1 DEF PanelType
  <2> QED
    BY <2>1, <2>2
<1> QED
  BY <1>1, <1>2

\* A click sends a call: it is the only one, or the list may be mixed up.
LEMMA ClickKeeps ==
  ASSUME PanelInv, NEW k \in Clicks, NEW c \in Call, Send(k, c), c.phase = "sent",
         used \subseteq used', used' \subseteq Ids, UNCHANGED <<book, list, selected>>,
         token' \in Tokens \ {"none"}, c.op = "create" => c.row.id \in used',
         Settled \/ token = "none" => Fits(c)
  PROVE  PanelInv'
<1>1. PanelType /\ Move(k, c) /\ calls[k] = NoCall
  BY DEF PanelInv, Send, Move
<1>2. PanelType'
  BY <1>1, CallsTyped DEF PanelType
<1>3. calls'[k] = c /\ UnderWay' = (UnderWay \ {k}) \cup {k} /\ k \notin UnderWay
  BY <1>1, OneChanges DEF UnderWay, NoCall
<1>4. ASSUME ~mixed' PROVE Fitting'
  <2>1. ~mixed /\ UnderWay = {}
    BY <1>4 DEF Send
  <2>2. Settled \/ token = "none"
    BY <2>1 DEF PanelInv, Fitting
  <2>3. Fits(c)
    BY <2>2
  <2>4. Fits(c)'
    BY <2>3 DEF Fits
  <2>5. UnderWay' = {k} /\ Fits(calls[k])'
    BY <1>3, <2>1, <2>4 DEF Fits
  <2> QED
    BY <2>5 DEF Fitting
<1> QED
  BY <1>2, <1>4 DEF PanelInv

\* The call k is the only one, and it fits, when nothing is mixed up.
LEMMA OnlyCall ==
  ASSUME PanelInv, NEW k \in UnderWay, token # "none", ~mixed
  PROVE  UnderWay = {k} /\ Fits(calls[k])
<1>1. PICK j \in Clicks : UnderWay = {j} /\ Fits(calls[j])
  BY DEF PanelInv, Settled, Fitting
<1> QED
  BY <1>1

\* To leave out an id that is not there changes nothing.
LEMMA WithoutAbsent ==
  ASSUME NEW s \in Seq(Rows), NEW id, id \notin IdsIn(s)
  PROVE  Without(s, id) = s
<1> DEFINE W == {a \in Rows : a.id # id}
<1>1. In(s) \subseteq W
  BY InEmpty, IdsInIs
<1> HIDE DEF W
<1>2. Filter(s, W) = s
  BY <1>1, FilterAll
<1> QED
  BY <1>2 DEF Without, W

\* The load call reads the book.
LEMMA LoadServed ==
  ASSUME PanelInv, NEW k \in Clicks, GetMyShippingAddresses(k)
  PROVE  PanelInv'
<1> DEFINE d == DefaultsFirst(book)
           c == [phase |-> "served", op |-> "load", list |-> d]
<1>1. PanelType /\ calls[k].phase = "sent" /\ calls[k].op = "load" /\ k \in UnderWay
  BY DEF PanelInv, GetMyShippingAddresses, Sent, UnderWay
<1>2. d \in Seq(Rows)
  BY <1>1, DefaultsFirstIs DEF PanelType
<1>3. c \in Call /\ c.phase = "served" /\ c.op = "load" /\ c.list = d
  BY <1>2 DEF Call
<1>4. /\ Move(k, c) /\ UNCHANGED <<book, used, token, list, selected>>
      /\ mixed' = (UnderWay # {k})
  BY DEF GetMyShippingAddresses, bookVars, AsShown
<1>5. token # "none"
  BY <1>1 DEF PanelType
<1> HIDE DEF c
<1>6. PanelType'
  BY <1>1, <1>3, <1>4, <1>5, CallsTyped DEF PanelType
<1>7. calls'[k] = c /\ UnderWay' = (UnderWay \ {k}) \cup {k}
  BY <1>1, <1>3, <1>4, OneChanges
<1>8. ~mixed' => Fitting'
  <2>1. Fits(calls[k])'
    BY <1>3, <1>4, <1>7 DEF Fits
  <2> QED
    BY <1>4, <1>7, <2>1 DEF Fitting
<1> QED
  BY <1>6, <1>8 DEF PanelInv

\* The new row comes first in the book.
LEMMA CreateServed ==
  ASSUME PanelInv, NEW k \in Clicks, CreateMyShippingAddress(k)
  PROVE  PanelInv'
<1> DEFINE row == calls[k].row
           c == [calls[k] EXCEPT !.phase = "served"]
<1>1. /\ PanelType /\ calls[k].phase = "sent" /\ calls[k].op = "create" /\ k \in UnderWay
      /\ calls[k] \in Call
  BY DEF PanelInv, PanelType, CreateMyShippingAddress, Sent, UnderWay
<1>2. row \in Rows /\ row.id \in used
  BY <1>1, CallCarries DEF PanelType
<1>3. c \in Call /\ c.phase = "served" /\ c.op = "create" /\ c.row = row
  BY <1>1, CallMoves
<1>4. Move(k, c) /\ book' = Created(row) /\ UNCHANGED <<used, token, list, selected, mixed>>
  BY DEF CreateMyShippingAddress, AsShown
<1> HIDE DEF c, row
<1>5. book' \in Seq(Rows) /\ IdsIn(book') \subseteq used
  <2>1. book \in Seq(Rows) /\ IdsIn(book) \subseteq used
    BY <1>1 DEF PanelType
  <2>2. Created(row) \in Seq(Rows) /\ IdsIn(Created(row)) \subseteq IdsIn(book) \cup {row.id}
    BY <1>2, <2>1, CreatedIs
  <2> QED
    BY <1>2, <1>4, <2>1, <2>2
<1>6. PanelType'
  BY <1>1, <1>2, <1>3, <1>4, <1>5, CallsTyped DEF PanelType
<1>7. calls'[k] = c /\ UnderWay' = (UnderWay \ {k}) \cup {k}
  BY <1>1, <1>3, <1>4, OneChanges
<1>8. ASSUME token # "none", ~mixed PROVE Fitting'
  <2>1. UnderWay = {k} /\ Fits(calls[k])
    BY <1>1, <1>8, OnlyCall
  <2>2. list = DefaultsFirst(book) /\ row.default = (list = <<>>) /\ row.id \notin IdsIn(book)
    BY <1>1, <2>1 DEF Fits, row
  <2>3. book \in Seq(Rows) /\ list \in Seq(Rows)
    BY <1>1 DEF PanelType
  <2>4. row.default => book = <<>>
    BY <2>2, <2>3, DefaultsFirstEmpty
  <2>5. book' = <<row>> \o book
    BY <1>2, <1>4, <2>3, <2>4, CreatedIs
  <2>6. IdsIn(list) = IdsIn(book)
    BY <2>2, <2>3, DefaultsFirstIs, IdsInIs
  <2>7. Without(list, row.id) = list
    BY <2>2, <2>3, <2>6, WithoutAbsent
  <2>8. /\ DefaultsFirst(<<row>> \o list) = DefaultsFirst(<<row>> \o book)
        /\ In(<<row>> \o book) = {row} \cup In(book)
    BY <1>2, <2>2, <2>3, InFront
  <2>9. row.id \in IdsIn(book')
    BY <2>5, <2>8, IdsInIs
  <2>10. DefaultsFirst(<<row>> \o Without(list', row.id)) = DefaultsFirst(book')
    BY <1>4, <2>5, <2>7, <2>8
  <2>11. Fits(calls[k])'
    BY <1>3, <1>7, <2>9, <2>10 DEF Fits
  <2> QED
    BY <1>7, <2>1, <2>11 DEF Fitting
<1> QED
  BY <1>4, <1>6, <1>8 DEF PanelInv

\* The row goes out of the book.
LEMMA DeleteServed ==
  ASSUME PanelInv, NEW k \in Clicks, DeleteMyShippingAddress(k)
  PROVE  PanelInv'
<1> DEFINE id == calls[k].id
           was == calls[k].list
           c == [calls[k] EXCEPT !.phase = "served"]
<1>1. /\ PanelType /\ calls[k].phase = "sent" /\ calls[k].op = "delete" /\ k \in UnderWay
      /\ calls[k] \in Call
  BY DEF PanelInv, PanelType, DeleteMyShippingAddress, Sent, UnderWay
<1>2. c \in Call /\ c.phase = "served" /\ c.op = "delete" /\ c.id = id /\ c.list = was
  BY <1>1, CallMoves
<1>3. Move(k, c) /\ book' = Without(book, id) /\ UNCHANGED <<used, token, list, selected, mixed>>
  BY DEF DeleteMyShippingAddress, AsShown
<1> HIDE DEF c, id, was
<1>4. book \in Seq(Rows) /\ IdsIn(book) \subseteq used
  BY <1>1 DEF PanelType
<1>5. /\ Without(book, id) \in Seq(Rows)
      /\ In(Without(book, id)) = {a \in In(book) : a.id # id}
      /\ Without(DefaultsFirst(book), id) = DefaultsFirst(Without(book, id))
  BY <1>4, WithoutIs
<1>6. book' \in Seq(Rows) /\ IdsIn(book') \subseteq used
  <2>1. IdsIn(Without(book, id)) \subseteq IdsIn(book)
    BY <1>5, IdsInIs
  <2> QED
    BY <1>3, <1>4, <1>5, <2>1
<1>7. PanelType'
  BY <1>1, <1>2, <1>3, <1>6, CallsTyped DEF PanelType
<1>8. calls'[k] = c /\ UnderWay' = (UnderWay \ {k}) \cup {k}
  BY <1>1, <1>2, <1>3, OneChanges
<1>9. ASSUME token # "none", ~mixed PROVE Fitting'
  <2>1. UnderWay = {k} /\ Fits(calls[k])
    BY <1>1, <1>9, OnlyCall
  <2>2. was = DefaultsFirst(book)
    BY <1>1, <2>1 DEF Fits, was
  <2>3. Without(was, id) = DefaultsFirst(book')
    BY <1>3, <1>5, <2>2
  <2>4. Fits(calls[k])'
    BY <1>2, <1>8, <2>3 DEF Fits
  <2> QED
    BY <1>8, <2>1, <2>4 DEF Fitting
<1> QED
  BY <1>3, <1>7, <1>9 DEF PanelInv

\* A call fails: from now on the list may be mixed up.
LEMMA FailingKeeps ==
  ASSUME PanelInv, NEW k \in UnderWay, mixed',
         Move(k, [calls[k] EXCEPT !.phase = "failed"]), UNCHANGED bookVars, AsShown
  PROVE  PanelInv'
<1> DEFINE c == [calls[k] EXCEPT !.phase = "failed"]
<1>1. PanelType /\ k \in Clicks /\ calls[k] \in Call /\ calls[k].phase # "free"
  BY DEF PanelInv, PanelType, UnderWay
<1>2. c \in Call /\ c.phase = "failed" /\ c.op = calls[k].op
      /\ (c.op = "create" => c.row = calls[k].row)
  BY <1>1, CallMoves
<1>3. (c.op = "create" => c.row.id \in used) /\ (c.op = "load" => token # "none")
  BY <1>1, <1>2 DEF PanelType
<1>4. UNCHANGED <<book, used, token, list, selected>>
  BY DEF bookVars, AsShown
<1>5. Move(k, c)
  OBVIOUS
<1> HIDE DEF c
<1>6. PanelType'
  BY <1>1, <1>2, <1>3, <1>4, <1>5, CallsTyped DEF PanelType
<1> QED
  BY <1>6 DEF PanelInv

\* The panel shows a list and selects an address of it: what the last answer
\* leaves is settled.
LEMMA AnswerKeeps ==
  ASSUME PanelInv, NEW k \in UnderWay, Move(k, NoCall), UNCHANGED <<book, used, token, mixed>>,
         list' \in Seq(Rows), selected' \in Ids \cup {Nobody},
         token # "none" /\ Fits(calls[k]) /\ ~mixed =>
           list' = DefaultsFirst(book) /\ selected' \in IdsIn(book) \cup {Nobody}
  PROVE  PanelInv'
<1>1. PanelType /\ k \in Clicks /\ NoCall \in Call /\ NoCall.phase = "free"
  BY DEF PanelInv, UnderWay, Call, NoCall
<1>2. PanelType'
  BY <1>1, CallsTyped DEF PanelType
<1>3. UnderWay' = UnderWay \ {k}
  BY <1>1, OneChanges
<1>4. ASSUME token # "none", ~mixed PROVE Settled'
  <2>1. UnderWay = {k} /\ Fits(calls[k])
    BY <1>4, OnlyCall
  <2> QED
    BY <1>3, <1>4, <2>1 DEF Settled
<1> QED
  BY <1>2, <1>4 DEF PanelInv

\* The answers show what the book has become.
LEMMA AnswersKeep ==
  ASSUME PanelInv, NEW k \in Clicks, Answer(k)
  PROVE  PanelInv'
<1> DEFINE c == calls[k]
<1>1. /\ PanelType /\ c.phase # "free" /\ c \in Call /\ k \in UnderWay
      /\ book \in Seq(Rows) /\ list \in Seq(Rows)
  BY DEF PanelInv, PanelType, Answer, AddressesLoaded, AddressCreated, AddressDeleted, CallFailed,
         Answered, UnderWay
<1>2. \A s \in Seq(Rows) : IdsIn(s) \subseteq Ids
  <2>1. \A s \in Seq(Rows) : In(s) \subseteq Rows
    BY InEmpty
  <2> QED
    BY <2>1, IdsInIs DEF Rows
<1>3. Move(k, NoCall) /\ UNCHANGED <<book, used, token, mixed>>
  BY DEF Answer, AddressesLoaded, AddressCreated, AddressDeleted, CallFailed, Answered, AsShown,
         Show, bookVars
<1>4. CASE AddressesLoaded(k)
  <2>1. c.phase = "served" /\ c.op = "load"
    BY <1>4 DEF AddressesLoaded, Answered
  <2>2. c.list \in Seq(Rows)
    BY <1>1, <2>1, CallCarries
  <2>3. list' = c.list /\ selected' \in IdsIn(c.list) \cup {Nobody}
    <3>1. Preferred(c.list) \in IdsIn(c.list) \cup {Nobody}
      BY <2>2, PreferredListed
    <3> QED
      BY <1>4, <3>1 DEF AddressesLoaded, Show
  <2>4. Fits(c) => c.list = DefaultsFirst(book)
    BY <2>1 DEF Fits
  <2>5. IdsIn(DefaultsFirst(book)) = IdsIn(book)
    BY <1>1, DefaultsFirstIs, IdsInIs
  <2>6. list' \in Seq(Rows) /\ selected' \in Ids \cup {Nobody}
    BY <1>2, <2>2, <2>3
  <2> QED
    BY <1>1, <1>3, <2>3, <2>4, <2>5, <2>6, AnswerKeeps
<1>5. CASE AddressCreated(k)
  <2> DEFINE s == DefaultsFirst(<<c.row>> \o Without(list, c.row.id))
  <2>1. c.phase = "served" /\ c.op = "create"
    BY <1>5 DEF AddressCreated, Answered
  <2>2. c.row \in Rows
    BY <1>1, <2>1, CallCarries
  <2>3. list' = s /\ selected' = c.row.id
    BY <1>5 DEF AddressCreated, Show
  <2>4. s \in Seq(Rows)
    <3>1. Without(list, c.row.id) \in Seq(Rows)
      BY <1>1, WithoutIs
    <3>2. <<c.row>> \o Without(list, c.row.id) \in Seq(Rows)
      BY <2>2, <3>1, InFront
    <3> QED
      BY <3>2, DefaultsFirstIs
  <2>5. Fits(c) => s = DefaultsFirst(book) /\ c.row.id \in IdsIn(book)
    BY <2>1 DEF Fits
  <2>6. c.row.id \in Ids
    BY <2>2 DEF Rows
  <2> QED
    BY <1>1, <1>3, <2>3, <2>4, <2>5, <2>6, AnswerKeeps
<1>6. CASE AddressDeleted(k)
  <2> DEFINE s == Without(c.list, c.id)
  <2>1. c.phase = "served" /\ c.op = "delete"
    BY <1>6 DEF AddressDeleted, Answered
  <2>2. c.list \in Seq(Rows)
    BY <1>1, <2>1, CallCarries
  <2>3. list' = s /\ selected' = Preferred(s)
    BY <1>6 DEF AddressDeleted, Show
  <2>4. s \in Seq(Rows)
    BY <2>2, WithoutIs
  <2>5. Preferred(s) \in IdsIn(s) \cup {Nobody}
    BY <2>4, PreferredListed
  <2>6. Fits(c) => s = DefaultsFirst(book)
    BY <2>1 DEF Fits
  <2>7. IdsIn(DefaultsFirst(book)) = IdsIn(book)
    BY <1>1, DefaultsFirstIs, IdsInIs
  <2>8. selected' \in Ids \cup {Nobody}
    BY <1>2, <2>3, <2>4, <2>5
  <2> QED
    BY <1>1, <1>3, <2>3, <2>4, <2>5, <2>6, <2>7, <2>8, AnswerKeeps
<1>7. CASE CallFailed(k)
  <2>1. c.phase = "failed"
    BY <1>7 DEF CallFailed
  <2>2. ~Fits(c)
    BY <2>1 DEF Fits
  <2>3. list' \in Seq(Rows) /\ selected' \in Ids \cup {Nobody}
    <3>1. <<>> \in Seq(Rows)
      BY EmptySeq
    <3> QED
      BY <1>1, <1>7, <3>1 DEF CallFailed, Show, AsShown, PanelType
  <2> QED
    BY <1>1, <1>3, <2>2, <2>3, AnswerKeeps
<1> QED
  BY <1>4, <1>5, <1>6, <1>7 DEF Answer

\* The clicks that send a call.
LEMMA ClicksKeep ==
  ASSUME PanelInv, NEW k \in Clicks,
         Login(k) \/ HandleCreateAddress(k) \/ HandleDeleteAddress(k)
  PROVE  PanelInv'
<1>1. /\ PanelType /\ book \in Seq(Rows) /\ list \in Seq(Rows) /\ used \subseteq Ids
      /\ IdsIn(book) \subseteq used /\ token \in Tokens
  BY DEF PanelInv, PanelType
<1>2. CASE Login(k)
  <2> DEFINE c == [phase |-> "sent", auth |-> "valid", op |-> "load"]
  <2>1. c \in Call /\ c.phase = "sent" /\ c.op = "load" /\ Fits(c)
    BY DEF Call, Tokens, Fits
  <2>2. Send(k, c) /\ token' \in Tokens \ {"none"} /\ UNCHANGED <<book, used, list, selected>>
    BY <1>2 DEF Login, bookVars, Tokens
  <2> HIDE DEF c
  <2> QED
    BY <1>1, <2>1, <2>2, ClickKeeps
<1>3. CASE HandleCreateAddress(k)
  <2>1. PICK id \in Ids \ used :
           /\ used' = used \cup {id}
           /\ Send(k, [phase |-> "sent", auth |-> token, op |-> "create",
                       row |-> [id |-> id, default |-> list = <<>>]])
    BY <1>3 DEF HandleCreateAddress
  <2> DEFINE row == [id |-> id, default |-> list = <<>>]
             c == [phase |-> "sent", auth |-> token, op |-> "create", row |-> row]
  <2>2. row \in Rows /\ row.id = id /\ row.default = (list = <<>>)
    BY DEF Rows
  <2> HIDE DEF row
  <2>3. c \in Call /\ c.phase = "sent" /\ c.op = "create" /\ c.row = row
    BY <1>1, <2>2 DEF Call
  <2>4. Send(k, c) /\ token' \in Tokens \ {"none"} /\ UNCHANGED <<book, list, selected>>
        /\ token # "none"
    BY <1>1, <1>3, <2>1 DEF HandleCreateAddress, row
  <2> HIDE DEF c
  <2>5. Settled => Fits(c)
    BY <1>1, <2>1, <2>2, <2>3 DEF Settled, Fits
  <2>6. c.op = "create" => c.row.id \in used'
    BY <2>1, <2>2, <2>3
  <2>7. used \subseteq used' /\ used' \subseteq Ids
    BY <1>1, <2>1
  <2> QED
    BY <2>3, <2>4, <2>5, <2>6, <2>7, ClickKeeps
<1>4. CASE HandleDeleteAddress(k)
  <2> DEFINE c == [phase |-> "sent", auth |-> token, op |-> "delete", id |-> selected,
                   list |-> list]
  <2>1. token # "none" /\ selected \in Ids
    BY <1>1, <1>4 DEF HandleDeleteAddress, PanelType
  <2>2. c \in Call /\ c.phase = "sent" /\ c.op = "delete" /\ c.list = list
    BY <1>1, <2>1 DEF Call
  <2>3. Send(k, c) /\ token' \in Tokens \ {"none"} /\ UNCHANGED <<book, used, list, selected>>
    BY <1>1, <1>4, <2>1 DEF HandleDeleteAddress, bookVars
  <2> HIDE DEF c
  <2>4. Settled => Fits(c)
    BY <2>2 DEF Settled, Fits
  <2> QED
    BY <1>1, <2>1, <2>2, <2>3, <2>4, ClickKeeps
<1> QED
  BY <1>2, <1>3, <1>4

\* Nothing that PanelInv is about changes, or only the token expires.
LEMMA PanelKept ==
  ASSUME PanelInv, UNCHANGED <<book, used, list, selected, calls, mixed>>,
         \/ token' = token
         \/ token # "none" /\ token' = "expired"
  PROVE  PanelInv'
<1>1. UNCHANGED UnderWay
  BY DEF UnderWay
<1>2. PanelType'
  BY <1>1 DEF PanelInv, PanelType, Tokens
<1>3. (Settled => Settled') /\ (Fitting => Fitting')
  BY <1>1 DEF Settled, Fitting, Fits
<1> QED
  BY <1>2, <1>3 DEF PanelInv

\* Every step of the shipping panel keeps PanelInv.
LEMMA PanelSteps ==
  ASSUME PanelInv, ShippingNext
  PROVE  PanelInv'
<1>0. /\ PanelType /\ book \in Seq(Rows) /\ list \in Seq(Rows) /\ used \subseteq Ids
      /\ IdsIn(book) \subseteq used
  BY DEF PanelInv, PanelType
<1>1. ASSUME NEW k \in Clicks, Login(k) \/ HandleCreateAddress(k) \/ HandleDeleteAddress(k)
      PROVE  PanelInv'
  BY <1>1, ClicksKeep
<1>2. ASSUME NEW k \in Clicks, Serve(k) PROVE PanelInv'
  <2>1. CASE CallRefused(k)
    BY <2>1, FailingKeeps DEF CallRefused, UnderWay
  <2> QED
    BY <1>2, <2>1, LoadServed, CreateServed, DeleteServed DEF Serve
<1>3. ASSUME NEW k \in Clicks, CallFails(k) PROVE PanelInv'
  BY <1>3, FailingKeeps DEF CallFails, UnderWay
<1>4. ASSUME NEW k \in Clicks, Answer(k) PROVE PanelInv'
  BY <1>4, AnswersKeep
<1>5. ASSUME NEW sel \in IdsIn(list) \cup {Nobody}, SelectAddress(sel) PROVE PanelInv'
  <2>1. UNCHANGED <<book, used, token, list, calls, mixed>> /\ selected' = sel
    BY <1>5 DEF SelectAddress, Show, bookVars
  <2>2. sel \in Ids \cup {Nobody}
    <3>1. In(list) \subseteq Rows
      BY <1>0, InEmpty
    <3> QED
      BY <3>1, IdsInIs DEF Rows
  <2>3. UNCHANGED UnderWay
    BY <2>1 DEF UnderWay
  <2>4. PanelType'
    BY <1>0, <2>1, <2>2, <2>3 DEF PanelType
  <2>5. Settled => Settled'
    <3>1. IdsIn(DefaultsFirst(book)) = IdsIn(book)
      BY <1>0, DefaultsFirstIs, IdsInIs
    <3> QED
      BY <2>1, <2>3, <3>1 DEF Settled
  <2>6. Fitting => Fitting'
    BY <2>1, <2>3 DEF Fitting, Fits
  <2> QED
    BY <2>1, <2>4, <2>5, <2>6 DEF PanelInv
<1>6. CASE HandleLogout
  <2>1. /\ token' = "none" /\ list' = <<>> /\ selected' = Nobody /\ UNCHANGED <<book, used>>
        /\ calls' = [k \in Clicks |-> IF calls[k].phase # "free" /\ calls[k].op = "load"
                                        THEN NoCall ELSE calls[k]]
    BY <1>6 DEF HandleLogout, bookVars
  <2>2. calls' \in [Clicks -> Call]
    BY <1>0, <2>1 DEF PanelType, Call
  <2>3. \A k \in UnderWay' : k \in UnderWay /\ calls'[k] = calls[k] /\ calls[k].op # "load"
    BY <2>1 DEF UnderWay, NoCall
  <2>4. <<>> \in Seq(Rows)
    BY EmptySeq
  <2>5. PanelType'
    BY <1>0, <2>1, <2>2, <2>3, <2>4 DEF PanelType, Tokens
  <2> QED
    BY <2>1, <2>5 DEF PanelInv
<1>7. CASE ChangedElsewhere
  <2>1. UNCHANGED <<token, list, selected, calls>> /\ mixed'
    BY <1>7 DEF ChangedElsewhere, panelVars
  <2>2. /\ book' \in Seq(Rows) /\ used \subseteq used' /\ used' \subseteq Ids
        /\ IdsIn(book') \subseteq used'
    <3>1. ASSUME NEW id \in Ids \ used, NEW mark \in BOOLEAN,
                 book' = Created([id |-> id, default |-> mark]), used' = used \cup {id}
          PROVE  <2>2!:
      <4> DEFINE row == [id |-> id, default |-> mark]
      <4>1. row \in Rows /\ row.id = id
        BY DEF Rows
      <4> HIDE DEF row
      <4>2. Created(row) \in Seq(Rows) /\ IdsIn(Created(row)) \subseteq IdsIn(book) \cup {row.id}
        BY <1>0, <4>1, CreatedIs
      <4> QED
        BY <1>0, <3>1, <4>1, <4>2 DEF row
    <3>2. ASSUME NEW id \in IdsIn(book), book' = Without(book, id), UNCHANGED used
          PROVE  <2>2!:
      <4>1. Without(book, id) \in Seq(Rows) /\ In(Without(book, id)) \subseteq In(book)
        BY <1>0, WithoutIs
      <4>2. IdsIn(Without(book, id)) \subseteq IdsIn(book)
        BY <4>1, IdsInIs
      <4> QED
        BY <1>0, <3>2, <4>1, <4>2
    <3> QED
      BY <1>7, <3>1, <3>2 DEF ChangedElsewhere
  <2>3. UNCHANGED UnderWay
    BY <2>1 DEF UnderWay
  <2>4. PanelType'
    BY <1>0, <2>1, <2>2, <2>3 DEF PanelType
  <2> QED
    BY <2>1, <2>4 DEF PanelInv
<1>8. CASE TokenExpires
  BY <1>8, PanelKept DEF TokenExpires, bookVars
<1>9. CASE QuoteShipping \/ QuoteFails \/ LoadQuote \/ \E n \in Units : CartChanges(n)
  <2>1. UNCHANGED <<book, used, token, list, selected, calls, mixed>>
    BY <1>9 DEF QuoteShipping, QuoteFails, LoadQuote, CartChanges, bookVars
  <2> QED
    BY <2>1, PanelKept
<1> QED
  BY <1>1, <1>2, <1>3, <1>4, <1>5, <1>6, <1>7, <1>8, <1>9 DEF ShippingNext

\* When the behaviour starts, the page shows what is saved.
LEMMA PanelStarts == Init => PanelInv
<1>1. SUFFICES ASSUME Init PROVE PanelInv
  OBVIOUS
<1>2. PICK n \in 0..Len(Saved), d \in BOOLEAN :
        LET s == [i \in 1..n |-> [id |-> Saved[i], default |-> d /\ i = 1]] IN
          book = s /\ list = s /\ used = IdsIn(s) /\ selected = Preferred(s)
  BY <1>1 DEF Init, ShippingInit
<1> DEFINE s == [i \in 1..n |-> [id |-> Saved[i], default |-> d /\ i = 1]]
<1>3. Len(Saved) \in Nat /\ n \in Nat /\ \A i \in 1..n : Saved[i] \in Ids
  BY AddressPanelAssumption, LenProperties, ElementOfSeq
<1>4. \A i \in 1..n : s[i] \in Rows /\ (i # 1 => s[i] \in Unmarked)
  BY <1>3 DEF Rows, Marked, Unmarked
<1>5. s \in Seq(Rows) /\ Len(s) = n
  BY <1>3, <1>4
<1>6. book = s /\ list = s /\ used = IdsIn(s) /\ selected = Preferred(s)
  BY <1>2
<1> HIDE DEF s
<1>7. IdsIn(s) \subseteq Ids
  BY <1>4, <1>5, LenProperties DEF IdsIn, Rows
<1>8. selected \in IdsIn(s) \cup {Nobody}
  BY <1>5, <1>6, PreferredListed
<1>9. calls = [k \in Clicks |-> NoCall] /\ token = "valid"
  BY <1>1 DEF Init, ShippingInit
<1>10. UnderWay = {}
  BY <1>9 DEF UnderWay, NoCall
<1>11. PanelType
  BY <1>5, <1>6, <1>7, <1>8, <1>9, <1>10 DEF PanelType, Tokens, Call
<1>12. DefaultsFirst(s) = s
  <2>1. CASE n = 0
    BY <1>5, <2>1, EmptySeq, DefaultsFirstEmpty
  <2>2. CASE n # 0
    <3> DEFINE a == s[1]
               t == [i \in 1..(n - 1) |-> s[i + 1]]
    <3>1. a \in Rows /\ n - 1 \in Nat
      BY <1>3, <1>4, <2>2
    <3>2. t \in Seq(Unmarked) /\ Len(t) = n - 1 /\ \A i \in 1..(n - 1) : t[i] = s[i + 1]
      BY <1>3, <1>4, <2>2
    <3>3. Unmarked \subseteq Rows /\ Unmarked \cap Marked = {}
      BY DEF Unmarked
    <3> HIDE DEF a, t
    <3>4. t \in Seq(Rows) /\ In(t) \subseteq Unmarked
      BY <3>2, <3>3, InEmpty
    <3>5. <<a>> \in Seq(Rows) /\ In(<<a>>) = {a} /\ Len(<<a>>) = 1 /\ <<a>>[1] = a
      BY <3>1 DEF In
    <3>6. s = <<a>> \o t
      BY <1>3, <1>5, <2>2, <3>2, <3>4, <3>5, ConcatProperties, SeqEqual DEF a
    <3>7. /\ Filter(<<a>> \o t, Marked) = Filter(<<a>>, Marked) \o Filter(t, Marked)
          /\ Filter(<<a>> \o t, Unmarked) = Filter(<<a>>, Unmarked) \o Filter(t, Unmarked)
      BY <3>4, <3>5, FilterConcat
    <3>8. Filter(t, Marked) = <<>> /\ Filter(t, Unmarked) = t
      BY <3>3, <3>4, FilterNone, FilterAll
    <3> DEFINE r == <<a>>
    <3> HIDE DEF r
    <3>9. r \in Seq(Rows) /\ In(r) = {a}
      BY <3>5 DEF r
    <3>10. a \in Marked => Filter(r, Marked) = r /\ Filter(r, Unmarked) = <<>>
      BY <3>3, <3>9, FilterNone, FilterAll
    <3>11. a \notin Marked => Filter(r, Marked) = <<>> /\ Filter(r, Unmarked) = r
      BY <3>1, <3>9, FilterNone, FilterAll DEF Unmarked
    <3>12. /\ <<a>> \o <<>> = <<a>> /\ <<>> \o <<>> = <<>> /\ <<>> \o t = t
           /\ <<>> \o (<<a>> \o t) = <<a>> \o t
      BY <3>4, <3>5, ConcatEmptySeq, ConcatProperties, EmptySeq
    <3> QED
      BY <3>6, <3>7, <3>8, <3>10, <3>11, <3>12 DEF DefaultsFirst, r
  <2> QED
    BY <2>1, <2>2
<1> QED
  BY <1>6, <1>8, <1>10, <1>11, <1>12 DEF PanelInv, Settled

\* So does everything else: the checkout and the orders leave the panel alone.
LEMMA PanelInductive == PanelInv /\ [Next]_vars => PanelInv'
<1>1. SUFFICES ASSUME PanelInv, [Next]_vars PROVE PanelInv'
  OBVIOUS
<1>2. CASE ShippingNext
  BY <1>1, <1>2, PanelSteps
<1>3. CASE UNCHANGED shippingVars \/ CartCleared
  <2>1. UNCHANGED <<book, used, token, list, selected, calls, mixed>>
    BY <1>3 DEF CartCleared, shippingVars, bookVars, panelVars
  <2> QED
    BY <1>1, <2>1, PanelKept
<1>4. CheckoutStep \/ OrdersStep \/ PriceChanges => UNCHANGED shippingVars \/ CartCleared
  BY DEF CheckoutStep, OrdersStep, PriceChanges, HandleCheckout, CreateOrder, OrderRefused,
         CheckoutFails, StartPayment, StartRefused, OrderedAuto, ReloadOrders, OrdersLoaded,
         HandleRetryPayment, HandleOpenPendingYape, FromOrders, HandleConfirm, AskElsewhere,
         HearAnswer, AnswerLost, AsOrdered
<1> QED
  BY <1>1, <1>2, <1>3, <1>4 DEF Next, vars

\* What the page lists is the book, though it never reads it again after a
\* change (PanelMatchesBook).
THEOREM PanelShowsTheBook == Spec => []PanelMatchesBook
<1>1. PanelInv => PanelMatchesBook
  <2>1. UnderWay = {} => ~Fitting
    BY DEF Fitting
  <2> QED
    BY <2>1 DEF PanelInv, PanelMatchesBook, Settled
<1> QED
  BY <1>1, PanelStarts, PanelInductive, PTL DEF Spec

=============================================================================
