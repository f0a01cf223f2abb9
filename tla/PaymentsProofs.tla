--------------------------- MODULE PaymentsProofs ---------------------------
(***************************************************************************)
(* Proofs about Payments, for any number of orders, requests, sweeps and   *)
(* faults: no outcome in the database is silent, and an approval that was  *)
(* published stands as long as no handler read the row while another held  *)
(* it and no notification came.                                            *)
(***************************************************************************)
EXTENDS Payments, TLAPS

Tasks ==
  {Ready, Done}
    \cup [step : {"gateway"}, order : Orders]
    \cup [step : {"update"}, order : Orders, write : Statuses \ {"NONE"}]
    \cup [step : {"publish"}, order : Orders, write : Outcomes]

TypeOK ==
  /\ payment \in [Orders -> Statuses]
  /\ due \subseteq Orders
  /\ inbox \in [Orders -> {"none", "waiting", "save", "publish", "acked"}]
  /\ calls \in [Calls -> Tasks]
  /\ sweeps \in [Sweeps -> [batch : SUBSET Orders, announce : SUBSET Orders]]

\* InFlight, one pair at a time.
Announcing(o, s) ==
  \/ \E c \in Calls : calls[c].step = "publish" /\ calls[c].order = o /\ calls[c].write = s
  \/ s = "EXPIRED" /\ \E w \in Sweeps : o \in sweeps[w].announce
  \/ s = "APPROVED" /\ inbox[o] = "publish"

\* The outcome was published, or lost, or is about to be published.
Known(o, s) == <<o, s>> \in published \cup lost \/ Announcing(o, s)

\* Others were, or will be, told that o is paid.
Told(o) == <<o, "APPROVED">> \in published \/ Announcing(o, "APPROVED")

CallHolds(c, o) == calls[c].step \in {"gateway", "update"} /\ calls[c].order = o
SweepHolds(w, o) == o \in sweeps[w].batch

Open == {"PENDING", "FAILED", "EXPIRED"}

\* One handler at a time has the row in its hands, and none once it is APPROVED.
Guarded(o) ==
  /\ Told(o) => payment[o] = "APPROVED"
  /\ \A c \in Calls : CallHolds(c, o) =>
       /\ payment[o] \in Open
       /\ \A d \in Calls : CallHolds(d, o) => d = c
       /\ \A w \in Sweeps : ~SweepHolds(w, o)
  /\ \A w \in Sweeps : SweepHolds(w, o) =>
       /\ payment[o] \in Open
       /\ \A v \in Sweeps : SweepHolds(v, o) => v = w

\* Until its row is there an order has no outcome and no holder; the row is
\* there once the consumer is past it.
Fresh(o) ==
  /\ payment[o] = "NONE" => /\ \A s \in Outcomes : ~Known(o, s)
                            /\ \A c \in Calls : ~CallHolds(c, o)
                            /\ \A w \in Sweeps : ~SweepHolds(w, o)
  /\ inbox[o] = "none" => payment[o] = "NONE"
  /\ inbox[o] \in {"publish", "acked"} => payment[o] # "NONE"

\* The call may write something else than a closing outcome.
Opens(c, o) == CallHolds(c, o) /\ ~(calls[c].step = "update" /\ calls[c].write \in Closed)

\* A row that was announced as closed stays closed: whoever may open it, and
\* every sweep, holds a row that is still PENDING.
Calm(o) ==
  /\ \A s \in Closed : Known(o, s) => payment[o] \in Closed
  /\ \A c \in Calls : Opens(c, o) => payment[o] = "PENDING"
  /\ \A w \in Sweeps : SweepHolds(w, o) => payment[o] = "PENDING"

PaymentInv ==
  /\ TypeOK
  /\ \A o \in Orders, s \in Outcomes : payment[o] = s => Known(o, s)
  /\ \A o \in Orders : Fresh(o)
  /\ \A o \in Orders \ (raced \cup notified) : Guarded(o)
  /\ \A o \in Orders \ (raced \cup notified \cup revived) : Calm(o)

-----------------------------------------------------------------------------

\* Announcing is InFlight.
LEMMA InFlightPairs ==
  ASSUME TypeOK, NEW o \in Orders, NEW s
  PROVE  <<o, s>> \in InFlight <=> Announcing(o, s)
BY DEF InFlight, Announcing, TypeOK

\* RowHeld is to be held by a call or a sweep.
LEMMA HeldBy ==
  ASSUME NEW o
  PROVE  RowHeld(o) <=> (\E c \in Calls : CallHolds(c, o)) \/ (\E w \in Sweeps : SweepHolds(w, o))
BY DEF RowHeld, CallHolds, SweepHolds

\* Nothing has happened to the payments.
LEMMA PaymentStarts == Init => PaymentInv
<1>1. SUFFICES ASSUME Init PROVE PaymentInv
  OBVIOUS
<1>2. TypeOK
  BY <1>1 DEF Init, TypeOK, Tasks, Idle, Statuses
<1>3. \A o \in Orders : payment[o] \notin Outcomes /\ inbox[o] # "publish"
  BY <1>1 DEF Init, Outcomes
<1>4. \A c \in Calls : calls[c].step = "ready"
  BY <1>1 DEF Init, Ready
<1>5. \A w \in Sweeps : sweeps[w].batch = {} /\ sweeps[w].announce = {}
  BY <1>1 DEF Init, Idle
<1>6. /\ \A o \in Orders, s \in Outcomes : ~Known(o, s) /\ ~Told(o)
      /\ \A o \in Orders, c \in Calls : ~CallHolds(c, o)
      /\ \A o \in Orders, w \in Sweeps : ~SweepHolds(w, o)
  BY <1>1, <1>3, <1>4, <1>5 DEF Init, Known, Told, Announcing, CallHolds, SweepHolds, Outcomes
<1>7. \A o \in Orders : Fresh(o)
  BY <1>1, <1>6 DEF Init, Fresh
<1>8. \A o \in Orders : Guarded(o) /\ Calm(o)
  BY <1>6 DEF Guarded, Calm, Opens, Closed, Outcomes
<1> QED
  BY <1>2, <1>3, <1>7, <1>8 DEF PaymentInv

\* What a step has to do to keep the invariant.
LEMMA InvKept ==
  ASSUME PaymentInv, TypeOK', raced \subseteq raced', notified \subseteq notified',
         revived \subseteq revived',
         \A o \in Orders, s \in Outcomes : Known(o, s) => Known(o, s)',
         \A o \in Orders, s \in Outcomes : payment'[o] = s => payment[o] = s \/ Known(o, s)',
         \A o \in Orders : Fresh(o)',
         \A o \in Orders \ (raced' \cup notified') : Guarded(o) => Guarded(o)',
         \A o \in Orders \ (raced' \cup notified' \cup revived') :
           Guarded(o) /\ Calm(o) => Calm(o)'
  PROVE  PaymentInv'
BY DEF PaymentInv

\* A step that writes no row, adds no holder and promises no outcome.
LEMMA QuietKeeps ==
  ASSUME PaymentInv, TypeOK', UNCHANGED <<payment, raced, notified, revived>>,
         \A o \in Orders, s \in Outcomes : Known(o, s)' <=> Known(o, s),
         \A o \in Orders : Told(o)' => Told(o),
         \A o \in Orders, c \in Calls : CallHolds(c, o)' => CallHolds(c, o),
         \A o \in Orders, c \in Calls : Opens(c, o)' => Opens(c, o),
         \A o \in Orders, w \in Sweeps : SweepHolds(w, o)' => SweepHolds(w, o),
         \A o \in Orders : inbox'[o] = "none" => inbox[o] = "none",
         \A o \in Orders : inbox'[o] \in {"publish", "acked"} => payment[o] # "NONE"
  PROVE  PaymentInv'
<1>1. \A o \in Orders : Guarded(o) => Guarded(o)'
  BY DEF Guarded
<1>2. \A o \in Orders : Fresh(o)'
  BY DEF Fresh, PaymentInv
<1>3. \A o \in Orders : Calm(o) => Calm(o)'
  BY DEF Calm, Outcomes, Closed
<1> QED
  BY <1>1, <1>2, <1>3, InvKept DEF PaymentInv

\* A call goes on with a task.
LEMMA CallPut ==
  ASSUME TypeOK, NEW c \in Calls, NEW t \in Tasks, calls' = [calls EXCEPT ![c] = t]
  PROVE  /\ calls' \in [Calls -> Tasks] /\ calls'[c] = t
         /\ \A d \in Calls \ {c} : calls'[d] = calls[d]
BY DEF TypeOK

\* The tasks a handler can have.
LEMMA TasksAre ==
  /\ Ready \in Tasks /\ Done \in Tasks /\ Ready.step = "ready" /\ Done.step = "done"
  /\ \A o \in Orders : /\ InGateway(o) \in Tasks /\ InGateway(o).step = "gateway"
                       /\ InGateway(o).order = o
  /\ \A o \in Orders, s \in Statuses \ {"NONE"} :
       /\ ToWrite(o, s) \in Tasks /\ ToWrite(o, s).step = "update"
       /\ ToWrite(o, s).order = o /\ ToWrite(o, s).write = s
  /\ \A t \in Tasks :
       /\ t.step \in {"gateway", "update", "publish"} => t.order \in Orders
       /\ t.step = "update" => t.write \in Statuses \ {"NONE"}
       /\ t.step = "publish" => t.write \in Outcomes
BY DEF Tasks, Ready, Done, InGateway, ToWrite

-----------------------------------------------------------------------------
(* The consumer of order.created, and time.                                *)

\* Messages and time do nothing to the row.
LEMMA ArrivalKeeps ==
  ASSUME PaymentInv, NEW o \in Orders, OrderCreated(o) \/ ProcessRead(o) \/ Age(o)
  PROVE  PaymentInv'
<1>1. /\ UNCHANGED <<payment, calls, sweeps, published, lost, raced, notified, revived>>
      /\ \A p \in Orders : inbox'[p] = "publish" <=> inbox[p] = "publish"
      /\ \A p \in Orders : inbox'[p] = "none" => inbox[p] = "none"
      /\ \A p \in Orders : inbox'[p] = "acked" => inbox[p] = "acked" \/ payment[p] # "NONE"
  BY DEF OrderCreated, ProcessRead, Age, dbVars, taints, PaymentInv, TypeOK
<1>2. TypeOK'
  BY <1>1 DEF OrderCreated, ProcessRead, Age, dbVars, PaymentInv, TypeOK
<1>3. \A p \in Orders : inbox'[p] \in {"publish", "acked"} => payment[p] # "NONE"
  BY <1>1 DEF PaymentInv, Fresh
<1> QED
  BY <1>1, <1>2, <1>3, QuietKeeps DEF Known, Told, Announcing, CallHolds, Opens, SweepHolds

\* A row is inserted only where there was none, so nobody had read it; the
\* consumer announces what it finds APPROVED.
LEMMA ProcessSaveKeeps == ASSUME PaymentInv, NEW o \in Orders, ProcessSave(o) PROVE PaymentInv'
<1>1. PICK saved \in Statuses :
        /\ saved = IF payment[o] = "NONE" THEN FirstStatus(o) ELSE payment[o]
        /\ payment' = [payment EXCEPT ![o] = saved]
        /\ inbox' = [inbox EXCEPT ![o] = IF saved = "APPROVED" THEN "publish" ELSE "acked"]
        /\ due' \subseteq due
  BY DEF ProcessSave, Write, dbVars, FirstStatus, Statuses, Outcomes, PaymentInv, TypeOK
<1>2. UNCHANGED <<calls, sweeps, published, lost, raced, notified, revived>> /\ inbox[o] = "save"
  BY DEF ProcessSave, taints
<1>3. TypeOK'
  BY <1>1, <1>2 DEF PaymentInv, TypeOK
<1>4. \A p \in Orders : payment'[p] = IF p = o THEN saved ELSE payment[p]
  BY <1>1 DEF PaymentInv, TypeOK
<1>5. \A p \in Orders : inbox'[p] = IF p # o THEN inbox[p]
                                    ELSE IF saved = "APPROVED" THEN "publish" ELSE "acked"
  BY <1>1 DEF PaymentInv, TypeOK
<1>6. \A p \in Orders, s \in Outcomes : Known(p, s) => Known(p, s)'
  BY <1>2, <1>5 DEF Known, Announcing
<1>7. ASSUME NEW p \in Orders, NEW s \in Outcomes, payment'[p] = s
      PROVE  payment[p] = s \/ Known(p, s)'
  BY <1>1, <1>4, <1>5, <1>7 DEF Known, Announcing, FirstStatus, Outcomes
<1>8. \A p \in Orders : payment[p] = payment'[p] \/ (payment[p] = "NONE" /\ p = o)
  BY <1>1, <1>4
<1>9. /\ \A p \in Orders : \A c \in Calls : CallHolds(c, p)' <=> CallHolds(c, p)
      /\ \A p \in Orders : \A c \in Calls : Opens(c, p)' <=> Opens(c, p)
      /\ \A p \in Orders : \A w \in Sweeps : SweepHolds(w, p)' <=> SweepHolds(w, p)
  BY <1>2 DEF CallHolds, Opens, SweepHolds
<1>10. \A p \in Orders, s \in Outcomes :
         Known(p, s)' => Known(p, s) \/ (p = o /\ s = "APPROVED" /\ saved = "APPROVED")
  BY <1>2, <1>5 DEF Known, Announcing
<1>11. ASSUME NEW p \in Orders, Guarded(p) PROVE Guarded(p)'
  <2>1. Told(p)' => Told(p) \/ (p = o /\ saved = "APPROVED")
    BY <1>2, <1>5 DEF Told, Announcing
  <2> QED
    BY <1>4, <1>8, <1>9, <1>11, <2>1 DEF Guarded, Open
<1>12. saved # "NONE" /\ \A p \in Orders : inbox[p] = "none" => payment[p] = "NONE"
  BY <1>1 DEF FirstStatus, PaymentInv, Fresh
<1>13. \A p \in Orders : Fresh(p)'
  BY <1>2, <1>4, <1>5, <1>9, <1>10, <1>12 DEF Fresh, PaymentInv
<1>14. ASSUME NEW p \in Orders, Calm(p) PROVE Calm(p)'
  <2>1. CASE payment'[p] = payment[p]
    BY <1>9, <1>10, <1>14, <2>1 DEF Calm, Closed, Outcomes
  <2>2. CASE payment[p] = "NONE"
    BY <1>9, <1>10, <2>2 DEF Calm, Closed, Outcomes, Opens, PaymentInv, Fresh
  <2> QED
    BY <1>8, <2>1, <2>2
<1> QED
  BY <1>2, <1>3, <1>6, <1>7, <1>11, <1>13, <1>14, InvKept

\* Its announcement is published, or lost.
LEMMA ProcessPublishKeeps ==
  ASSUME PaymentInv, NEW o \in Orders, ProcessPublish(o) \/ ProcessPublishFails(o)
  PROVE  PaymentInv'
<1>1. /\ UNCHANGED <<payment, due, calls, sweeps, raced, notified, revived>> /\ inbox[o] = "publish"
      /\ \E s \in {"acked", "waiting"} : inbox' = [inbox EXCEPT ![o] = s]
      /\ \/ published' = published \cup {<<o, "APPROVED">>} /\ lost' = lost
         \/ published' = published /\ lost' = lost \cup {<<o, "APPROVED">>}
  BY DEF ProcessPublish, ProcessPublishFails, dbVars, taints
<1>2. TypeOK'
  BY <1>1 DEF PaymentInv, TypeOK
<1>3. \A p \in Orders : p # o => inbox'[p] = inbox[p]
  BY <1>1 DEF PaymentInv, TypeOK
<1>4. inbox'[o] \in {"acked", "waiting"}
  BY <1>1 DEF PaymentInv, TypeOK
<1>5. \A p \in Orders, s \in Outcomes : Known(p, s)' <=> Known(p, s)
  BY <1>1, <1>3, <1>4 DEF Known, Announcing
<1>6. \A p \in Orders : Told(p)' => Told(p)
  BY <1>1, <1>3, <1>4 DEF Told, Announcing
<1>7. /\ \A p \in Orders : inbox'[p] = "none" => inbox[p] = "none"
      /\ \A p \in Orders : inbox'[p] \in {"publish", "acked"} => payment[p] # "NONE"
  BY <1>1, <1>3, <1>4 DEF PaymentInv, Fresh
<1> QED
  BY <1>1, <1>2, <1>5, <1>6, <1>7, QuietKeeps DEF CallHolds, Opens, SweepHolds

-----------------------------------------------------------------------------
(* Requests.                                                               *)

\* Whoever reads a row that another holds marks the order, so the first reader
\* of an unmarked one is alone; nothing but a notification is let in when the
\* payment is APPROVED.
LEMMA BeginKeeps ==
  ASSUME PaymentInv, NEW c \in Calls, NEW o \in Orders, NEW t \in Tasks,
         t.step \in {"gateway", "update"}, t.order = o, Begin(c, o, t),
         notified \subseteq notified', payment[o] # "NONE",
         o \in notified' \/ payment[o] \in Open
  PROVE  PaymentInv'
<1>1. /\ UNCHANGED <<payment, due, inbox, sweeps, published, lost>>
      /\ calls[c] = Ready /\ calls' = [calls EXCEPT ![c] = t]
      /\ raced' = IF RowHeld(o) THEN raced \cup {o} ELSE raced
      /\ revived \subseteq revived'
      /\ payment[o] \in Closed /\ o \notin revived' => t \in {ToWrite(o, s) : s \in Closed}
  BY DEF Begin, dbVars
<1>2. /\ calls' \in [Calls -> Tasks] /\ calls'[c] = t
      /\ \A d \in Calls \ {c} : calls'[d] = calls[d]
  BY <1>1, CallPut DEF PaymentInv
<1>3. TypeOK'
  BY <1>1, <1>2 DEF PaymentInv, TypeOK
<1>4. calls[c].step = "ready"
  BY <1>1, TasksAre
<1>5. \A p \in Orders : \A s : Announcing(p, s)' <=> Announcing(p, s)
  BY <1>1, <1>2, <1>4 DEF Announcing
<1>6. \A p \in Orders, s \in Outcomes : Known(p, s)' <=> Known(p, s)
  BY <1>1, <1>5 DEF Known
<1>7. \A p \in Orders, d \in Calls : CallHolds(d, p)' <=> CallHolds(d, p) \/ (d = c /\ p = o)
  BY <1>2, <1>4 DEF CallHolds
<1>8. \A p \in Orders, w \in Sweeps : SweepHolds(w, p)' <=> SweepHolds(w, p)
  BY <1>1 DEF SweepHolds
<1>9. \A p \in Orders : Fresh(p)'
  BY <1>1, <1>6, <1>7, <1>8 DEF Fresh, PaymentInv
<1>10. ASSUME NEW p \in Orders \ (raced' \cup notified'), Guarded(p) PROVE Guarded(p)'
  <2>1. Told(p)' <=> Told(p)
    BY <1>1, <1>5 DEF Told
  <2>2. \A w \in Sweeps : SweepHolds(w, p)' <=> SweepHolds(w, p)
    BY <1>8
  <2>3. \A d \in Calls : CallHolds(d, p)' <=> CallHolds(d, p) \/ (d = c /\ p = o)
    BY <1>7
  <2>4. CASE p = o
    <3>1. ~RowHeld(o) /\ payment[o] \in Open
      BY <1>1, <1>10, <2>4
    <3>2. /\ \A d \in Calls : ~CallHolds(d, o)
          /\ \A w \in Sweeps : ~SweepHolds(w, o)
      BY <3>1, HeldBy
    <3> QED
      BY <1>1, <1>10, <2>1, <2>2, <2>3, <2>4, <3>1, <3>2 DEF Guarded
  <2>5. CASE p # o
    BY <1>1, <1>10, <2>1, <2>2, <2>3, <2>5 DEF Guarded
  <2> QED
    BY <2>4, <2>5
<1>11. ASSUME NEW p \in Orders \ (raced' \cup notified' \cup revived'), Calm(p) PROVE Calm(p)'
  <2>1. \A d \in Calls : Opens(d, p)' => Opens(d, p) \/ (d = c /\ p = o /\ payment[o] \notin Closed)
    BY <1>1, <1>2, <1>7, TasksAre DEF Opens, Closed, Statuses, Outcomes
  <2>2. payment[o] \notin Closed => payment[o] = "PENDING" \/ o \in notified'
    BY DEF Open, Closed
  <2> QED
    BY <1>1, <1>6, <1>8, <1>11, <2>1, <2>2 DEF Calm, Closed, Outcomes
<1> QED
  BY <1>1, <1>3, <1>6, <1>9, <1>10, <1>11, InvKept DEF PaymentInv

\* So does every request.
LEMMA RequestKeeps ==
  ASSUME PaymentInv, NEW c \in Calls, NEW o \in Orders, Request(c, o) PROVE PaymentInv'
<1>1. ASSUME NEW s \in Statuses \ {"NONE"}, Begin(c, o, ToWrite(o, s)),
             notified \subseteq notified', payment[o] # "NONE",
             o \in notified' \/ payment[o] \in Open
      PROVE  PaymentInv'
  BY <1>1, TasksAre, BeginKeeps
<1>2. CASE ConfirmYape(c, o)
  BY <1>1, <1>2 DEF ConfirmYape, Open, Statuses, Outcomes
<1>3. CASE FailYape(c, o)
  BY <1>1, <1>3 DEF FailYape, Open, Statuses, Outcomes
<1>4. CASE ExpireYape(c, o)
  BY <1>1, <1>4 DEF ExpireYape, Open, Statuses, Outcomes
<1>5. CASE RetryYape(c, o)
  BY <1>1, <1>5 DEF RetryYape, Open, Statuses, Outcomes
<1>6. CASE CreateCharge(c, o)
  BY <1>6, TasksAre, BeginKeeps DEF CreateCharge, Open
<1>7. CASE CulqiWebhook(c, o)
  BY <1>1, <1>7 DEF CulqiWebhook, Statuses, Outcomes
<1> QED
  BY <1>2, <1>3, <1>4, <1>5, <1>6, <1>7 DEF Request

\* Culqi's answer keeps the row in the same hands, or lets go of it.
LEMMA ChargeKeeps ==
  ASSUME PaymentInv, NEW c \in Calls, ChargeAnswered(c) \/ ChargeErrored(c)
  PROVE  PaymentInv'
<1>1. /\ UNCHANGED <<payment, due, inbox, sweeps, published, lost, raced, notified, revived>>
      /\ calls[c].step = "gateway"
  BY DEF ChargeAnswered, ChargeErrored, dbVars, taints
<1>2. calls[c].order \in Orders
  BY <1>1, TasksAre DEF PaymentInv, TypeOK
<1>3. PICK t \in Tasks :
        /\ calls' = [calls EXCEPT ![c] = t]
        /\ t.step # "publish"
        /\ t.step \in {"gateway", "update"} => t.order = calls[c].order
  BY <1>2, TasksAre DEF ChargeAnswered, ChargeErrored, Statuses, Outcomes
<1>4. /\ calls' \in [Calls -> Tasks] /\ calls'[c] = t
      /\ \A d \in Calls \ {c} : calls'[d] = calls[d]
  BY <1>3, CallPut DEF PaymentInv
<1>5. TypeOK'
  BY <1>1, <1>4 DEF PaymentInv, TypeOK
<1>6. \A p \in Orders : \A s : Announcing(p, s)' <=> Announcing(p, s)
  BY <1>1, <1>3, <1>4 DEF Announcing
<1>7. /\ \A p \in Orders, d \in Calls : CallHolds(d, p)' => CallHolds(d, p)
      /\ \A p \in Orders, d \in Calls : Opens(d, p)' => Opens(d, p)
      /\ \A p \in Orders, w \in Sweeps : SweepHolds(w, p)' => SweepHolds(w, p)
      /\ \A p \in Orders : inbox'[p] = "none" => inbox[p] = "none"
  BY <1>1, <1>3, <1>4 DEF CallHolds, Opens, SweepHolds
<1>8. \A p \in Orders : inbox'[p] \in {"publish", "acked"} => payment[p] # "NONE"
  BY <1>1 DEF PaymentInv, Fresh
<1>9. /\ \A p \in Orders, s \in Outcomes : Known(p, s)' <=> Known(p, s)
      /\ \A p \in Orders : Told(p)' => Told(p)
  BY <1>1, <1>6 DEF Known, Told
<1>10. UNCHANGED <<payment, raced, notified, revived>>
  BY <1>1
<1> QED
  BY <1>5, <1>7, <1>8, <1>9, <1>10, QuietKeeps

\* The one holder of an unmarked row writes it and lets it go.
LEMMA UpdateKeeps == ASSUME PaymentInv, NEW c \in Calls, Update(c) PROVE PaymentInv'
<1>1. calls[c] \in Tasks /\ calls[c].step = "update"
  BY DEF Update, PaymentInv, TypeOK
<1>2. PICK o \in Orders, s \in Statuses \ {"NONE"} : o = calls[c].order /\ s = calls[c].write
  BY <1>1, TasksAre
<1>3. /\ payment' = [payment EXCEPT ![o] = s] /\ due' \subseteq due
      /\ UNCHANGED <<inbox, sweeps, published, lost, raced, notified, revived>>
  BY <1>2 DEF Update, Write, taints
<1>4. PICK t \in Tasks :
        /\ calls' = [calls EXCEPT ![c] = t]
        /\ t.step \notin {"gateway", "update"}
        /\ (t.step = "publish") <=> (s \in Outcomes)
        /\ t.step = "publish" => t.order = o /\ t.write = s
  <2>1. calls[c] = [step |-> "update", order |-> o, write |-> s]
    BY <1>1, <1>2 DEF Tasks, Ready, Done
  <2>2. calls' = [calls EXCEPT ![c] =
                    IF s \in Outcomes THEN [calls[c] EXCEPT !.step = "publish"] ELSE Done]
    BY <1>2 DEF Update
  <2>3. [calls[c] EXCEPT !.step = "publish"] = [step |-> "publish", order |-> o, write |-> s]
    BY <2>1
  <2>4. PICK t \in Tasks :
          t = IF s \in Outcomes THEN [step |-> "publish", order |-> o, write |-> s] ELSE Done
    BY DEF Tasks
  <2> QED
    BY <2>2, <2>3, <2>4, TasksAre
<1>5. /\ calls' \in [Calls -> Tasks] /\ calls'[c] = t
      /\ \A d \in Calls \ {c} : calls'[d] = calls[d]
  BY <1>4, CallPut DEF PaymentInv
<1>6. TypeOK'
  BY <1>3, <1>5 DEF PaymentInv, TypeOK
<1>7. \A p \in Orders : payment'[p] = IF p = o THEN s ELSE payment[p]
  BY <1>3 DEF PaymentInv, TypeOK
<1>8. \A p \in Orders : \A x : Announcing(p, x)' <=>
                             Announcing(p, x) \/ (p = o /\ x = s /\ s \in Outcomes)
  BY <1>1, <1>3, <1>4, <1>5 DEF Announcing
<1>9. ASSUME NEW p \in Orders \ (raced' \cup notified'), Guarded(p) PROVE Guarded(p)'
  <2>1. \A w \in Sweeps : SweepHolds(w, p)' <=> SweepHolds(w, p)
    BY <1>3 DEF SweepHolds
  <2>2. \A d \in Calls : CallHolds(d, p)' <=> CallHolds(d, p) /\ d # c
    BY <1>4, <1>5 DEF CallHolds
  <2>3. Told(p)' => Told(p) \/ (p = o /\ s = "APPROVED")
    BY <1>3, <1>8 DEF Told
  <2>4. CASE p = o
    <3>1. CallHolds(c, o)
      BY <1>1, <1>2 DEF CallHolds
    <3>2. /\ payment[o] \in Open
          /\ \A d \in Calls : CallHolds(d, o) => d = c
          /\ \A w \in Sweeps : ~SweepHolds(w, o)
      BY <1>9, <2>4, <3>1 DEF Guarded
    <3> QED
      BY <1>7, <1>9, <2>1, <2>2, <2>3, <2>4, <3>2 DEF Guarded, Open
  <2>5. CASE p # o
    BY <1>7, <1>9, <2>1, <2>2, <2>3, <2>5 DEF Guarded
  <2> QED
    BY <2>4, <2>5
<1>10. /\ \A p \in Orders : \A w \in Sweeps : SweepHolds(w, p)' <=> SweepHolds(w, p)
       /\ \A p \in Orders : \A d \in Calls : CallHolds(d, p)' <=> CallHolds(d, p) /\ d # c
       /\ \A p \in Orders : \A d \in Calls : Opens(d, p)' <=> Opens(d, p) /\ d # c
  BY <1>3, <1>4, <1>5 DEF SweepHolds, CallHolds, Opens
<1>11. CallHolds(c, o) /\ (s \notin Closed => Opens(c, o))
  BY <1>1, <1>2 DEF CallHolds, Opens
<1>12. \A p \in Orders, x \in Outcomes : Known(p, x)' <=> Known(p, x) \/ (p = o /\ x = s)
  BY <1>3, <1>8 DEF Known
<1>13. \A p \in Orders : Fresh(p)'
  BY <1>3, <1>7, <1>10, <1>11, <1>12 DEF Fresh, PaymentInv
<1>14. ASSUME NEW p \in Orders \ (raced' \cup notified' \cup revived'), Guarded(p), Calm(p)
       PROVE  Calm(p)'
  <2>1. CASE p = o
    <3>1. /\ \A d \in Calls : CallHolds(d, p)' => FALSE
          /\ \A w \in Sweeps : SweepHolds(w, p)' => FALSE
      BY <1>10, <1>11, <1>14, <2>1 DEF Guarded
    <3>2. s \notin Closed => \A x \in Closed : ~Known(p, x)'
      BY <1>11, <1>12, <1>14, <2>1 DEF Calm, Closed, Outcomes
    <3> QED
      BY <1>7, <2>1, <3>1, <3>2 DEF Calm, Opens
  <2>2. CASE p # o
    BY <1>7, <1>10, <1>12, <1>14, <2>2 DEF Calm, Closed, Outcomes
  <2> QED
    BY <2>1, <2>2
<1> QED
  BY <1>3, <1>6, <1>7, <1>9, <1>12, <1>13, <1>14, InvKept

\* What a call wrote is published, or lost.
LEMMA PublishKeeps ==
  ASSUME PaymentInv, NEW c \in Calls, Publish(c) \/ PublishFails(c) PROVE PaymentInv'
<1>1. /\ UNCHANGED <<payment, due, inbox, sweeps, raced, notified, revived>>
      /\ calls[c].step = "publish" /\ calls' = [calls EXCEPT ![c] = Done]
      /\ \/ published' = published \cup {<<calls[c].order, calls[c].write>>} /\ lost' = lost
         \/ published' = published /\ lost' = lost \cup {<<calls[c].order, calls[c].write>>}
  BY DEF Publish, PublishFails, dbVars, taints
<1>2. /\ calls' \in [Calls -> Tasks] /\ calls'[c] = Done /\ Done.step = "done"
      /\ \A d \in Calls \ {c} : calls'[d] = calls[d]
  BY <1>1, CallPut, TasksAre DEF PaymentInv
<1>3. TypeOK'
  BY <1>1, <1>2 DEF PaymentInv, TypeOK
<1>4. \A p \in Orders, s \in Outcomes : Known(p, s)' <=> Known(p, s)
  BY <1>1, <1>2 DEF Known, Announcing
<1>5. \A p \in Orders : Told(p)' => Told(p)
  BY <1>1, <1>2 DEF Told, Announcing
<1>6. /\ \A p \in Orders, d \in Calls : CallHolds(d, p)' => CallHolds(d, p)
      /\ \A p \in Orders, d \in Calls : Opens(d, p)' => Opens(d, p)
      /\ \A p \in Orders, v \in Sweeps : SweepHolds(v, p)' => SweepHolds(v, p)
      /\ \A p \in Orders : inbox'[p] = "none" => inbox[p] = "none"
  BY <1>1, <1>2 DEF CallHolds, Opens, SweepHolds
<1>7. \A p \in Orders : inbox'[p] \in {"publish", "acked"} => payment[p] # "NONE"
  BY <1>1 DEF PaymentInv, Fresh
<1>8. UNCHANGED <<payment, raced, notified, revived>>
  BY <1>1
<1> QED
  BY <1>3, <1>4, <1>5, <1>6, <1>7, <1>8, QuietKeeps

-----------------------------------------------------------------------------
(* The sweep.                                                              *)

\* The overdue rows that nobody had read are now in one sweep's hands.
LEMMA SweepReadKeeps == ASSUME PaymentInv, NEW w \in Sweeps, SweepRead(w) PROVE PaymentInv'
<1>1. /\ UNCHANGED <<payment, due, inbox, calls, published, lost, notified, revived>>
      /\ sweeps[w] = Idle /\ raced' = raced \cup {o \in Overdue : RowHeld(o)}
  BY DEF SweepRead, dbVars
<1>2. Overdue \subseteq Orders /\ \A o \in Overdue : payment[o] = "PENDING"
  BY DEF Overdue, PaymentInv, TypeOK
<1>3. sweeps' = [sweeps EXCEPT ![w] = [batch |-> Overdue, announce |-> {}]]
  <2>1. [sweeps[w] EXCEPT !.batch = Overdue] = [batch |-> Overdue, announce |-> {}]
    BY <1>1 DEF Idle
  <2>2. sweeps' = [sweeps EXCEPT ![w] = [sweeps[w] EXCEPT !.batch = Overdue]]
    BY DEF SweepRead
  <2> QED
    BY <2>1, <2>2
<1>4. /\ sweeps' \in [Sweeps -> [batch : SUBSET Orders, announce : SUBSET Orders]]
      /\ sweeps'[w].batch = Overdue /\ sweeps'[w].announce = {}
      /\ \A v \in Sweeps \ {w} : sweeps'[v] = sweeps[v]
  BY <1>2, <1>3 DEF PaymentInv, TypeOK
<1>5. TypeOK'
  BY <1>1, <1>4 DEF PaymentInv, TypeOK
<1>6. sweeps[w].batch = {} /\ sweeps[w].announce = {}
  BY <1>1 DEF Idle
<1>7. \A p \in Orders : \A s : Announcing(p, s)' <=> Announcing(p, s)
  BY <1>1, <1>4, <1>6 DEF Announcing
<1>8. ASSUME NEW p \in Orders \ (raced' \cup notified'), Guarded(p) PROVE Guarded(p)'
  <2>1. Told(p)' <=> Told(p)
    BY <1>1, <1>7 DEF Told
  <2>2. \A d \in Calls : CallHolds(d, p)' <=> CallHolds(d, p)
    BY <1>1 DEF CallHolds
  <2>3. \A v \in Sweeps : SweepHolds(v, p)' <=> SweepHolds(v, p) \/ (v = w /\ p \in Overdue)
    BY <1>4, <1>6 DEF SweepHolds
  <2>4. CASE p \in Overdue
    <3>1. ~RowHeld(p) /\ payment[p] \in Open
      BY <1>1, <1>2, <1>8, <2>4 DEF Open
    <3>2. /\ \A d \in Calls : ~CallHolds(d, p)
          /\ \A v \in Sweeps : ~SweepHolds(v, p)
      BY <3>1, HeldBy
    <3> QED
      BY <1>1, <1>8, <2>1, <2>2, <2>3, <2>4, <3>1, <3>2 DEF Guarded
  <2>5. CASE p \notin Overdue
    BY <1>1, <1>8, <2>1, <2>2, <2>3, <2>5 DEF Guarded
  <2> QED
    BY <2>4, <2>5
<1>9. /\ \A p \in Orders : \A s \in Outcomes : Known(p, s)' <=> Known(p, s)
      /\ \A p \in Orders : \A d \in Calls : CallHolds(d, p)' <=> CallHolds(d, p)
      /\ \A p \in Orders : \A d \in Calls : Opens(d, p)' <=> Opens(d, p)
      /\ \A p \in Orders : \A v \in Sweeps :
           SweepHolds(v, p)' => SweepHolds(v, p) \/ payment[p] = "PENDING"
  BY <1>1, <1>2, <1>4, <1>7 DEF Known, CallHolds, Opens, SweepHolds
<1>10. \A p \in Orders : Fresh(p)'
  BY <1>1, <1>2, <1>9 DEF Fresh, PaymentInv
<1>11. ASSUME NEW p \in Orders, Calm(p) PROVE Calm(p)'
  BY <1>1, <1>2, <1>9, <1>11 DEF Calm, Closed, Outcomes
<1> QED
  BY <1>1, <1>5, <1>8, <1>9, <1>10, <1>11, InvKept DEF PaymentInv

\* It expires one of them and lets it go.
LEMMA SweepUpdateKeeps == ASSUME PaymentInv, NEW w \in Sweeps, SweepUpdate(w) PROVE PaymentInv'
<1>1. PICK o \in sweeps[w].batch :
        /\ payment' = [payment EXCEPT ![o] = "EXPIRED"] /\ due' \subseteq due
        /\ sweeps' = [sweeps EXCEPT ![w] = [batch |-> sweeps[w].batch \ {o}, announce |-> {o}]]
  BY DEF SweepUpdate, Write, PaymentInv, TypeOK
<1>2. /\ sweeps[w].announce = {}
      /\ UNCHANGED <<inbox, calls, published, lost, raced, notified, revived>>
  BY DEF SweepUpdate, taints
<1>3. sweeps[w].batch \subseteq Orders
  BY DEF PaymentInv, TypeOK
<1>4. /\ sweeps' \in [Sweeps -> [batch : SUBSET Orders, announce : SUBSET Orders]]
      /\ sweeps'[w].batch = sweeps[w].batch \ {o} /\ sweeps'[w].announce = {o}
      /\ \A v \in Sweeps \ {w} : sweeps'[v] = sweeps[v]
  BY <1>1, <1>3 DEF PaymentInv, TypeOK
<1>5. TypeOK'
  BY <1>1, <1>2, <1>4 DEF PaymentInv, TypeOK, Statuses, Outcomes
<1>6. \A p \in Orders : payment'[p] = IF p = o THEN "EXPIRED" ELSE payment[p]
  BY <1>1 DEF PaymentInv, TypeOK
<1>7. \A p \in Orders : \A s : Announcing(p, s)' <=> Announcing(p, s) \/ (p = o /\ s = "EXPIRED")
  BY <1>2, <1>4 DEF Announcing
<1>8. ASSUME NEW p \in Orders \ (raced' \cup notified'), Guarded(p) PROVE Guarded(p)'
  <2>1. Told(p)' => Told(p)
    BY <1>2, <1>7 DEF Told
  <2>2. \A d \in Calls : CallHolds(d, p)' <=> CallHolds(d, p)
    BY <1>2 DEF CallHolds
  <2>3. \A v \in Sweeps : SweepHolds(v, p)' <=> SweepHolds(v, p) /\ ~(v = w /\ p = o)
    BY <1>4 DEF SweepHolds
  <2>4. CASE p = o
    <3>1. /\ payment[o] \in Open
          /\ \A v \in Sweeps : SweepHolds(v, o) => v = w
          /\ \A d \in Calls : ~CallHolds(d, o)
      BY <1>8, <2>4 DEF Guarded, SweepHolds
    <3> QED
      BY <1>6, <1>8, <2>1, <2>2, <2>3, <2>4, <3>1 DEF Guarded, Open
  <2>5. CASE p # o
    BY <1>6, <1>8, <2>1, <2>2, <2>3, <2>5 DEF Guarded
  <2> QED
    BY <2>4, <2>5
<1>9. /\ \A p \in Orders : \A d \in Calls : CallHolds(d, p)' <=> CallHolds(d, p)
      /\ \A p \in Orders : \A d \in Calls : Opens(d, p)' <=> Opens(d, p)
      /\ \A p \in Orders : \A v \in Sweeps :
           SweepHolds(v, p)' <=> SweepHolds(v, p) /\ ~(v = w /\ p = o)
  BY <1>2, <1>4 DEF CallHolds, Opens, SweepHolds
<1>10. \A p \in Orders, s \in Outcomes : Known(p, s)' <=> Known(p, s) \/ (p = o /\ s = "EXPIRED")
  BY <1>2, <1>7 DEF Known
<1>11. SweepHolds(w, o)
  BY <1>1 DEF SweepHolds
<1>12. \A p \in Orders : Fresh(p)'
  BY <1>2, <1>6, <1>9, <1>10, <1>11 DEF Fresh, PaymentInv
<1>13. ASSUME NEW p \in Orders \ (raced' \cup notified' \cup revived'), Guarded(p), Calm(p)
       PROVE  Calm(p)'
  <2>1. CASE p = o
    <3>1. /\ \A d \in Calls : ~Opens(d, p)'
          /\ \A v \in Sweeps : ~SweepHolds(v, p)'
      BY <1>9, <1>11, <1>13, <2>1 DEF Guarded, Opens
    <3> QED
      BY <1>6, <2>1, <3>1 DEF Calm, Closed
  <2>2. CASE p # o
    BY <1>6, <1>9, <1>10, <1>13, <2>2 DEF Calm, Closed, Outcomes
  <2> QED
    BY <2>1, <2>2
<1> QED
  BY <1>2, <1>5, <1>6, <1>8, <1>10, <1>12, <1>13, InvKept

\* The expiration is published, or lost with the rest of the batch.
LEMMA SweepPublishKeeps ==
  ASSUME PaymentInv, NEW w \in Sweeps, SweepPublish(w) \/ SweepPublishFails(w)
  PROVE  PaymentInv'
<1>1. /\ UNCHANGED <<payment, due, inbox, calls, raced, notified, revived>>
      /\ \/ published' = published \cup (sweeps[w].announce \X {"EXPIRED"}) /\ lost' = lost
         \/ published' = published /\ lost' = lost \cup (sweeps[w].announce \X {"EXPIRED"})
  BY DEF SweepPublish, SweepPublishFails, dbVars, taints
<1>2. PICK b \in SUBSET sweeps[w].batch :
        sweeps' = [sweeps EXCEPT ![w] = [batch |-> b, announce |-> {}]]
  BY DEF SweepPublish, SweepPublishFails, Idle, PaymentInv, TypeOK
<1>3. sweeps[w].batch \subseteq Orders
  BY DEF PaymentInv, TypeOK
<1>4. /\ sweeps' \in [Sweeps -> [batch : SUBSET Orders, announce : SUBSET Orders]]
      /\ sweeps'[w].batch = b /\ sweeps'[w].announce = {}
      /\ \A v \in Sweeps \ {w} : sweeps'[v] = sweeps[v]
  BY <1>2, <1>3 DEF PaymentInv, TypeOK
<1>5. TypeOK'
  BY <1>1, <1>4 DEF PaymentInv, TypeOK
<1>6. \A p \in Orders, s \in Outcomes : Known(p, s)' <=> Known(p, s)
  BY <1>1, <1>4 DEF Known, Announcing
<1>7. \A p \in Orders : Told(p)' => Told(p)
  BY <1>1, <1>4 DEF Told, Announcing
<1>8. \A p \in Orders, v \in Sweeps : SweepHolds(v, p)' => SweepHolds(v, p)
  BY <1>4 DEF SweepHolds
<1>9. \A p \in Orders : inbox[p] \in {"publish", "acked"} => payment[p] # "NONE"
  BY DEF PaymentInv, Fresh
<1> QED
  BY <1>1, <1>5, <1>6, <1>7, <1>8, <1>9, QuietKeeps DEF CallHolds, Opens

\* A restart lets go of all rows and loses what was about to be published.
LEMMA CrashKeeps == ASSUME PaymentInv, Crash PROVE PaymentInv'
<1>1. /\ UNCHANGED <<payment, due, published, raced, notified, revived>>
      /\ lost' = lost \cup InFlight
      /\ \A c \in Calls : calls'[c] \in {Ready, Done}
      /\ calls' \in [Calls -> Tasks]
      /\ sweeps' = [w \in Sweeps |-> Idle]
  BY TasksAre DEF Crash, dbVars, taints
<1>2. /\ inbox' \in [Orders -> {"none", "waiting", "save", "publish", "acked"}]
      /\ \A o \in Orders : inbox'[o] # "publish"
      /\ \A o \in Orders : inbox'[o] \in {"none", "acked"} => inbox[o] = inbox'[o]
  BY DEF Crash, PaymentInv, TypeOK
<1>3. TypeOK'
  BY <1>1, <1>2 DEF PaymentInv, TypeOK, Idle
<1>4. \A o \in Orders : \A s : ~Announcing(o, s)'
  BY <1>1, <1>2, TasksAre DEF Announcing, Idle
<1>5. \A o \in Orders, s \in Outcomes : Known(o, s)' <=> Known(o, s)
  BY <1>1, <1>4, InFlightPairs DEF Known, PaymentInv
<1>6. \A o \in Orders : inbox'[o] \in {"publish", "acked"} => payment[o] # "NONE"
  BY <1>2 DEF PaymentInv, Fresh
<1>7. /\ \A o \in Orders, c \in Calls : ~CallHolds(c, o)'
      /\ \A o \in Orders, w \in Sweeps : ~SweepHolds(w, o)'
  BY <1>1, TasksAre DEF CallHolds, SweepHolds, Idle
<1> QED
  BY <1>1, <1>2, <1>3, <1>4, <1>5, <1>6, <1>7, QuietKeeps DEF Told, Opens

-----------------------------------------------------------------------------
(* The invariant.                                                          *)

\* PaymentInv is inductive.
LEMMA PaymentInductive == PaymentInv /\ [Next]_vars => PaymentInv'
<1>1. SUFFICES ASSUME PaymentInv, [Next]_vars PROVE PaymentInv'
  OBVIOUS
<1>2. CASE UNCHANGED vars
  <2>1. UNCHANGED <<payment, due, inbox, calls, sweeps, published, lost, raced, notified, revived>>
    BY <1>2 DEF vars, dbVars, taints
  <2>2. \A o \in Orders : inbox[o] \in {"publish", "acked"} => payment[o] # "NONE"
    BY <1>1 DEF PaymentInv, Fresh
  <2>3. /\ \A o \in Orders, s \in Outcomes : Known(o, s)' <=> Known(o, s)
        /\ \A o \in Orders : Told(o)' => Told(o)
        /\ \A o \in Orders, c \in Calls : CallHolds(c, o)' => CallHolds(c, o)
        /\ \A o \in Orders, c \in Calls : Opens(c, o)' => Opens(c, o)
        /\ \A o \in Orders, w \in Sweeps : SweepHolds(w, o)' => SweepHolds(w, o)
    BY <2>1 DEF Known, Told, Announcing, CallHolds, Opens, SweepHolds
  <2>4. TypeOK'
    BY <1>1, <2>1 DEF PaymentInv, TypeOK
  <2> QED
    BY <1>1, <2>1, <2>2, <2>3, <2>4, QuietKeeps
<1>3. ASSUME NEW o \in Orders, OrderCreated(o) \/ Process(o) \/ ProcessPublishFails(o) \/ Age(o)
      PROVE  PaymentInv'
  BY <1>1, <1>3, ArrivalKeeps, ProcessSaveKeeps, ProcessPublishKeeps DEF Process
<1>4. ASSUME NEW c \in Calls, Continue(c) \/ PublishFails(c) PROVE PaymentInv'
  BY <1>1, <1>4, ChargeKeeps, UpdateKeeps, PublishKeeps DEF Continue
<1>5. ASSUME NEW w \in Sweeps, Sweep(w) \/ SweepPublishFails(w) PROVE PaymentInv'
  BY <1>1, <1>5, SweepReadKeeps, SweepUpdateKeeps, SweepPublishKeeps DEF Sweep
<1> QED
  BY <1>1, <1>2, <1>3, <1>4, <1>5, RequestKeeps, CrashKeeps DEF Next

\* So it always holds.
THEOREM PaymentsAreSound == Spec => []PaymentInv
BY PaymentStarts, PaymentInductive, PTL DEF Spec

\* No outcome in the database is silent: its event was published, is about to
\* be, or was lost in a crash or a failed publication.
THEOREM NoSilentOutcome == Spec => []OutcomeAnnounced
<1>1. PaymentInv => OutcomeAnnounced
  BY InFlightPairs DEF PaymentInv, Known, OutcomeAnnounced
<1> QED
  BY <1>1, PaymentsAreSound, PTL

\* Once an approval was published the payment stays APPROVED, unless a handler
\* read the row while another held it or a notification came.
THEOREM ApprovalsStand == Spec => []ApprovalStands
<1>1. PaymentInv => ApprovalStands
  BY DEF PaymentInv, Guarded, Told, ApprovalStands
<1> QED
  BY <1>1, PaymentsAreSound, PTL

\* Nobody is told both that an order is paid and that it is closed, unless its
\* handlers overlapped, a notification came, or it was let back in after it
\* had closed.
OneVerdict ==
  \A o \in Orders \ (raced \cup notified \cup revived) : \A s \in Closed :
    ~(<<o, "APPROVED">> \in published /\ <<o, s>> \in published)

\* The status guards announce one verdict per order.
THEOREM VerdictsAgree == Spec => []OneVerdict
<1>1. PaymentInv => OneVerdict
  BY DEF PaymentInv, Guarded, Calm, Told, Known, OneVerdict, Closed
<1> QED
  BY <1>1, PaymentsAreSound, PTL

\* What is APPROVED stays so, under the same conditions: whoever could write
\* the row holds it, and nobody holds an APPROVED row.
LEMMA ApprovedStays ==
  ASSUME PaymentInv, Next, NEW o \in Orders \ (raced \cup notified), payment[o] = "APPROVED"
  PROVE  payment'[o] = "APPROVED"
<1>1. payment \in [Orders -> Statuses] /\ Guarded(o)
  BY DEF PaymentInv, TypeOK
<1>2. ASSUME NEW p \in Orders, Process(p) PROVE payment'[o] = "APPROVED"
  BY <1>1, <1>2 DEF Process, ProcessRead, ProcessSave, ProcessPublish, Write, dbVars
<1>3. ASSUME NEW c \in Calls, Update(c) PROVE payment'[o] = "APPROVED"
  <2>1. calls[c].order # o
    BY <1>1, <1>3 DEF Guarded, Open, CallHolds, Update
  <2> QED
    BY <1>1, <1>3, <2>1 DEF Update, Write
<1>4. ASSUME NEW w \in Sweeps, SweepUpdate(w) PROVE payment'[o] = "APPROVED"
  <2>1. o \notin sweeps[w].batch
    BY <1>1 DEF Guarded, Open, SweepHolds
  <2> QED
    BY <1>1, <1>4, <2>1 DEF SweepUpdate, Write
<1>5. ASSUME NEW c \in Calls, NEW p \in Orders, Request(c, p) PROVE UNCHANGED payment
  BY <1>5 DEF Request, ConfirmYape, FailYape, ExpireYape, RetryYape, CreateCharge, CulqiWebhook,
              Begin, dbVars
<1>6. ASSUME NEW c \in Calls, Continue(c) \/ PublishFails(c), ~Update(c) PROVE UNCHANGED payment
  BY <1>6 DEF Continue, ChargeAnswered, ChargeErrored, Publish, PublishFails, dbVars
<1>7. ASSUME NEW w \in Sweeps, Sweep(w) \/ SweepPublishFails(w), ~SweepUpdate(w)
      PROVE  UNCHANGED payment
  BY <1>7 DEF Sweep, SweepRead, SweepPublish, SweepPublishFails, dbVars
<1>8. ASSUME \/ Crash
             \/ \E p \in Orders : OrderCreated(p) \/ ProcessPublishFails(p) \/ Age(p)
      PROVE  UNCHANGED payment
  BY <1>8 DEF Crash, OrderCreated, ProcessPublishFails, Age, dbVars
<1> QED
  BY <1>2, <1>3, <1>4, <1>5, <1>6, <1>7, <1>8 DEF Next

=============================================================================
