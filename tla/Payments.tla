------------------------------ MODULE Payments ------------------------------
(***************************************************************************)
(* The payments service: one payments row per order, the handlers that     *)
(* read it, decide, and later write it back unconditionally, the sweep     *)
(* that expires pending YAPE payments, and the events they publish.        *)
(*                                                                         *)
(* A handler takes no lock between findByOrderId and update, so its read,  *)
(* its call to the Culqi gateway, its write and its publication are steps  *)
(* of their own.  A call that the guards refuse changes nothing and is not *)
(* a step.  processed_at is abstracted to whether the row is older than    *)
(* the TTL of pending payments.                                            *)
(***************************************************************************)
EXTENDS Integers, FiniteSets

CONSTANTS Orders,     \* order ids
          Method,     \* the payment method of each order
          Calls,      \* requests to the payment handlers, each made once
          Sweeps,     \* runs of the expiration sweep that can overlap
          MaxFaults   \* bound on crashes and failed publications

ASSUME PaymentsAssumption ==
  /\ Method \in [Orders -> {"AUTO", "YAPE"}]
  /\ MaxFaults \in Nat

VARIABLES
  payment,    \* status of the payments row of each order, or "NONE"
  due,        \* orders whose row is older than the TTL
  inbox,      \* order.created of each order: where its consumer is
  calls,      \* the requests and what they hold in memory
  sweeps,     \* orders each sweep still has to expire, and to announce
  published,  \* pairs <<order, outcome>> that reached Kafka
  lost,       \* history: outcomes written whose publication never happened
  raced,      \* history: orders a handler read while another held their row
  notified,   \* history: orders that a notification of Culqi was let in for
  revived,    \* history: orders let back in after they had FAILED or EXPIRED
  faults      \* number of crashes and failed publications so far

dbVars == <<payment, due>>
taints == <<raced, notified, revived>>
vars   == <<dbVars, inbox, calls, sweeps, published, lost, taints, faults>>

Outcomes == {"APPROVED", "FAILED", "EXPIRED"}
Closed   == {"FAILED", "EXPIRED"}
Statuses == Outcomes \cup {"NONE", "PENDING"}

Ready == [step |-> "ready"]
Done  == [step |-> "done"]
InGateway(o)  == [step |-> "gateway", order |-> o]
ToWrite(o, s) == [step |-> "update", order |-> o, write |-> s]
Idle == [batch |-> {}, announce |-> {}]

Init ==
  /\ payment = [o \in Orders |-> "NONE"]
  /\ due = {}
  /\ inbox = [o \in Orders |-> "none"]
  /\ calls = [c \in Calls |-> Ready]
  /\ sweeps = [w \in Sweeps |-> Idle]
  /\ published = {}
  /\ lost = {}
  /\ raced = {} /\ notified = {} /\ revived = {}
  /\ faults = 0

-----------------------------------------------------------------------------
(* The repository.                                                         *)

\* save and update stamp processed_at, so the row is no longer due.
Write(o, s) ==
  /\ payment' = [payment EXCEPT ![o] = s]
  /\ due' = due \ {o}

\* The row's processed_at falls behind the cutoff.
Age(o) ==
  /\ payment[o] = "PENDING" /\ o \notin due
  /\ due' = due \cup {o}
  /\ UNCHANGED <<payment, inbox, calls, sweeps, published, lost, faults, taints>>

-----------------------------------------------------------------------------
(* order.created: ProcessPaymentUseCase.                                   *)

FirstStatus(o) == IF Method[o] = "YAPE" THEN "PENDING" ELSE "APPROVED"

OrderCreated(o) ==
  /\ inbox[o] = "none"
  /\ inbox' = [inbox EXCEPT ![o] = "waiting"]
  /\ UNCHANGED <<dbVars, calls, sweeps, published, lost, faults, taints>>

ProcessRead(o) ==
  /\ inbox[o] = "waiting"
  /\ inbox' = [inbox EXCEPT ![o] = IF payment[o] = "NONE" THEN "save" ELSE "acked"]
  /\ UNCHANGED <<dbVars, calls, sweeps, published, lost, faults, taints>>

ProcessSave(o) ==
  LET saved == IF payment[o] = "NONE" THEN FirstStatus(o) ELSE payment[o] IN
  /\ inbox[o] = "save"
  /\ IF payment[o] = "NONE" THEN Write(o, saved) ELSE UNCHANGED dbVars
  /\ inbox' = [inbox EXCEPT ![o] = IF saved = "APPROVED" THEN "publish" ELSE "acked"]
  /\ UNCHANGED <<calls, sweeps, published, lost, faults, taints>>

ProcessPublish(o) ==
  /\ inbox[o] = "publish"
  /\ published' = published \cup {<<o, "APPROVED">>}
  /\ inbox' = [inbox EXCEPT ![o] = "acked"]
  /\ UNCHANGED <<dbVars, calls, sweeps, lost, faults, taints>>

Process(o) == ProcessRead(o) \/ ProcessSave(o) \/ ProcessPublish(o)

-----------------------------------------------------------------------------
(* Requests.  The first step of each reads the row and passes the guards.  *)

Yape(o) == Method[o] = "YAPE"

\* A handler or a sweep has read the order's row and will write it back.
RowHeld(o) ==
  \/ \E c \in Calls : calls[c].step \in {"gateway", "update"} /\ calls[c].order = o
  \/ \E w \in Sweeps : o \in sweeps[w].batch

Begin(c, o, task) ==
  /\ calls[c] = Ready
  /\ calls' = [calls EXCEPT ![c] = task]
  /\ raced' = IF RowHeld(o) THEN raced \cup {o} ELSE raced
  /\ revived' = IF payment[o] \in Closed /\ task \notin {ToWrite(o, s) : s \in Closed}
                  THEN revived \cup {o} ELSE revived
  /\ UNCHANGED <<dbVars, inbox, sweeps, published, lost, faults>>

ConfirmYape(c, o) ==
  /\ Yape(o) /\ payment[o] = "PENDING"
  /\ Begin(c, o, ToWrite(o, "APPROVED"))
  /\ UNCHANGED notified

Mutant_FailYape(c, o) ==
  /\ Yape(o) /\ payment[o] \notin {"NONE", "FAILED"}
  /\ Begin(c, o, ToWrite(o, "FAILED"))
  /\ UNCHANGED notified
FailYape(c, o) ==
  /\ Yape(o) /\ payment[o] \in {"PENDING", "EXPIRED"}
  /\ Begin(c, o, ToWrite(o, "FAILED"))
  /\ UNCHANGED notified

ExpireYape(c, o) ==
  /\ Yape(o) /\ payment[o] \in {"PENDING", "FAILED"}
  /\ Begin(c, o, ToWrite(o, "EXPIRED"))
  /\ UNCHANGED notified

RetryYape(c, o) ==
  /\ Yape(o) /\ payment[o] \in {"PENDING", "FAILED", "EXPIRED"}
  /\ Begin(c, o, ToWrite(o, "PENDING"))
  /\ UNCHANGED notified

CreateCharge(c, o) ==
  /\ Yape(o) /\ payment[o] \in {"PENDING", "FAILED", "EXPIRED"}
  /\ Begin(c, o, InGateway(o))
  /\ UNCHANGED notified

\* Culqi answers that the charge was paid, or that it waits for the customer.
ChargeAnswered(c) ==
  /\ calls[c].step = "gateway"
  /\ \E s \in {"APPROVED", "PENDING"} :
       calls' = [calls EXCEPT ![c] = ToWrite(calls[c].order, s)]
  /\ UNCHANGED <<dbVars, inbox, sweeps, published, lost, faults, taints>>

\* The gateway call threw: the request ends with an error.
ChargeErrored(c) ==
  /\ calls[c].step = "gateway"
  /\ calls' = [calls EXCEPT ![c] = Done]
  /\ UNCHANGED <<dbVars, inbox, sweeps, published, lost, faults, taints>>

\* A signed notification with an outcome, for an order that has a payment.
CulqiWebhook(c, o) ==
  /\ payment[o] # "NONE"
  /\ \E s \in Outcomes : Begin(c, o, ToWrite(o, s))
  /\ notified' = notified \cup {o}

\* The write-back, whatever the row has become; no event announces PENDING.
Mutant_Update(c) ==
  /\ calls[c].step = "update"
  /\ Write(calls[c].order, calls[c].write)
  /\ calls' = [calls EXCEPT ![c] =
                 IF calls[c].write = "APPROVED" THEN [@ EXCEPT !.step = "publish"] ELSE Done]
  /\ UNCHANGED <<inbox, sweeps, published, lost, faults, taints>>
Update(c) ==
  /\ calls[c].step = "update"
  /\ Write(calls[c].order, calls[c].write)
  /\ calls' = [calls EXCEPT ![c] =
                 IF calls[c].write \in Outcomes THEN [@ EXCEPT !.step = "publish"] ELSE Done]
  /\ UNCHANGED <<inbox, sweeps, published, lost, faults, taints>>

Publish(c) ==
  /\ calls[c].step = "publish"
  /\ published' = published \cup {<<calls[c].order, calls[c].write>>}
  /\ calls' = [calls EXCEPT ![c] = Done]
  /\ UNCHANGED <<dbVars, inbox, sweeps, lost, faults, taints>>

Request(c, o) ==
  \/ ConfirmYape(c, o) \/ FailYape(c, o) \/ ExpireYape(c, o) \/ RetryYape(c, o)
  \/ CreateCharge(c, o) \/ CulqiWebhook(c, o)

Continue(c) == ChargeAnswered(c) \/ ChargeErrored(c) \/ Update(c) \/ Publish(c)

-----------------------------------------------------------------------------
(* The sweep of the expiration worker.                                     *)

\* findPendingYapeBefore
Overdue == {o \in due : Yape(o) /\ payment[o] = "PENDING"}

SweepRead(w) ==
  /\ sweeps[w] = Idle
  /\ Overdue # {}
  /\ sweeps' = [sweeps EXCEPT ![w].batch = Overdue]
  /\ raced' = raced \cup {o \in Overdue : RowHeld(o)}
  /\ UNCHANGED <<dbVars, inbox, calls, published, lost, notified, revived, faults>>

Mutant_SweepUpdate(w) ==
  /\ sweeps[w].announce = {}
  /\ \E o \in sweeps[w].batch :
       sweeps' = [sweeps EXCEPT ![w] = [batch |-> @.batch \ {o}, announce |-> {o}]]
  /\ UNCHANGED <<dbVars, inbox, calls, published, lost, faults, taints>>
SweepUpdate(w) ==
  /\ sweeps[w].announce = {}
  /\ \E o \in sweeps[w].batch :
       /\ Write(o, "EXPIRED")
       /\ sweeps' = [sweeps EXCEPT ![w] = [batch |-> @.batch \ {o}, announce |-> {o}]]
  /\ UNCHANGED <<inbox, calls, published, lost, faults, taints>>

SweepPublish(w) ==
  /\ sweeps[w].announce # {}
  /\ published' = published \cup (sweeps[w].announce \X {"EXPIRED"})
  /\ sweeps' = [sweeps EXCEPT ![w].announce = {}]
  /\ UNCHANGED <<dbVars, inbox, calls, lost, faults, taints>>

Sweep(w) == SweepRead(w) \/ SweepUpdate(w) \/ SweepPublish(w)

-----------------------------------------------------------------------------
(* Kafka refuses a publication, or the process dies.                       *)

Fault == faults < MaxFaults /\ faults' = faults + 1

\* The caller of the request gets an error; the row stays as written.
PublishFails(c) ==
  /\ calls[c].step = "publish"
  /\ Fault
  /\ lost' = lost \cup {<<calls[c].order, calls[c].write>>}
  /\ calls' = [calls EXCEPT ![c] = Done]
  /\ UNCHANGED <<dbVars, inbox, sweeps, published, taints>>

\* The error ends the sweep: the rest of its batch waits for the next one.
SweepPublishFails(w) ==
  /\ sweeps[w].announce # {}
  /\ Fault
  /\ lost' = lost \cup (sweeps[w].announce \X {"EXPIRED"})
  /\ sweeps' = [sweeps EXCEPT ![w] = Idle]
  /\ UNCHANGED <<dbVars, inbox, calls, published, taints>>

\* The consumer throws, so the message is delivered again.
ProcessPublishFails(o) ==
  /\ inbox[o] = "publish"
  /\ Fault
  /\ lost' = lost \cup {<<o, "APPROVED">>}
  /\ inbox' = [inbox EXCEPT ![o] = "waiting"]
  /\ UNCHANGED <<dbVars, calls, sweeps, published, taints>>

\* The outcomes written whose publication is still to come.
InFlight ==
  {<<calls[c].order, calls[c].write>> : c \in {d \in Calls : calls[d].step = "publish"}}
    \cup (UNION {sweeps[w].announce \X {"EXPIRED"} : w \in Sweeps})
    \cup {<<o, "APPROVED">> : o \in {p \in Orders : inbox[p] = "publish"}}

\* The process restarts: what it held in memory is gone, the messages it had
\* not acknowledged come again, and so may some that it had.
Crash ==
  /\ Fault
  /\ lost' = lost \cup InFlight
  /\ calls' = [c \in Calls |-> IF calls[c] = Ready THEN Ready ELSE Done]
  /\ sweeps' = [w \in Sweeps |-> Idle]
  /\ \E again \in SUBSET {o \in Orders : inbox[o] = "acked"} :
       inbox' = [o \in Orders |->
                   IF o \in again \/ inbox[o] \in {"save", "publish"} THEN "waiting"
                                                                     ELSE inbox[o]]
  /\ UNCHANGED <<dbVars, published, taints>>

Next ==
  \/ \E o \in Orders : OrderCreated(o) \/ Process(o) \/ ProcessPublishFails(o) \/ Age(o)
  \/ \E c \in Calls, o \in Orders : Request(c, o)
  \/ \E c \in Calls : Continue(c) \/ PublishFails(c)
  \/ \E w \in Sweeps : Sweep(w) \/ SweepPublishFails(w)
  \/ Crash

Spec == Init /\ [][Next]_vars

\* A handler that began goes on, the consumer polls, time passes, and the
\* worker's interval timer keeps starting the sweep.
Fairness ==
  /\ \A o \in Orders : WF_vars(Process(o)) /\ WF_vars(Age(o))
  /\ \A c \in Calls : WF_vars(Continue(c))
  /\ \A w \in Sweeps : WF_vars(Sweep(w))

FairSpec == Spec /\ Fairness

-----------------------------------------------------------------------------
(* Properties.                                                             *)

\* An outcome in the database is never silent: its event was published, is
\* about to be, or was lost in a crash or a failed publication, however the
\* handlers, the sweep and the consumer interleave.
OutcomeAnnounced ==
  \A o \in Orders :
    payment[o] \in Outcomes => <<o, payment[o]>> \in published \cup lost \cup InFlight

\* The status guards suffice as long as no handler reads the row while another
\* holds it and no notification, which is not guarded, came: once stock and
\* shipping were told that an order is paid, its payment stays APPROVED.
ApprovalStands ==
  \A o \in Orders \ (raced \cup notified) :
    <<o, "APPROVED">> \in published => payment[o] = "APPROVED"

\* A YAPE payment does not stay pending for ever, whatever the customer does
\* and does not do: the sweep expires it if nothing else settles it.
PendingResolved ==
  \A o \in Orders : payment[o] = "PENDING" ~> payment[o] # "PENDING"

=============================================================================
