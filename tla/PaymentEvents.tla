--------------------------- MODULE PaymentEvents ---------------------------
(***************************************************************************)
(* The payment webhook: process_webhook, apply_event, sync_subscription    *)
(* and record_invoice_payment (src/src/payments/mod.rs), fed by the events *)
(* that verify_and_normalize (src/src/payments/stripe.rs) makes of a       *)
(* verified delivery.  One account, its customer and its subscription at   *)
(* one provider.                                                           *)
(*                                                                         *)
(* The provider is external.  It numbers its events in the order in which  *)
(* they happened, and delivers each until it is answered with success,     *)
(* perhaps again after that, in any order.  Every delivery is a request    *)
(* whose statements interleave with those of the others.                   *)
(***************************************************************************)
EXTENDS Integers

CONSTANTS
    Request,        \* deliveries that may be handled together
    Price,          \* external prices, each in a currency of its own
    Payment,        \* external payment identifiers
    Status,         \* subscription statuses the provider reports
    None,           \* stands for no value
    MaxEvents,      \* bound: events the provider emits
    MaxFailures     \* bound: failed statements, stopped workers, lost answers

ASSUME Bounds == MaxEvents \in Nat \ {0} /\ MaxFailures \in Nat

ASSUME StatusAssumption == {"active", "past_due"} \subseteq Status
                             /\ "none" \notin Status

ASSUME NoneIsNoEventValue == None \notin Price \cup Payment

VARIABLES
    log,            \* the provider's events, by number
    emitted,        \* how many there are
    acked,          \* those a delivery was answered with success
    events,         \* table payment_events: processing_status by event
    linked,         \* the billing_customers row of the account exists
    attempt,        \* status of the account's checkout_attempts row
    priced,         \* external prices with a row in plan_prices
    row,            \* the subscription's row in table subscriptions
    payments,       \* table payment_transactions: status by payment
    trail,          \* events reported in audit_events
    request,        \* the deliveries being handled
    failures,       \* failures so far
    orderly         \* every delivery so far came in order, one at a time

tables == <<linked, attempt, row, payments, trail>>

vars == <<log, emitted, acked, events, linked, attempt, priced, row,
          payments, trail, request, failures, orderly>>

Events == 1 .. MaxEvents

(* What the code keeps of an event; fields a kind does not have are None.   *)
Kinds == {"checkout", "subscription", "paid", "failed", "other"}

Content == [kind : Kinds, status : Status \cup {None},
            price : Price \cup {None}, payment : Payment \cup {None}]

Plain(kind) ==
    [kind |-> kind, status |-> None, price |-> None, payment |-> None]

(* "by" is the event whose statement wrote the row last.                    *)
SubscriptionRow == [status : Status \cup {"none"}, price : Price \cup {None},
                    by : 0 .. MaxEvents]

Steps == {"idle", "claim", "link", "attempt", "customer", "price", "sync",
          "status", "find", "exponent", "transaction", "audit", "finish",
          "fail"}

Idle == [at |-> "idle", event |-> 0]

TypeOK ==
    /\ log \in [Events -> Content]
    /\ emitted \in 0 .. MaxEvents
    /\ acked \subseteq 1 .. emitted
    /\ events \in [Events -> {"none", "processing", "processed", "ignored",
                              "failed"}]
    /\ linked \in BOOLEAN
    /\ attempt \in {"none", "created", "completed"}
    /\ priced \subseteq Price
    /\ row \in SubscriptionRow
    /\ payments \in [Payment -> {"none", "succeeded", "failed"}]
    /\ trail \subseteq Events
    /\ request \in [Request -> [at : Steps, event : 0 .. MaxEvents]]
    /\ \A r \in Request : request[r] = Idle \/ request[r].event \in 1 .. emitted
    /\ failures \in 0 .. MaxFailures
    /\ orderly \in BOOLEAN

Init ==
    /\ log = [n \in Events |-> Plain("other")]
    /\ emitted = 0
    /\ acked = {}
    /\ events = [n \in Events |-> "none"]
    /\ linked \in BOOLEAN
    /\ attempt \in {"none", "created"}
    /\ priced \in SUBSET Price
    /\ row = [status |-> "none", price |-> None, by |-> 0]
    /\ payments = [p \in Payment |-> "none"]
    /\ trail = {}
    /\ request = [r \in Request |-> Idle]
    /\ failures = 0
    /\ orderly = TRUE

-----------------------------------------------------------------------------
(* The provider and the owner.                                              *)

Happened(kinds) == \E n \in 1 .. emitted : log[n].kind \in kinds

(* A subscription belongs to a customer whom the service created or a       *)
(* completed checkout made known; it ends with its cancellation, its        *)
(* invoices come after it and are paid at most once.                        *)
CanHappen(c) ==
    CASE c.kind = "checkout" ->
           c = Plain("checkout") /\ ~Happened({"checkout"})
      [] c.kind = "subscription" ->
           /\ c.status # None /\ c.price # None /\ c.payment = None
           /\ linked \/ Happened({"checkout"})
           /\ \A n \in 1 .. emitted : log[n].status # "cancelled"
      [] c.kind \in {"paid", "failed"} ->
           /\ c.status = None /\ c.price # None /\ c.payment # None
           /\ Happened({"subscription"})
           /\ \A n \in 1 .. emitted :
                ~(log[n].kind = "paid" /\ log[n].payment = c.payment)
      [] OTHER -> c = Plain("other")

Emit ==
    /\ emitted < MaxEvents
    /\ \E c \in Content :
         /\ CanHappen(c)
         /\ log' = [log EXCEPT ![emitted + 1] = c]
    /\ emitted' = emitted + 1
    /\ UNCHANGED <<acked, events, tables, priced, request, failures, orderly>>

(* The owner maps an external price to a plan.  The request that does so is *)
(* in OwnerOperations, with the report it ends with.                        *)
CreatePlanPrice(p) ==
    /\ p \notin priced
    /\ priced' = priced \cup {p}
    /\ UNCHANGED <<log, emitted, acked, events, tables, request, failures,
                   orderly>>

-----------------------------------------------------------------------------
(* The statements.  Those named Faulty are not used by the specification:   *)
(* they are mistakes the properties below are checked to detect.            *)

(* The check for a duplicate reads the status once, at the start.           *)
FaultyNeverDuplicate(e) == FALSE
FaultyDuplicateOnceSeen(e) == events[e] # "none"
Duplicate(e) == events[e] \in {"processed", "ignored"}

(* INSERT ... ON CONFLICT DO UPDATE SET processing_status = 'processing'    *)
FaultyUnclaimed(e) == events
Claimed(e) == [events EXCEPT ![e] = "processing"]

(* UPDATE payment_events SET processing_status = ... of an existing row.    *)
Marked(e, status) ==
    [events EXCEPT ![e] = IF @ = "none" THEN @ ELSE status]

FaultyFailure(e) == Marked(e, "processed")
Failure(e) == Marked(e, "failed")

Success(e) ==
    Marked(e, IF log[e].kind = "other" THEN "ignored" ELSE "processed")

(* INSERT ... ON CONFLICT DO UPDATE of every column of the subscription.    *)
FaultyInsertedOnly(e) ==
    IF row.status = "none"
      THEN [status |-> log[e].status, price |-> log[e].price, by |-> e]
      ELSE row
FaultySwapped(e) ==
    [status |-> log[e].price, price |-> log[e].status, by |-> e]
Synced(e) == [status |-> log[e].status, price |-> log[e].price, by |-> e]

(* INSERT ... ON CONFLICT DO UPDATE of the customer's row.                  *)
FaultyLinked == linked
Linked == TRUE

InvoiceStatus(e) == IF log[e].kind = "paid" THEN "active" ELSE "past_due"

-----------------------------------------------------------------------------
(* Helpers of the actions.                                                  *)

MoveTo(r, step) == request' = [request EXCEPT ![r].at = step]

End(r) == request' = [request EXCEPT ![r] = Idle]

At(r, step) == request[r].at = step

(* Untouched by the handling of a delivery.                                 *)
Outside == <<log, emitted, priced, orderly>>

CanFail == failures < MaxFailures

Failed == CanFail /\ failures' = failures + 1

(* The answer reaches the provider, or is lost.                             *)
Answer(e) ==
    \/ acked' = acked \cup {e} /\ UNCHANGED failures
    \/ UNCHANGED acked /\ Failed

-----------------------------------------------------------------------------
(* process_webhook, up to the event's row.                                  *)

(* A delivery is in turn when none is under way and every earlier event has *)
(* been answered.                                                           *)
InTurn(e) ==
    /\ \A r \in Request : request[r] = Idle
    /\ \A n \in 1 .. e - 1 : n \in acked

(* A verified delivery reads the event's row; a duplicate is answered.      *)
Deliver(r, e) ==
    /\ request[r] = Idle
    /\ e <= emitted
    /\ orderly' = (orderly /\ InTurn(e))
    /\ IF Duplicate(e)
         THEN Answer(e) /\ UNCHANGED request
         ELSE /\ request' = [request EXCEPT ![r] = [at |-> "claim", event |-> e]]
              /\ UNCHANGED <<acked, failures>>
    /\ UNCHANGED <<log, emitted, priced, events, tables>>

(* The upsert of the row, whatever its status has become since.             *)
Claim(r) ==
    LET e == request[r].event IN
    /\ At(r, "claim")
    /\ events' = Claimed(e)
    /\ MoveTo(r, CASE log[e].kind = "checkout" -> "link"
                   [] log[e].kind = "subscription" -> "customer"
                   [] log[e].kind \in {"paid", "failed"} -> "status"
                   [] OTHER -> "finish")
    /\ UNCHANGED <<Outside, tables, acked, failures>>

-----------------------------------------------------------------------------
(* apply_event: a checkout.                                                 *)

LinkCustomer(r) ==
    /\ At(r, "link")
    /\ linked' = Linked
    /\ MoveTo(r, "attempt")
    /\ UNCHANGED <<Outside, events, attempt, row, payments, trail, acked,
                   failures>>

(* The UPDATE of checkout_attempts may find no row.                         *)
CompleteAttempt(r) ==
    /\ At(r, "attempt")
    /\ attempt' = IF attempt = "none" THEN "none" ELSE "completed"
    /\ MoveTo(r, "audit")
    /\ UNCHANGED <<Outside, events, linked, row, payments, trail, acked,
                   failures>>

-----------------------------------------------------------------------------
(* sync_subscription: two rows are looked up, then the row is written.      *)

FindCustomer(r) ==
    /\ At(r, "customer")
    /\ MoveTo(r, IF linked THEN "price" ELSE "fail")
    /\ UNCHANGED <<Outside, events, tables, acked, failures>>

FindPrice(r) ==
    /\ At(r, "price")
    /\ MoveTo(r, IF log[request[r].event].price \in priced THEN "sync"
                 ELSE "fail")
    /\ UNCHANGED <<Outside, events, tables, acked, failures>>

SyncSubscription(r) ==
    /\ At(r, "sync")
    /\ row' = Synced(request[r].event)
    /\ MoveTo(r, "audit")
    /\ UNCHANGED <<Outside, events, linked, attempt, payments, trail, acked,
                   failures>>

-----------------------------------------------------------------------------
(* An invoice: the status of the subscription is written first, wherever    *)
(* the row is; then record_invoice_payment looks for it.                    *)

SetStatus(r) ==
    LET e == request[r].event IN
    /\ At(r, "status")
    /\ row' = IF row.status = "none" THEN row
              ELSE [row EXCEPT !.status = InvoiceStatus(e), !.by = e]
    /\ MoveTo(r, "find")
    /\ UNCHANGED <<Outside, events, linked, attempt, payments, trail, acked,
                   failures>>

FindSubscription(r) ==
    /\ At(r, "find")
    /\ MoveTo(r, IF row.status = "none" THEN "fail"
                 ELSE IF row.price = log[request[r].event].price
                        THEN "transaction"
                        ELSE "exponent")
    /\ UNCHANGED <<Outside, events, tables, acked, failures>>

(* A payment in another currency needs that currency's price.               *)
FindExponent(r) ==
    /\ At(r, "exponent")
    /\ MoveTo(r, IF log[request[r].event].price \in priced THEN "transaction"
                 ELSE "fail")
    /\ UNCHANGED <<Outside, events, tables, acked, failures>>

RecordTransaction(r) ==
    LET e == request[r].event IN
    /\ At(r, "transaction")
    /\ payments' = [payments EXCEPT ![log[e].payment] =
                      IF log[e].kind = "paid" THEN "succeeded" ELSE "failed"]
    /\ MoveTo(r, "audit")
    /\ UNCHANGED <<Outside, events, linked, attempt, row, trail, acked,
                   failures>>

-----------------------------------------------------------------------------
(* The end of apply_event and of process_webhook.                           *)

Audit(r) ==
    /\ At(r, "audit")
    /\ trail' = trail \cup {request[r].event}
    /\ MoveTo(r, "finish")
    /\ UNCHANGED <<Outside, events, linked, attempt, row, payments, acked,
                   failures>>

Finish(r) ==
    LET e == request[r].event IN
    /\ At(r, "finish")
    /\ events' = Success(e)
    /\ Answer(e)
    /\ End(r)
    /\ UNCHANGED <<Outside, tables>>

(* The error is stored and answered: the provider will deliver again.       *)
Reject(r) ==
    /\ At(r, "fail")
    /\ events' = Failure(request[r].event)
    /\ End(r)
    /\ UNCHANGED <<Outside, tables, acked, failures>>

(* A statement of apply_event fails.                                        *)
StatementFails(r) ==
    /\ request[r].at \notin {"idle", "claim", "finish", "fail"}
    /\ Failed
    /\ MoveTo(r, "fail")
    /\ UNCHANGED <<Outside, events, tables, acked>>

(* The worker stops, or one of the statements around apply_event fails:     *)
(* nothing is written any more and the answer is no success.                *)
Stop(r) ==
    /\ request[r] # Idle
    /\ Failed
    /\ End(r)
    /\ UNCHANGED <<Outside, events, tables, acked>>

Handle(r) ==
    \/ Claim(r)
    \/ LinkCustomer(r)
    \/ CompleteAttempt(r)
    \/ FindCustomer(r)
    \/ FindPrice(r)
    \/ SyncSubscription(r)
    \/ SetStatus(r)
    \/ FindSubscription(r)
    \/ FindExponent(r)
    \/ RecordTransaction(r)
    \/ Audit(r)
    \/ Finish(r)
    \/ Reject(r)

Next ==
    \/ Emit
    \/ \E p \in Price : CreatePlanPrice(p)
    \/ \E r \in Request :
         \/ \E e \in Events : Deliver(r, e)
         \/ Handle(r)
         \/ StatementFails(r)
         \/ Stop(r)

Spec == Init /\ [][Next]_vars

(* A statement that was sent completes; an event that was not answered is   *)
(* delivered again and again.  Nothing obliges the provider to emit, or the *)
(* owner to map a price.                                                    *)
Redeliver(e) == e \notin acked /\ \E r \in Request : Deliver(r, e)

Fairness ==
    /\ \A r \in Request : WF_vars(Handle(r))
    /\ \A e \in Events : SF_vars(Redeliver(e))

FairSpec == Spec /\ Fairness

-----------------------------------------------------------------------------
(* Properties.                                                              *)

Settled(e) == events[e] \in {"processed", "ignored"}

(* What an event reported in the trail has left in the tables.              *)
Applied(e) ==
    CASE log[e].kind = "checkout" -> linked /\ attempt # "created"
      [] log[e].kind = "subscription" -> row.status # "none"
      [] log[e].kind \in {"paid", "failed"} ->
           payments[log[e].payment] # "none"
      [] OTHER -> FALSE

(* No event is lost: one that is processed, or that the provider was told   *)
(* to forget, has been applied and audited, however its deliveries failed,  *)
(* crashed or overlapped; an event is ignored only for its kind.            *)
SettledIsRecorded ==
    /\ \A e \in trail : Applied(e)
    /\ \A e \in Events :
         /\ events[e] = "processed" => e \in trail
         /\ events[e] = "ignored" => log[e].kind = "other"
         /\ e \in acked => e \in trail \/ log[e].kind = "other"

(* Whatever the subscription says was said by one logged event: the status  *)
(* in the row is that event's, and the event is in payment_events.          *)
StatusHasItsEvent ==
    row.by # 0 =>
        /\ events[row.by] # "none"
        /\ row.status = IF log[row.by].kind = "subscription"
                          THEN log[row.by].status
                          ELSE InvoiceStatus(row.by)

(* An event that is settled and that no request is handling is done with:   *)
(* no later delivery of it is handled, reopens it or touches the            *)
(* subscription.                                                            *)
DoneWith(e) == Settled(e) /\ \A r \in Request : request[r].event # e

DoneStep ==
    \A e \in Events : DoneWith(e) =>
        DoneWith(e)' /\ (row' # row => row'.by # e)

DoneIsFinal == [][DoneStep]_vars

(* Deliveries in order and one at a time leave the subscription with the    *)
(* status of the last event that speaks of one, through every failure and   *)
(* every retry.                                                             *)
SpeaksOfStatus(n) == log[n].kind \in {"subscription", "paid", "failed"}

FollowsLog ==
    orderly => \A n \in acked :
        (SpeaksOfStatus(n) /\ \A k \in n + 1 .. emitted : ~SpeaksOfStatus(k))
            => row.by = n

(* "idempotently processed" (src/docs/payment-architecture.md): an event    *)
(* that was processed changes the subscription no more.  Refuted: a second  *)
(* delivery that looked before the first had finished writes the row again, *)
(* after later events.                                                      *)
ProcessedEventChangesNothing ==
    [][\A e \in Events :
         events[e] = "processed" /\ row' # row => row'.by # e]_vars

(* No event is stuck: once the prices are mapped, a delivery of each event  *)
(* is answered with success, even of one that overtakes the event it        *)
(* depends on.  (Its row need not stay settled: an overlapping delivery may *)
(* reopen it and stop, and the provider has been told to forget it.)        *)
EveryEventIsAnswered ==
    \A e \in Events : (e <= emitted /\ priced = Price) ~> e \in acked

-----------------------------------------------------------------------------
(* The abstract specification this module implements.                       *)

Inbox == INSTANCE EventInbox WITH
    Delivery <- Request,
    handling <- [r \in Request |-> request[r].event],
    known    <- {e \in Events : events[e] # "none"},
    settled  <- {e \in Events : Settled(e)},
    answered <- acked,
    shown    <- row,
    left     <- {e \in 1 .. emitted : Applied(e)}

(* However deliveries overlap, fail, stop and repeat, the tables are an     *)
(* inbox: no settled event is taken up again, the subscription changes only *)
(* to what a claimed event under way says of it, and what is processed or   *)
(* answered was applied and reported, which it stays.                       *)
ImplementsInbox == Inbox!Spec

=============================================================================
