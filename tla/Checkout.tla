------------------------------ MODULE Checkout ------------------------------
(***************************************************************************)
(* Starting a checkout (create_checkout, src/src/payments/mod.rs) and      *)
(* learning of its completion (apply_event), around the provider's two     *)
(* objects that the service creates with an idempotency key: the customer  *)
(* of an account and the checkout session of a click.                      *)
(*                                                                         *)
(* The provider is external.  It answers a repeated key with the object it *)
(* made for that key, refuses a key that comes with other parameters, and  *)
(* forgets keys after a while.  The key of a customer is reused whenever   *)
(* the account has no customer; the key of a session belongs to one click  *)
(* and is not used after it was forgotten.                                 *)
(***************************************************************************)
EXTENDS Integers, FiniteSets

CONSTANTS
    Account,        \* customer accounts
    Key,            \* idempotency keys, one for each click on a price
    Request,        \* requests handled together
    None,           \* stands for no value
    MaxCustomers,   \* bound: customers the provider creates
    MaxTrial,       \* bound: trial days of the plan
    MaxFailures     \* bound: failed statements, stopped workers, lost answers

ASSUME CheckoutBounds == /\ MaxCustomers \in Nat
                         /\ MaxTrial \in Nat
                         /\ MaxFailures \in Nat

VARIABLES
    buyer,          \* the account each key is used for
    trial,          \* trial days of the plan, as the owner last set them
    made,           \* customers made at the provider so far
    remembered,     \* provider: the customer made for an account's key
    session,        \* provider: the session made for a key
    customers,      \* table billing_customers: external customer by account
    attempts,       \* table checkout_attempts: status by key
    started,        \* keys in audit_events as checkout.started
    completed,      \* keys in audit_events as checkout.completed
    opened,         \* keys whose session's address reached the browser
    paid,           \* keys whose session was completed at the provider
    processed,      \* keys whose completion event is processed
    request,        \* the requests in flight
    failures        \* failures so far

provider == <<made, remembered, session>>
tables == <<customers, attempts, started, completed, processed>>

vars == <<buyer, trial, provider, tables, opened, paid, request, failures>>

(* A customer is a number; 0 is none.                                       *)
Customer == 1 .. MaxCustomers
MaybeCustomer == 0 .. MaxCustomers

Trial == 0 .. MaxTrial

Session == [customer : Customer, trial : Trial]

ASSUME NoneIsNoObject == None \notin Key \cup Session

Steps == {"idle", "customer", "create", "insert", "session", "store", "audit",
          "link", "complete", "report", "finish"}

RequestState == [at : Steps, key : Key \cup {None}, customer : MaybeCustomer,
                 trial : Trial]

Idle == [at |-> "idle", key |-> None, customer |-> 0, trial |-> 0]

TypeOK ==
    /\ buyer \in [Key -> Account]
    /\ trial \in Trial
    /\ made \in MaybeCustomer
    /\ remembered \in [Account -> 0 .. made]
    /\ session \in [Key -> Session \cup {None}]
    /\ customers \in [Account -> 0 .. made]
    /\ attempts \in [Key -> {"none", "created", "completed"}]
    /\ started \subseteq Key
    /\ completed \subseteq Key
    /\ opened \subseteq Key
    /\ paid \subseteq opened
    /\ processed \subseteq paid
    /\ request \in [Request -> RequestState]
    /\ \A r \in Request : request[r] = Idle \/ request[r].key \in Key
    /\ failures \in 0 .. MaxFailures

Init ==
    /\ buyer \in [Key -> Account]
    /\ trial \in Trial
    /\ made = 0
    /\ remembered = [a \in Account |-> 0]
    /\ session = [k \in Key |-> None]
    /\ customers = [a \in Account |-> 0]
    /\ attempts = [k \in Key |-> "none"]
    /\ started = {}
    /\ completed = {}
    /\ opened = {}
    /\ paid = {}
    /\ processed = {}
    /\ request = [r \in Request |-> Idle]
    /\ failures = 0

-----------------------------------------------------------------------------
(* Helpers.  Those named Faulty are not used by the specification: they are *)
(* mistakes the properties below are checked to detect.                     *)

At(r, step) == request[r].at = step

MoveTo(r, step) == request' = [request EXCEPT ![r].at = step]

End(r) == request' = [request EXCEPT ![r] = Idle]

BuyerOf(r) == buyer[request[r].key]

Failed == failures < MaxFailures /\ failures' = failures + 1

(* A customer is made for an account that has none.                         *)
FaultyAfterLookup(c) == "session"
FaultyAlwaysCreate(c) == "create"
AfterLookup(c) == IF c = 0 THEN "create" ELSE "session"

(* INSERT INTO billing_customers, whose index over account and provider     *)
(* refuses a second row.                                                    *)
FaultyFree(a) == TRUE
Free(a) == customers[a] = 0

(* The refused statement is an error.                                       *)
FaultyRejected(a) == FALSE
Rejected(a) == customers[a] # 0

(* INSERT INTO checkout_attempts ... ON CONFLICT(idempotency_key) DO UPDATE *)
(* of the session, which leaves the status.                                 *)
FaultyReopened(k) == [attempts EXCEPT ![k] = "created"]
FaultyUpdatedOnly(k) == attempts
Stored(k) == [attempts EXCEPT ![k] = IF @ = "none" THEN "created" ELSE @]

(* UPDATE checkout_attempts SET status = 'completed' of an existing row.    *)
Completed(k) ==
    [attempts EXCEPT ![k] = IF @ = "none" THEN "none" ELSE "completed"]

(* INSERT INTO billing_customers ... ON CONFLICT(account_id, provider)      *)
(* DO UPDATE of the customer, with the customer the event carries.          *)
Linked(k) == [customers EXCEPT ![buyer[k]] = session[k].customer]

(* The provider answers a known key with the object it made, if the         *)
(* parameters are those it was made with.                                   *)
Same(s, c, t) ==
    s = None \/ s = [customer |-> c, trial |-> t]

-----------------------------------------------------------------------------
(* create_checkout.                                                         *)

(* The account is looked up, which no code ever closes, then an active      *)
(* price of an active plan, whose trial is kept: a click on any other is    *)
(* answered with an error and starts nothing.                               *)
Start(r, k) ==
    /\ request[r] = Idle
    /\ request' = [request EXCEPT ![r] =
         [at |-> "customer", key |-> k, customer |-> 0, trial |-> trial]]
    /\ UNCHANGED <<buyer, trial, provider, tables, opened, paid, failures>>

FindCustomer(r) ==
    /\ At(r, "customer")
    /\ LET c == customers[BuyerOf(r)] IN
         request' = [request EXCEPT ![r].at = AfterLookup(c),
                                    ![r].customer = c]
    /\ UNCHANGED <<buyer, trial, provider, tables, opened, paid, failures>>

(* POST /v1/customers with the key customer-<account>.                      *)
CreateCustomer(r) ==
    LET a == BuyerOf(r) IN
    /\ At(r, "create")
    /\ IF remembered[a] = 0
         THEN /\ made < MaxCustomers
              /\ made' = made + 1
              /\ remembered' = [remembered EXCEPT ![a] = made + 1]
         ELSE UNCHANGED <<made, remembered>>
    /\ request' = [request EXCEPT ![r].at = "insert",
                                  ![r].customer = remembered'[a]]
    /\ UNCHANGED <<buyer, trial, session, tables, opened, paid, failures>>

InsertCustomer(r) ==
    LET a == BuyerOf(r) IN
    /\ At(r, "insert")
    /\ customers' = IF Free(a) THEN [customers EXCEPT ![a] = request[r].customer]
                    ELSE customers
    /\ IF Rejected(a) THEN End(r) ELSE MoveTo(r, "session")
    /\ UNCHANGED <<buyer, trial, provider, attempts, started, completed,
                   processed, opened, paid, failures>>

(* POST /v1/checkout/sessions with the request's key.  A key that comes     *)
(* with another trial than before is refused.                               *)
CreateSession(r) ==
    LET k == request[r].key
        c == request[r].customer
        t == request[r].trial
    IN
    /\ At(r, "session")
    /\ IF Same(session[k], c, t)
         THEN /\ session' = [session EXCEPT ![k] = [customer |-> c, trial |-> t]]
              /\ MoveTo(r, "store")
         ELSE End(r) /\ UNCHANGED session
    /\ UNCHANGED <<buyer, trial, made, remembered, tables, opened, paid, failures>>

StoreAttempt(r) ==
    /\ At(r, "store")
    /\ attempts' = Stored(request[r].key)
    /\ MoveTo(r, "audit")
    /\ UNCHANGED <<buyer, trial, provider, customers, started, completed,
                   processed, opened, paid, failures>>

(* The audit event, and the answer with the session's address, which may be *)
(* lost.                                                                    *)
AuditStart(r) ==
    LET k == request[r].key IN
    /\ At(r, "audit")
    /\ started' = started \cup {k}
    /\ \/ opened' = opened \cup {k} /\ UNCHANGED failures
       \/ UNCHANGED opened /\ Failed
    /\ End(r)
    /\ UNCHANGED <<buyer, trial, provider, customers, attempts, completed,
                   processed, paid>>

-----------------------------------------------------------------------------
(* The browser, the provider and the owner.                                 *)

Pay(k) ==
    /\ k \in opened \ paid
    /\ paid' = paid \cup {k}
    /\ UNCHANGED <<buyer, trial, provider, tables, opened, request, failures>>

(* The provider forgets an account's key, however long a request takes.     *)
Forget(a) ==
    /\ remembered[a] # 0
    /\ remembered' = [remembered EXCEPT ![a] = 0]
    /\ UNCHANGED <<buyer, trial, made, session, tables, opened, paid, request,
                   failures>>

(* The owner's update_plan sets the trial of the plan.                      *)
ChangeTrial ==
    /\ trial' \in Trial \ {trial}
    /\ UNCHANGED <<buyer, provider, tables, opened, paid, request, failures>>

-----------------------------------------------------------------------------
(* The completion event (module PaymentEvents has the handling of events in *)
(* general): link the customer, complete the attempt, report, mark it       *)
(* processed.                                                               *)

Deliver(r, k) ==
    /\ request[r] = Idle
    /\ k \in paid \ processed
    /\ request' = [request EXCEPT ![r] = [Idle EXCEPT !.at = "link", !.key = k]]
    /\ UNCHANGED <<buyer, trial, provider, tables, opened, paid, failures>>

LinkCustomer(r) ==
    /\ At(r, "link")
    /\ customers' = Linked(request[r].key)
    /\ MoveTo(r, "complete")
    /\ UNCHANGED <<buyer, trial, provider, attempts, started, completed,
                   processed, opened, paid, failures>>

CompleteAttempt(r) ==
    /\ At(r, "complete")
    /\ attempts' = Completed(request[r].key)
    /\ MoveTo(r, "report")
    /\ UNCHANGED <<buyer, trial, provider, customers, started, completed,
                   processed, opened, paid, failures>>

ReportCompletion(r) ==
    /\ At(r, "report")
    /\ completed' = completed \cup {request[r].key}
    /\ MoveTo(r, "finish")
    /\ UNCHANGED <<buyer, trial, provider, customers, attempts, started,
                   processed, opened, paid, failures>>

Finish(r) ==
    /\ At(r, "finish")
    /\ processed' = processed \cup {request[r].key}
    /\ End(r)
    /\ UNCHANGED <<buyer, trial, provider, customers, attempts, started,
                   completed, opened, paid, failures>>

(* A statement or a call fails, or the worker stops.                        *)
Fail(r) ==
    /\ request[r] # Idle
    /\ Failed
    /\ End(r)
    /\ UNCHANGED <<buyer, trial, provider, tables, opened, paid>>

Handle(r) ==
    \/ FindCustomer(r)
    \/ CreateCustomer(r)
    \/ InsertCustomer(r)
    \/ CreateSession(r)
    \/ StoreAttempt(r)
    \/ AuditStart(r)
    \/ LinkCustomer(r)
    \/ CompleteAttempt(r)
    \/ ReportCompletion(r)
    \/ Finish(r)

Next ==
    \/ \E r \in Request :
         \/ \E k \in Key : Start(r, k) \/ Deliver(r, k)
         \/ Handle(r)
         \/ Fail(r)
    \/ \E k \in Key : Pay(k)
    \/ \E a \in Account : Forget(a)
    \/ ChangeTrial

Spec == Init /\ [][Next]_vars

-----------------------------------------------------------------------------
(* Fairness.  A handler awaits the database and the provider only, and both *)
(* answer or fail.  A buyer who was sent to no checkout clicks again, and   *)
(* the browser draws a key for every click that no session was made with    *)
(* and no request holds.  Nothing obliges a step to fail, a buyer to pay,   *)
(* the provider to forget a key or the owner to change the trial.           *)

Answered(a) == \E k \in opened : buyer[k] = a

NewKey(k) == session[k] = None /\ \A r \in Request : request[r].key # k

ClickAgain(a) ==
    /\ ~Answered(a)
    /\ \E r \in Request, k \in Key :
         buyer[k] = a /\ NewKey(k) /\ Start(r, k)

(* Each of these steps changes the record of its request.                   *)
Fairness ==
    /\ \A r \in Request : WF_request(Handle(r))
    /\ \A a \in Account : SF_request(ClickAgain(a))

FairSpec == Spec /\ Fairness

-----------------------------------------------------------------------------
(* Properties.                                                              *)

(* Every session an account has at the provider belongs to the customer the *)
(* service knows it by, although racing or repeated first checkouts may     *)
(* make several customers: so the events of its subscription find the       *)
(* account, and its billing portal shows what it paid.                      *)
SessionsHaveTheKnownCustomer ==
    \A k \in Key : session[k] # None =>
        customers[buyer[k]] = session[k].customer

(* The customer of an account is never exchanged for another, neither by a  *)
(* late request nor by an event.                                            *)
CustomerIsKept ==
    [][\A a \in Account : customers[a] # 0 => customers'[a] = customers[a]]_vars

(* An address that reached the browser has its attempt and its audit event, *)
(* so that the payment, however quick, completes an attempt that exists.    *)
OpenedIsRecorded ==
    \A k \in opened : attempts[k] # "none" /\ k \in started

(* An attempt is completed exactly when its completion was handled, and a   *)
(* retry of the click that is stored late does not reopen it.               *)
CompletedIsPaid ==
    /\ \A k \in Key : attempts[k] = "completed" => k \in paid
    /\ \A k \in completed \cup processed : attempts[k] = "completed"
    /\ processed \subseteq completed

-----------------------------------------------------------------------------
(* The requests, the provider's keys and the failures implement purchases:  *)
(* a click goes through its stages in order and is billed to the account's  *)
(* one customer.                                                            *)
Billed == [k \in Key |-> IF session[k] = None THEN 0 ELSE session[k].customer]

Bought == INSTANCE Purchases WITH billed <- Billed

ImplementsPurchases == Bought!Spec

-----------------------------------------------------------------------------
(* Liveness.                                                                *)

(* A buyer who keeps clicking is sent to a checkout in the end, whatever    *)
(* earlier clicks that were stopped half way left behind (a customer made   *)
(* and not stored, a row without a session, a session without an attempt),  *)
(* whoever lost the race to store the customer, and however often the       *)
(* provider forgets or the trial changes: no half-done first checkout       *)
(* closes the account to the next one.  A failure may spoil one key each,   *)
(* so it takes more keys than failures.                                     *)
EveryBuyerIsAnswered ==
    \A a \in Account :
        Cardinality({k \in Key : buyer[k] = a}) > MaxFailures
            => <>Answered(a)

=============================================================================
