---------------------------- MODULE LeaseWindow ----------------------------
(***************************************************************************)
(* The dates of a license lease (issue and current_entitlement of          *)
(* src/src/licensing.rs) against the subscriptions of its account, which   *)
(* the provider's events (src/src/payments/mod.rs) and the owner           *)
(* (src/src/operations.rs) change meanwhile, and the clock, which moves    *)
(* between any two statements.                                             *)
(*                                                                         *)
(* One account: the queries name one, and its own status never changes.    *)
(* The order of the statements that number and store a lease is that of    *)
(* LeaseIssuance, the settling of an event that of PaymentEvents; here an  *)
(* event may arrive at any time and in any order.                          *)
(*                                                                         *)
(* Time is counted in instants, two to the second: the tables hold         *)
(* instants, the claims of a lease hold seconds, and SQL compares          *)
(* timestamps as text, whose order is the order of time for two instants   *)
(* of different seconds and any order within one second (clock.rs drops    *)
(* the trailing zeros of the fraction).                                    *)
(***************************************************************************)
EXTENDS Integers

CONSTANTS
    Provider,       \* subscriptions a payment provider reports
    Manual,         \* subscriptions an owner may grant
    Request,        \* requests and deliveries that may be in flight together
    PeriodEnd,      \* bound: the instants that serve as period ends
    ActiveSeconds,  \* lease_active_days
    GraceSeconds,   \* lease_grace_days
    MaxClock,       \* bound: the last instant
    MaxRequests,    \* bound: requests that are started
    None            \* stands for SQL's NULL

ASSUME DurationsArePositive ==
    ActiveSeconds \in Nat \ {0} /\ GraceSeconds \in Nat \ {0}

ASSUME TimeBounds == MaxClock \in Nat /\ MaxRequests \in Nat

ASSUME PeriodEndsAreInstants == PeriodEnd \subseteq Nat

ASSUME NoneIsNoInstant == None \notin Nat /\ None \notin Provider \cup Manual

VARIABLES
    clock,          \* the instant it is
    subscriptions,  \* table subscriptions, the rows of the account
    leases,         \* the claims signed so far
    request,        \* the requests in flight
    started,        \* how many requests have started
    versions        \* what rows were, each until it was written over

vars == <<clock, subscriptions, leases, request, started, versions>>

Subscription == Provider \cup Manual

Second == 2

Seconds(t) == t \div Second

ActiveTime == ActiveSeconds * Second
GraceTime == GraceSeconds * Second

(* What a provider may report.  "cancelled" stands for every status that    *)
(* gives no entitlement: incomplete, unpaid, paused and expired too.        *)
Status == {"trialing", "active", "past_due", "cancelled"}

End == PeriodEnd \cup {None}

Grace == Nat \cup {None}

Row == [status : Status \cup {"none"}, end : End, grace : Grace,
        updated : Nat]

NoRow == [status |-> "none", end |-> None, grace |-> None, updated |-> 0]

Version == [status : Status, end : End, grace : Grace, until : Nat]

(* LeaseClaims, and created_at of the row of the table.                     *)
Claims == [created_at : Nat, iat : Nat, refresh_after : Nat,
           lease_expires_at : Nat, exp : Nat]

RequestState ==
    [at      : {"idle", "upsert", "update", "entitlement", "date"},
     current : Nat,                     \* now_iso() of the request
     row     : Subscription \cup {None},
     status  : Status \cup {"none"},
     end     : End,
     grace   : Grace]

Idle == [at |-> "idle", current |-> 0, row |-> None, status |-> "none",
         end |-> None, grace |-> None]

TypeOK ==
    /\ clock \in 0 .. MaxClock
    /\ subscriptions \in [Subscription -> Row]
    /\ leases \subseteq Claims
    /\ request \in [Request -> RequestState]
    /\ started \in 0 .. MaxRequests
    /\ versions \subseteq Version
    /\ \A s \in Subscription : /\ subscriptions[s].updated <= clock
                               /\ subscriptions[s].grace # None =>
                                    subscriptions[s].grace <= clock + GraceTime

Init ==
    /\ clock = 0
    /\ subscriptions = [s \in Subscription |-> NoRow]
    /\ leases = {}
    /\ request = [r \in Request |-> Idle]
    /\ started = 0
    /\ versions = {}

-----------------------------------------------------------------------------
(* A request starts with the clock it reads, moves on, or ends.             *)

Asked(at, current, row, status, end, grace) ==
    [at |-> at, current |-> current, row |-> row, status |-> status,
     end |-> end, grace |-> grace]

Start(r, at, row, status, end, grace) ==
    /\ request[r] = Idle
    /\ started < MaxRequests
    /\ started' = started + 1
    /\ request' = [request EXCEPT ![r] =
                     Asked(at, clock, row, status, end, grace)]
    /\ UNCHANGED <<clock, subscriptions, leases, versions>>

Continue(r, state) ==
    request' = [request EXCEPT ![r] = state] /\ UNCHANGED <<clock, started>>

Finish(r) == Continue(r, Idle)

-----------------------------------------------------------------------------
(* What is computed.  Those named Faulty are not used by the specification: *)
(* they are mistakes the properties below are checked to detect.            *)

Least(a, b) == IF a < b THEN a ELSE b

(* The grace a delivery writes with a status: from now on, or NULL.         *)
FaultyGraceFor(status) ==
    IF status = "past_due" THEN clock + ActiveTime + GraceTime ELSE None
GraceFor(status) == IF status = "past_due" THEN clock + GraceTime ELSE None

(* UPDATE subscriptions SET status, grace_until, updated_at                 *)
FaultyInvoiced(row, q) ==
    [status |-> q.status, end |-> row.end, updated |-> q.current,
     grace |-> IF q.grace = None THEN row.grace ELSE q.grace]
Invoiced(row, q) ==
    [status |-> q.status, end |-> row.end, updated |-> q.current,
     grace |-> q.grace]

(* The lease lasts for the configured days, but not past the period.        *)
FaultyLeaseEnd(issued, end) == issued + ActiveTime
LeaseEnd(issued, end) ==
    IF end = None THEN issued + ActiveTime
                  ELSE Least(end, issued + ActiveTime)

(* The grace lasts for the configured days after it, but not past the       *)
(* grace of the subscription.                                               *)
FaultyGraceEnd(leaseEnd, grace) == leaseEnd + GraceTime
GraceEnd(leaseEnd, grace) ==
    IF grace = None THEN leaseEnd + GraceTime
                    ELSE Least(grace, leaseEnd + GraceTime)

(* Half of the whole seconds of the lease.                                  *)
FaultyRefreshAfter(issued, leaseEnd) ==
    issued + ((ActiveTime \div Second) \div 2) * Second
RefreshAfter(issued, leaseEnd) ==
    issued + (((leaseEnd - issued) \div Second) \div 2) * Second

-----------------------------------------------------------------------------
(* A provider's event.  The clock is read before the statement is sent.     *)

ReceiveSubscription(r, s, status, end) ==
    Start(r, "upsert", s, status, end, GraceFor(status))

ReceiveInvoice(r, s, status) ==
    Start(r, "update", s, status, None, GraceFor(status))

(* The owner grants a subscription: a row of its own, active, whose period  *)
(* ends later than now.                                                     *)
GrantManual(r, s, end) ==
    /\ subscriptions[s] = NoRow
    /\ \A q \in Request : request[q].row # s
    /\ end > clock
    /\ Start(r, "upsert", s, "active", end, None)

Written(s, row) ==
    /\ subscriptions' = [subscriptions EXCEPT ![s] = row]
    /\ versions' = versions \cup
         {[status |-> old.status, end |-> old.end, grace |-> old.grace,
           until |-> clock] : old \in {subscriptions[s]} \ {NoRow}}
    /\ UNCHANGED leases

(* INSERT ... ON CONFLICT DO UPDATE, and the plain INSERT of a manual row.  *)
Upsert(r) ==
    LET q == request[r] IN
    /\ q.at = "upsert"
    /\ Written(q.row, [status |-> q.status, end |-> q.end,
                       grace |-> q.grace, updated |-> q.current])
    /\ Finish(r)

Update(r) ==
    LET q == request[r] IN
    /\ q.at = "update"
    /\ subscriptions[q.row] # NoRow
    /\ Written(q.row, Invoiced(subscriptions[q.row], q))
    /\ Finish(r)

(* The UPDATE met no row: the delivery fails and may come again.            *)
RefuseInvoice(r) ==
    /\ request[r].at = "update"
    /\ subscriptions[request[r].row] = NoRow
    /\ Finish(r)
    /\ UNCHANGED <<subscriptions, leases, versions>>

-----------------------------------------------------------------------------
(* issue, for an activation, a renewal or an offline bundle.                *)

StartIssue(r) == Start(r, "entitlement", None, "none", None, None)

(* The rows the query may select when it is asked with the time t: those of *)
(* a status that counts, a past_due one while its grace is later than t, in *)
(* the order of text.                                                       *)
Counts(s, t) ==
    \/ subscriptions[s].status \in {"active", "trialing"}
    \/ /\ subscriptions[s].status = "past_due"
       /\ Seconds(subscriptions[s].grace) > Seconds(t)

MayCount(s, t) ==
    \/ Counts(s, t)
    \/ /\ subscriptions[s].status = "past_due"
       /\ Seconds(subscriptions[s].grace) = Seconds(t)

Rank(status) == CASE status = "active" -> 1
                  [] status = "trialing" -> 2
                  [] OTHER -> 3

(* ORDER BY the rank, then updated_at DESC, as text.                        *)
Precedes(a, b) ==
    \/ Rank(a.status) < Rank(b.status)
    \/ /\ Rank(a.status) = Rank(b.status)
       /\ Seconds(a.updated) >= Seconds(b.updated)

(* s is what the query may find.                                            *)
Found(s, t) ==
    /\ MayCount(s, t)
    /\ \A o \in Subscription :
         Counts(o, t) => Precedes(subscriptions[s], subscriptions[o])

ReadEntitlement(r) ==
    LET q == request[r] IN
    /\ q.at = "entitlement"
    /\ \E s \in Subscription :
         /\ Found(s, q.current)
         /\ Continue(r, Asked("date", q.current, None, "none",
                              subscriptions[s].end, subscriptions[s].grace))
    /\ UNCHANGED <<subscriptions, leases, versions>>

(* No row: subscription_required.                                           *)
RefuseUnentitled(r) ==
    LET q == request[r] IN
    /\ q.at = "entitlement"
    /\ \A s \in Subscription : ~Counts(s, q.current)
    /\ Finish(r)
    /\ UNCHANGED <<subscriptions, leases, versions>>

(* The sequence number has been taken meanwhile.  The clock is read again,  *)
(* and the dates are computed, signed and stored.                           *)
IssueLease(r) ==
    LET q == request[r]
        leaseEnd == LeaseEnd(clock, q.end)
        graceEnd == GraceEnd(leaseEnd, q.grace)
    IN
    /\ q.at = "date"
    /\ leaseEnd > clock
    /\ leases' = leases \cup
         {[created_at       |-> Seconds(q.current),
           iat              |-> Seconds(clock),
           refresh_after    |-> Seconds(RefreshAfter(clock, leaseEnd)),
           lease_expires_at |-> Seconds(leaseEnd),
           exp              |-> Seconds(graceEnd)]}
    /\ Finish(r)
    /\ UNCHANGED <<subscriptions, versions>>

(* subscription_expired: the period has ended by now.                       *)
RefuseEnded(r) ==
    LET q == request[r] IN
    /\ q.at = "date"
    /\ LeaseEnd(clock, q.end) <= clock
    /\ Finish(r)
    /\ UNCHANGED <<subscriptions, leases, versions>>

-----------------------------------------------------------------------------
Tick ==
    /\ clock < MaxClock
    /\ clock' = clock + 1
    /\ UNCHANGED <<subscriptions, leases, request, started, versions>>

Deliver(r) ==
    \/ \E s \in Provider, status \in Status, end \in End :
         ReceiveSubscription(r, s, status, end)
    \/ \E s \in Provider, status \in {"active", "past_due"} :
         ReceiveInvoice(r, s, status)
    \/ \E s \in Manual, end \in PeriodEnd : GrantManual(r, s, end)
    \/ Upsert(r)
    \/ Update(r)
    \/ RefuseInvoice(r)

Issue(r) ==
    \/ StartIssue(r)
    \/ ReadEntitlement(r)
    \/ RefuseUnentitled(r)
    \/ IssueLease(r)
    \/ RefuseEnded(r)

Next ==
    \/ \E r \in Request : Deliver(r) \/ Issue(r)
    \/ Tick

Spec == Init /\ [][Next]_vars

-----------------------------------------------------------------------------
(* Invariants.                                                              *)

Entitles(v) == v.status \in {"active", "trialing", "past_due"}

(* The rows as they were at some moment since then.                         *)
InForceSince(second) ==
    {subscriptions[s] : s \in Subscription}
        \cup {v \in versions : Seconds(v.until) >= second}

(* However late a renewal goes on with what it read, a lease in the field   *)
(* is within both dates of one version of one subscription, which entitled  *)
(* the account at some moment since the lease was asked for: it ends with   *)
(* the period, its token expires at most the configured grace after it and, *)
(* when a payment was due, not after the grace that was given.  Cancelling  *)
(* a subscription never leaves more than that outstanding, nothing is       *)
(* signed on the word of a version replaced before the request, and dates   *)
(* of two versions or two rows are never mixed.                             *)
LeaseKeepsPromise ==
    \A l \in leases : \E v \in InForceSince(l.created_at) :
        /\ Entitles(v)
        /\ v.end # None => /\ l.lease_expires_at <= Seconds(v.end)
                           /\ l.exp <= Seconds(v.end) + GraceSeconds
        /\ v.grace # None => l.exp <= Seconds(v.grace)

(* The claims of a lease are in the order a campus relies on: it is renewed *)
(* within its own time, which is at most the configured one and is followed *)
(* by at most the configured grace.  exp is not among what comes after      *)
(* refresh_after: the grace of a past_due subscription may end first.       *)
DatesInOrder ==
    \A l \in leases :
        /\ l.created_at <= l.iat
        /\ l.iat <= l.refresh_after
        /\ l.refresh_after <= l.lease_expires_at
        /\ l.lease_expires_at <= l.iat + ActiveSeconds
        /\ l.exp <= l.lease_expires_at + GraceSeconds

(* A token is good at the moment its entitlement is asked for, to the       *)
(* second: no grace of an earlier failed payment outlives the payment that  *)
(* made up for it and expires a paid lease.                                 *)
GoodWhenAsked == \A l \in leases : l.exp >= l.created_at

-----------------------------------------------------------------------------
(* "The subscription period has ended" (src/src/licensing.rs), as a renewal *)
(* is told: no subscription of the account which has been as it is since    *)
(* before the renewal entitles it with time left.  Refuted: an active row   *)
(* whose period ended, as a manual one stays for ever, is preferred to one  *)
(* that is trialing or past_due within its grace.                           *)
TimeLeft(s, t) ==
    subscriptions[s].end = None \/ Seconds(subscriptions[s].end) > Seconds(t)

RefusedOnlyAfterThePeriod ==
    [][\A r \in Request : RefuseEnded(r) =>
         \A s \in Subscription :
             ~ /\ Counts(s, clock)
               /\ TimeLeft(s, clock)
               /\ subscriptions[s].updated < request[r].current]_vars

(* What is true instead: who is refused was entitled, at some moment since  *)
(* the renewal began, by a subscription whose period has ended by now.      *)
RefusedByAnEndedPeriod ==
    [][\A r \in Request : RefuseEnded(r) =>
         \E v \in InForceSince(Seconds(request[r].current)) :
             Entitles(v) /\ v.end # None /\ v.end <= clock]_vars

=============================================================================
