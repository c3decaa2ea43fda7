# Campus Pilot control plane: verification project

The control plane issues licenses to school installations, bills schools
through payment providers and serves two portals. It is a Cloudflare Worker
(`src/src`, Rust) over one D1 database (`src/migrations`). This directory holds
its TLA+ models, the TLC runs over small instances, and theorems that TLAPS
checks for every value of the constants.

## The system

Every handler is a sequence of SQL statements with an await between them. A
statement is atomic, a batch (`store.rs`) is one transaction, and nothing else
is: between two statements any other request may run, the worker may be
stopped, or the next statement may fail. There are no locks, no background
jobs and no memory shared between requests. The hard behaviour is therefore in
conditional updates, unique indexes and the order of statements.

| Component | State | Operations | Hard parts | Correct when |
|---|---|---|---|---|
| Lease issuance (`licensing.rs`, revocation in `operations.rs`) | `activation_codes`, `installations`, `leases` | create a code, activate, renew, offline download, revoke | racing issues, revocation under way, partial failure | a code activates once, one owner per sequence number, one active lease, revocation final, trail true |
| Lease window (`licensing.rs` 239-308, 402-430) | reads `subscriptions`, writes the claims of a lease | choose the entitlement, compute the dates | the entitlement is stale when it is used, the clock is read twice, dates compared as text, grace before the end of the period | a lease stays within the dates of one row that entitled the account, the dates are ordered |
| Signing keys (`config.rs`, `crypto.rs`, `require_signing`, `public_keys`) | the settings of the worker | check the settings, sign, publish the keyring, rotate | settings deployed one by one, requests that still sign with the old ones | nothing is used up that cannot be signed, every lease in the field verifies |
| Payment events (`payments/mod.rs`, `stripe.rs`) | `payment_events`, `subscriptions`, `payment_transactions`, `billing_customers` | webhook | duplicated, reordered, overlapping deliveries; failure in the middle | no event lost, a settled one stays closed, state as the provider last said when events come in order |
| Checkout (`payments/mod.rs` 310-472, 564-613) | `billing_customers`, `checkout_attempts` | start a checkout, learn of its completion | two first checkouts, retry after a crash, completion before the retry is stored | sessions belong to the known customer, an attempt is completed when it was paid |
| Portal identities (`auth.rs`) | link, signup and session tables of two audiences | request a link, sign up, consume, authorise, log out | one-time tokens opened twice, signup re-requested | a link signs in once, a signup creates one account of its own form, a session acts for a proven address |
| Owner operations (`operations.rs`) | accounts, members, plans, prices, codes | create, grant, patch, price, manual subscription | read-modify-write, audit after the change | plans closed under dependencies, grants given once, patches keep the other fields, changes audited |
| Audit trail (`audit.rs`) | `audit_events` | one insert per event | written after the change it reports | says only what happened |
| Domain values, store, clock, http, short links, client | none of their own | parsing, conversion, primitives, rendering | text order of timestamps, 2^53 limit | see the last sections |

Components meet in the database only: webhooks and manual subscriptions write
`subscriptions`, which issuing a lease reads; the customer portal creates the
activation codes an installation uses; revocation and issuing write the same
rows of `installations` and `leases`; signup and the owner's grants write the
`account_members` on which every customer request is authorised; the settings
read at the start of a request sign what it issues at its end.

## Modules

### LeaseIssuance, LicenseLedger, LeaseIssuanceProofs, ActivationCodesProofs, MCLeaseIssuance

`LeaseIssuance` is the core. The tables are functions: `codes` (with `created`, the
codes the trail reports, and `known`, those whose text reached the customer),
`installations` (status, account, deployment, `last` for `last_lease_sequence`,
`current` for `current_lease_id`) and `leases` (a status for each installation
and sequence; the primary key of a lease is not needed, its unique index over
installation and sequence is). `request[r]` is what a handler in flight holds:
where it is and what it has read or been given. One action per statement:

| Code | Actions |
|---|---|
| `create_activation_code` | `CreateCode`, `AuditCode`, which answers with the only copy of the text |
| `activate` | `ConsumeCode`, `InsertInstallation` or `RejectInstallation`, then the steps of `issue`, then `AuditActivation` |
| `installation_from_credential`, `installation_by_id` | `LoadInstallation` |
| `issue` | `ReadEntitlement`, `AllocateSequence` or `RefuseInactive`, `CommitLease`, `AuditLease` |
| `revoke_installation` | `FindInstallation`, `RevokeInstallation`, `AuditRevocation` |
| a failing statement or a stopped worker | `Fail`, from any step |
| time, webhooks | `LapseCode`, `ChangeEntitlement` |

Abstracted: an entitlement is none, open, or counted by its status although
its period has ended (the dates are in LeaseWindow); claims and signature are the
number they carry (the keys are in SigningKeys); a code's text cannot be guessed,
so only known codes are activated. The token
and the credential leave the service in `AuditLease` and `AuditActivation`, or
their answer is lost.

`LicenseLedger` says what the tables promise without any request: a
registered installation takes numbers while it is open, a taken number becomes
a license at most once, at most one license is valid, closing voids it.
`LeaseIssuance` implements it under the mapping at its end (`superseded` and
`revoked` are void; `current` and the requests are hidden).

### LeaseWindow, LeaseWindowProofs, MCLeaseWindow

The dates of a lease against everything that changes the subscriptions of its
account. Time is counted in instants, two to the second: the tables hold
instants, claims hold seconds, and the comparison of timestamps as text in SQL
may decide either way within one second (`MayCount`, `Precedes`). A delivery is
`ReceiveSubscription` or `ReceiveInvoice` (the clock is read, the grace computed
from it) and then `Upsert` or `Update`, in any order and at any time; `GrantManual`
is an owner's row, which nothing ends. Issuing is `StartIssue` (the first reading
of the clock), `ReadEntitlement` or `RefuseUnentitled`, then `IssueLease` or
`RefuseEnded` with a second reading, after the sequence number was taken. Any
step of another request, and `Tick`, may come in between. `versions` observes
what each row was until it was written over, and when that was. One account
stands for each, because every query names one.

### SigningKeys, SigningKeysProofs, MCSigningKeys

The four settings of the key service, their checks in `Config::from_env`
(`Readable`, `PairMatches`), the published keyring and the signature. A request
reads the settings once (`ReadSettings`), is refused before it uses anything up
(`RefuseSettings`, `RefuseUnconfigured`) or takes its number and signs
(`TakeNumber`, `Sign`). `Deploy` installs any settings, sensible or not, `Rotate`
the documented rotation. One thing is assumed of whoever deploys, and it is the
rule `src/README.md` gives: the public key of an id stays listed as long as a
lease in the field, or a request in flight, needs it. Ed25519 is what it promises:
a signature verifies with the key of its pair and no other. Texts of one key may
differ, and a text may hold none.

### PaymentEvents, EventInbox, PaymentEventsProofs, MCPaymentEvents

The webhook for one account and its subscription. The provider is external: it
appends to `log`, and any event so far may be delivered at any time, again and
in any order; `acked` are the events it was told to forget. `events` is the
`processing_status` of `payment_events`, `row` the subscription, `payments` the
transactions. Statement by statement: `Deliver` (the SELECT), `Claim` (the
unconditional upsert of `processing`), then by kind `LinkCustomer`,
`CompleteAttempt`; `FindCustomer`, `FindPrice`, `SyncSubscription`; `SetStatus`,
`FindSubscription`, `FindExponent`, `RecordTransaction`; then `Audit` and
`Finish`, or `Reject`. `StatementFails` is an error inside `apply_event`, which
the code stores; `Stop` is a worker that ends, or an error outside it.
`row.by` is the event that wrote the row last; `orderly` records that every
delivery so far came in order and alone. Both only observe. Money, periods and
grace dates are left out; a price stands for its currency.

`EventInbox` says what the webhook promises, without statements: events are
taken in, have their effect, are reported, settled and answered in this order,
what was reported or answered stays so, and the subscription changes only to what
a known event under way says of it. `PaymentEvents` implements it: `known` and
`settled` are read off `events`, `left` is the set of events whose effect is in
the tables (`Applied`), and the steps of a handler before its effect are stutters.
The abstract specification admits what the duplicate check admits: a delivery
that was taken up before its event was settled may write it again, and may
leave it unsettled.

### PortalAuth, PortalAccess, PortalAuthProofs, MCPortalAuth

Requesting, mailing and opening links of both audiences, signup, sessions,
logout. A consuming request reads the clock first (`ReadClock`) and uses the
reading both to claim the row and to recognise its claim, as the code does; the
clock may stand still between two requests. `collided` records that this
happened for one link. The drawing of a token and the call that shortens its
link precede the insert, so other requests run in between. The form of a signup
is named by the token it was sent with: `consume_signup` makes the slug and the
metadata from the row it reads (`ReadSignup`) and lets the batch copy the other
columns (`ClaimSignup`), and a second request may replace the row in between. A
session authorises requests of its portal (`AuthorizeOwner`; `FindSession`, then
`AuthorizeCustomer`); `acted` records for which portal and session. A browser
may present any session to either portal. `Logout` stands for the expiry of a
session too: after either, its row is not found.

`PortalAccess` says what this is to the owners of addresses and browsers, without
tables, tokens or requests: messages are sent to addresses, a message lets in one
browser and once, who signs up gains access for the address, and who acts in a
portal was let in by a message of that portal to an address that has access at
that moment. `PortalAuth` implements it: a token's message is what its link or its
form was mailed for, a session's browser is let in by the message of its token,
and everything that happens before a claim is a stutter.

### Checkout, Purchases, CheckoutProofs, MCCheckout

A click on a price is a key. `Start` validates and reads the plan,
`FindCustomer` looks for the account's billing customer, `CreateCustomer` asks
the provider for one with the key of the account, `InsertCustomer` stores it
(the unique index may refuse it), `CreateSession` asks for a session with the
key of the click, `StoreAttempt` upserts the attempt and `AuditStart` reports it
and answers. The webhook of a completed session is `LinkCustomer`,
`CompleteAttempt`, `ReportCompletion` and `Finish`; deliveries overlap and
repeat. `Fail` ends any request between two statements.

The provider (`made`, `remembered`, `session`) is external: it answers a
repeated key with the object made for it, refuses a key that comes with other
parameters (the owner may change the plan's trial days between two clicks), and
forgets the key of a customer at any time (`Forget`). Keys of sessions belong to
one click and are not used again after they were forgotten. The price and the
browser's return addresses are left out.

`Purchases` says what a click comes to, without requests, keys and failures: it
is billed to the one customer of its account, recorded, announced, opened, paid,
completed, reported and processed, in this order, and never goes back. `Checkout`
implements it; what the provider made and forgot, the requests and the trial are
hidden, and a repeated or late statement is a stutter.

### OwnerOperations, Administration, OwnerOperationsProofs, MCOwnerOperations

What owners change by hand. `members` is the table `account_members` by account
and email; roles other than administrator are there from the start, because no
code writes them. A grant looks up the account (`StartGrant`) and the member
(`FindMember`), inserts a row that may be ignored (`InsertMember`, then
`FindAgain`) or promotes the row it read (`PromoteMember`), reports it
(`Report`) and sends the access email (`SendAccessEmail`). A plan patch is
validated and merged into the row that is read (`ReadPlan`), then every column
is written (`WritePlan`). `CreateAccount` is the batch of two inserts,
`CreatePlanPrice` and `CreateManualSubscription` one insert each; all are
followed by `Report`.

One plan stands for each; its module list is a set, the other columns are one
value, `terms`. `Requires` is the code's table of module dependencies. `changed`
counts each change committed and `reported` each event in the trail; a request
at `write` collects in `missed` the fields other patches have written since it
read the row. `changed` and `missed` only observe. An account of the code is
open: nothing closes one.

`Administration` says what the operations promise, without requests: an account
is opened with its administrator, a membership is added once, one that was there
before may be promoted and none is lowered, a plan is replaced by one that may be
offered, an event is reported when it is due, an email is sent for a grant the
trail reports, and a grant is answered when it is given. `OwnerOperations`
implements it; requests and failures are hidden. Which fields a patch may change
depends on what it had read and stays with `PatchesKeepTheRest`.

## Runs

Identifiers are model values, interchangeable where the cfg says SYMMETRY.

| Run | What it asks | Bounds |
|---|---|---|
| `renewals` | types, codes that activate once, numbering, one active lease, truthful trail, lease life cycle, finality of revocation, refinement of the ledger | 1 account, 1 deployment, 1 installation, 2 codes, 3 requests, 2 numbers: both codes race for the deployment, one code is raced for, and two issues race each other and a revocation |
| `revoked_lease` (violation) | a lease committed after the revocation | 2 requests |
| `deliveries` | no event lost, settled events stay closed, orderly deliveries follow the provider, refinement of the inbox | 2 requests, 2 events, 2 prices, 3 statuses, 2 failures: every pair of kinds, in both orders, duplicated |
| `settlement` | liveness: every event is answered | 2 requests, 2 events, 1 price, 2 statuses, 1 failure |
| `replayed_event` (violation) | a processed event applied again | 2 requests, 2 events |
| `sign_in` | refinement of the access (one browser per message, acts only with access), one account and session per link without a collision, sessions act in their portal for the address that was mailed, an account has the form of its own link | 2 emails, one of an owner, 2 tokens, 2 requests, 2 clock readings, both within the life of a link, 2 sessions, 2 accounts: any two requests race on one reading or on two. No link expires in this run; the claim refuses an expired one as it refuses a consumed one, and the theorems cover it |
| `checkouts` | sessions of the known customer, recorded addresses, completed exactly when paid, refinement of the purchases; liveness: a buyer who keeps clicking is sent to a checkout | 1 account, because accounts share nothing but the plan, 2 clicks, 2 requests, 2 customers, trials of 0 or 1 day, 1 failure: the clicks race for the customer, and either may be retried |
| `owners` | closed plans, kept fields, grants given, changes reported unless a request failed, refinement of the administration (grants added once) | 1 account, 2 emails, 2 modules of which one needs the other, 2 terms, 3 requests and operations, 1 failure: three patches or three grants overlap |
| `lease_dates` | leases within the dates of one version that entitled since the lease was asked for, dates in order, tokens good when asked for | 1 provider subscription and 1 manual one, 2 requests in flight, 3 begun, 6 instants in 3 seconds, periods that end at 3, 6 or never, 2 seconds of lease, 1 of grace: a period ends inside and after a lease, and an event falls between any two readings |
| `ended_period` (violation) | a renewal refused although a subscription has time left | as `lease_dates`, with 1 request at a time |
| `rotation` | what is used up can be signed, leases in the field verify, the documented rotation is smooth | 2 ids, 2 key pairs with one text each, 1 request in flight, 2 deployments of any settings |
| `duplicate_link` (violation) | a second account from one signup link | as `sign_in`, with 1 email and 3 sessions |

The bounds `MaxSequence`, `MaxEvents`, `MaxFailures`, `MaxClock`,
`MaxCustomers`, `MaxTrial`, `MaxOperations`, `MaxRequests` and `MaxDeploys`
stand in guards (`AllocateSequence`, `Emit`, `Fail`, `Tick`, `CreateCustomer`,
`ChangeTrial`, `Begin`, `Start`, `Deploy` and `Rotate`); `PeriodEnd` lists the
period ends; identifiers that run out stop the action that needs one. `sign_in`,
`duplicate_link`, `owners`, `lease_dates` and `ended_period` switch the deadlock
check off for that reason: once all tokens are used, all operations begun and
ended, or the last instant has come, there is nothing left to do. Every race
named under the hazards is between two requests, so two are enough for it; in
`renewals` a third lets two issues meet a revocation, and in `owners` a third lets a patch overlap two that overlap each other, and a
promotion race run beside a patch. More requests, numbers and failures are
covered by the theorems.

Operators named `Faulty...` stand before the operator they spoil and are used
by no specification. Replacing the operator by the faulty one makes TLC report
the property it is listed with: each property can fail.

### What the violated properties show

- `RevokedReceivesNoLease`: the owner's dialog promises that a revoked
  installation will stop receiving renewed leases. A renewal that took its
  number before the revocation commits an active lease after it. What holds
  instead, and is proved, is `DrainedIsFinal`: when no such request is left,
  nothing more is issued.
- `ProcessedEventChangesNothing`: the duplicate check is a read of its own.
  Overlapping deliveries of one event apply it twice, the second time over the
  state of later events. The same race can leave a settled and answered event
  in `processing` for ever when the second delivery stops, which is why
  `EveryEventIsAnswered` speaks of the answer and not of the row.
- `DuplicateLinkCreatesNothing`: a signup link opened twice on one clock
  reading creates a second account while the answer says the link is invalid.
- `RefusedOnlyAfterThePeriod`: the choice of the entitlement prefers an active row
  whatever its period, and nothing ends a manual one. An account whose manual
  grant is over and whose other subscription is trialing, or past due within its
  grace, is refused with "The subscription period has ended". What holds instead,
  and is proved, is `RefusedByAnEndedPeriod`: some subscription that entitled the
  account since the renewal began has ended.

Three things the code does that no text of the repository denies, and that the
properties therefore leave room for: numbers are handed out in order, leases are
not committed in order, so the current lease may carry the lower number; the
status an invoice brings is written before its currency is resolved and stays
when the event fails; and the token of a past due account may expire before its
lease does, even before it is due for renewal, because the grace that was given
bounds the token only (`DatesInOrder` does not order `exp` against them).

### Fairness

Two properties need fairness. `FairSpec` of PaymentEvents: weak fairness of the
steps of each delivery, because a handler awaits nothing but the database and
the provider, so a statement that was sent completes or fails; and strong
fairness of delivering an event that was not answered, because the provider
retries until it is, and a free request may be taken by another delivery each
time. `FairSpec` of Checkout: the same weak fairness of each request, and strong
fairness of `ClickAgain`: a buyer who was sent to no checkout clicks again, and the
browser draws a new key for each click (`client/app.tsx` 764-776). That the buyer
is patient is an assumption about people, and what the property asks is whether
the code serves a patient one. No arrival of another kind and no failure is
fair. Failures are bounded in both (`MaxFailures`): with endless failures nothing
is ever answered. The owner is not obliged to map a price, so
`EveryEventIsAnswered` assumes they are mapped, and only events that can be handled
at all: a delivery that is not verified or an amount beyond 2^53 is outside it.
`EveryBuyerIsAnswered` asks for more keys than failures, since a click that fails
after its session was made spoils its key for a later trial; with two customers
to make and one failure, the last one made is always stored or found stored, so
`MaxCustomers` does not stop the buyer.

## Theorems

`LeaseIssuanceProofs`, for any accounts, codes, installations, deployments and
requests and any `MaxSequence`: `TypeCorrect`, `Numbering`,
`OneActiveLease`, `Lifecycle`, `RevocationIsFinal`, `Served`, `Trail` and
`Implementation` (the refinement of `LicenseLedger`). Assumptions:
`SequenceBound` and `NoneIsNoValue`, evaluated by TLC in each run like every
assumption named below.

The numbering is inductive together with the types: a number is a row or is
held by one request, and no owned number is above `last`, so the number the
increment hands out is new, and the batch never overwrites a row. One active
lease is inductive because the batch supersedes what is active and sets
`current` in one transaction. `Served` and `Trail` need what a request knows at
each step: past the batch its lease row exists, past the audit its event does,
and none of these facts is ever undone. For the codes (`CodesInv`) the same holds
from the insertion through the report to the answer, so a code somebody uses
was reported. `RevocationIsFinal` follows from the
guard of the increment: the only way to hold a number is to take it while the
installation is active. `Implementation` maps the increment, the batch,
the insertion and the revocation to the ledger's steps, everything else to a
stutter, and uses the numbering for the ledger's guard.

`ActivationCodesProofs`, from `FiniteParties` besides: `OnceEach`
(`OneInstallationPerCode`). The count is inductive for each account: the
installations it has and those its requests are about to insert are no more than
its used codes. Consuming a code adds one to both sides, inserting turns one
kind into the other, a refusal or a failure only takes away on the left, and
no step takes a used code back.

`PaymentEventsProofs` proves six theorems for every number of requests,
events and failures, from `Bounds`, `StatusAssumption` and
`NoneIsNoEventValue`: `TypeCorrect`, `NoEventLost` (`SettledIsRecorded`),
`StatusFromLog` (`StatusHasItsEvent`, which no run checks because the inbox implies
it), `StatusFollowsLog` (`FollowsLog`), `DoneForGood` (`DoneIsFinal`) and
`Implementation` (`ImplementsInbox`).

`TypeOK` is inductive only with two facts about data: an event has the fields of
its kind (`LogShape`) and a request is at a step of its event's kind
(`StepFits`). `SettledIsRecorded` needs what a request has done at each step
(`Progress`): past its claim the event has a row, at the audit it has been
applied, at the end it is in the trail. A second request of the same event, or
one of another event, cannot spoil that, because no step removes anything: the
log is appended to (`LogStays`), the tables only gain (`RowsStay`), so an
applied event stays applied (`AppliedStays`). This is the argument why an
overlapping duplicate loses nothing, although it may write the row again (the
run `replayed_event`). The others rest on `RowKeptOrWritten`: only two steps
write the subscription, each for the event of its own request, which has a row
by then. `FollowsLog` needs more (`OrderInv`), and only while deliveries are
orderly: one is under way at a time (`OneAtATime`), all events before its own
are answered and no settled one that speaks of a status is later than the row's
(`AnsweredInOrder`), and a request that looks past the row has written it
(`WrittenBy`). `Implementation` needs no more than the invariant: one lemma for
each step of the inbox says which statements it stands for, `Progress` gives the
guards of `Report` and `Settle`, and the tables gain, so no effect is taken
back. `Emit` is the delicate one: an event of the provider may already have left
what a later one would leave, a transaction for instance, which is why `Happen`
lets `left` grow.

`CheckoutProofs`, from `CheckoutBounds` and `NoneIsNoObject`: `TypeCorrect`,
`KnownCustomer` (`SessionsHaveTheKnownCustomer`), `OpenedRecorded`
(`OpenedIsRecorded`), `CompletedOnlyPaid` (`CompletedIsPaid`), `CustomerKept`
(`CustomerIsKept`, which no run checks because the purchases imply it) and
`Implementation` (`ImplementsPurchases`). The three invariants are inductive
with what each request knows (`StartKnows`, `CompletionKnows`): past the
insertion its customer is the one in the table, past `CreateSession` its session
exists and is that customer's, past `StoreAttempt` its attempt does, and a
completion holds a paid key. A racing first checkout whose insert is refused
ends there, before it has a session; that is the whole argument for the known
customer, and it is why it survives forgotten keys. `Kept` says that no step
takes any of this back. `Implementation` has one lemma for each action that can
be seen; what its request knows is the guard of the abstract step, or shows that
there is nothing left to do: a late attempt finds its click recorded, a
completion finds the customer it was billed to.

`OwnerOperationsProofs`, from `OwnerBounds` and `NoneIsNoMember`: `TypeCorrect`,
`PlansStayClosed` (`PlansAreClosed`), `GrantsHold` (`GrantsAreGiven`),
`GrantedOnce` (`AddedOnce`, which no run checks because the administration
implies it) and `PatchesKeep` (`PatchesKeepTheRest`). `PlansAreClosed` needs
`Knows`: a patch that names modules brings a closed set, one that does not
writes back the closed set it read, however stale. `GrantsAreGiven` is
strengthened to all committed grants (`GrantedIsGiven`), because the answer, the
mail and the event come later. `AddedOnce` needs that a request about to promote
has read a row that was never added. `PatchesKeep` rests on `Fresh`: the row a
patch holds agrees with the plan on every field it neither named nor missed.
`ReportsHold` (`ReportedUnlessFailed`, with `RequestsAreFinite`) counts
(`CountInv`): of each change, those committed are those reported plus the
requests about to report it, but for one lost with each failure; of each
membership, the emails sent and about to be sent are no more than its reports.
`Implementation` (`ImplementsAdministration`) takes its guards from both
invariants: a request at its report or its email is counted among those that
wait, so what it writes is due; what a request knows gives the others.

`LeaseWindowProofs`, from `DurationsArePositive`, `TimeBounds`,
`PeriodEndsAreInstants` and `NoneIsNoInstant`: `TypeCorrect`, `PromiseKept`
(`LeaseKeepsPromise`), `DatesOrdered` (`DatesInOrder`), `GoodAtTheQuestion`
(`GoodWhenAsked`) and `RefusedByPeriod` (`RefusedByAnEndedPeriod`). Lemmas bound
each computed date (`LeaseEnds`, `GraceEnds`, `RefreshIsBetween`) and carry the
order of instants to seconds. The invariant says that what a request has read
was, at some moment since its first reading of the clock, a row that entitled
the account (`WereInForce`): a row with a grace is past due, and its grace was
not over, to the second, at that reading. `InForceIsKept` carries this over
every step: a row is put on record when it is written over, with the instant at
which that happens, and the clock is not before the first reading then. The
second reading is later, which is all the dates need.

`PortalAuthProofs`, from the assumptions of PortalAuth: `TypeCorrect`,
`OneBrowser` (`OneBrowserPerLink`, which no run checks because the access
implies it), `OneTime` (`LinkIsOneTime`), `ActsProven` (`ActsAreProven`),
`FormOfTheLink` (`FormIsOfTheLink`) and `Implementation` (`ImplementsAccess`). A
token that is about to be stored is nowhere else (`Fresh`), so what a mailed
token stands for is fixed (`Addressed`): its link, or the row of the address it
was sent to. A session or an account exists only for a token that was mailed and
can no longer be claimed (`Spent`), which stays so, also when a second request
reopens the row under another token. While readings of the clock do not
coincide, no row is consumed at a reading that another request still holds
(`Apart`), so a batch recognises no claim but its own. `Implementation` needs a
second invariant on top (`SendsOnce`): a token is mailed by one request, and a
message that was sent stands for the same address, portal and form for good.
Then a claim is the abstract sign-in or sign-up of a message nobody has used, a
lost claim and every step before it a stutter, and an act one of the address let
in.

`SigningKeysProofs`, from `KeysAreRead`, `IdsAreIds`, `DeploysAreBounded`,
`NotKeys` and `JunkIsNoKeyring`: `TypeCorrect`, `NumberedSigns`
(`NumberedCanSign`), `LeasesStayVerifiable` (`LeasesVerify`) and
`RotationSmooth` (`RotationIsSmooth`). The settings in force are the last
accepted ones or refused (`Current`); a request holds accepted settings
(`Snapshots`); the last accepted keyring verifies every lease in the field and
every one a request in flight will sign (`Kept`). The check for a conflicting id
is what carries `Kept` over a deployment.

Only model-checked: liveness (`EveryEventIsAnswered`, `EveryBuyerIsAnswered`),
because fairness and ENABLED are outside the prover, and what the violated
properties show. Every other property of a passing run is proved.

## Not modelled, and why

- Parsing and validation of one text (emails, ids, money, limits, slugs, portal
  hosts), hashing, HTML, CORS and cookies keep no state and meet no other
  request; a model would repeat their conditions.
- Hashing, HMAC and Ed25519 are taken as what they promise.
- The views, the public catalog and the billing portal only read.
- The short-link and the email service are one call each; their failure is a
  step of PortalAuth and OwnerOperations.
- The refusal of integers beyond 2^53 by the binding to D1 is a statement that
  fails, wherever it happens.
- The browser applications only call the API.
- `accounts.status`, `deleted_at`, a revoked code, a suspended installation and the
  `expired` lease status are never written by the code and so never arise.
  Migrations 0003 to 0010 only extend the module lists of the seeded plans.

## Plan

Done: LeaseIssuance with its ledger and the creation of codes, LeaseWindow,
SigningKeys, PaymentEvents with its inbox, Checkout with its purchases,
PortalAuth with its access, and OwnerOperations with its administration, each
with the proofs of its safety properties and of its refinement. What is left, in
this order:

1. The composition of PaymentEvents and LeaseWindow through `subscriptions`, so
   that a delivery of the first is the event of the second. Today LeaseWindow lets
   any event arrive at any time, which covers every behaviour of PaymentEvents
   but does not say so.
2. Liveness of the owner's grants under retry.
