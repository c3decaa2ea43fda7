-------------------------- MODULE OwnerOperations --------------------------
(***************************************************************************)
(* What owners change by hand (src/src/operations.rs): customer accounts,  *)
(* administrator memberships, the fields of a plan, prices and manual      *)
(* subscriptions, by requests that overlap and may stop between two        *)
(* statements.  Every change is reported to the audit trail by a statement *)
(* of its own.  What a price or a manual subscription then does is in      *)
(* PaymentEvents and LeaseWindow, the revocation in LeaseIssuance.         *)
(*                                                                         *)
(* One plan stands for each.  Its modules are kept apart, because they     *)
(* depend on one another; the other columns of the row are one value, the  *)
(* terms.                                                                  *)
(***************************************************************************)
EXTENDS Integers, FiniteSets

CONSTANTS
    Account,        \* customer accounts
    Email,          \* addresses of administrators
    Module,         \* module keys
    Terms,          \* values of a plan's other fields
    Request,        \* requests handled together
    None,           \* stands for no value
    MaxOperations,  \* bound: operations begun
    MaxFailures     \* bound: failed statements, stopped workers

ASSUME OwnerBounds == MaxOperations \in Nat /\ MaxFailures \in Nat

ASSUME NoneIsNoMember == None \notin (Account \X Email)

ASSUME RequestsAreFinite == IsFiniteSet(Request)

VARIABLES
    accounts,       \* table accounts
    members,        \* table account_members: role by account and email
    plan,           \* a row of table plans
    changed,        \* how often each change was committed
    reported,       \* audit_events: how often each change is in the trail
    mailed,         \* access emails sent, by account and email
    answered,       \* grants answered with success
    request,        \* the requests in flight
    begun,          \* operations begun so far
    failures        \* failures so far

tables == <<accounts, members, plan>>

vars == <<tables, changed, reported, mailed, answered, request, begun, failures>>

(* The modules that need others (validate_module_dependencies).             *)
Requires ==
    { <<"sis", "academics">>, <<"academics", "hr_payroll">>,
      <<"attendance", "academics">>, <<"attendance", "sis">>,
      <<"learning", "academics">>, <<"learning", "document_registry">>,
      <<"learning", "hr_payroll">>, <<"learning", "sis">>,
      <<"student_support", "sis">>, <<"transport", "fleet">>,
      <<"transport", "sis">>, <<"fleet", "hr_payroll">>,
      <<"facilities", "hr_payroll">>, <<"activities", "hr_payroll">>,
      <<"activities", "sis">>, <<"timetabling", "academics">> }

Closed(modules) ==
    \A d \in Requires : d[1] \in modules => d[2] \in modules

Member == Account \X Email

(* Roles by the table's check; the code itself writes only administrators.  *)
Role == {"none", "admin", "billing", "viewer"}

Plan == [modules : SUBSET Module, terms : Terms]

Field == {"modules", "terms"}

(* What the trail reports.                                                  *)
Action == {"account.created", "administrator_added", "administrator_promoted",
           "plan.updated", "plan_price.created", "subscription.manual_created"}

Change == [action : Action, account : Account \cup {None}, email : Email \cup {None}]

NewAccount(a) == [action |-> "account.created", account |-> a, email |-> None]
Added(m) == [action |-> "administrator_added", account |-> m[1], email |-> m[2]]
Promoted(m) ==
    [action |-> "administrator_promoted", account |-> m[1], email |-> m[2]]
PlanUpdate == [action |-> "plan.updated", account |-> None, email |-> None]
NewPrice == [action |-> "plan_price.created", account |-> None, email |-> None]
ManualSubscription(a) ==
    [action |-> "subscription.manual_created", account |-> a, email |-> None]

Steps == {"idle", "member", "insert", "again", "promote", "write", "audit", "mail"}

(* A request holds the change it will report, the member it grants, the row *)
(* it will write to the plan with the fields its patch named and (observed  *)
(* only) the fields that other patches have written since it read the row.  *)
RequestState == [at : Steps, change : Change \cup {None},
                 member : Member \cup {None}, row : Plan \cup {None},
                 named : SUBSET Field, missed : SUBSET Field]

Idle == [at |-> "idle", change |-> None, member |-> None, row |-> None,
         named |-> {}, missed |-> {}]

TypeOK ==
    /\ accounts \subseteq Account
    /\ members \in [Member -> Role]
    /\ \A m \in Member : members[m] # "none" => m[1] \in accounts
    /\ plan \in Plan
    /\ changed \in [Change -> Nat]
    /\ reported \in [Change -> Nat]
    /\ mailed \in [Member -> Nat]
    /\ answered \subseteq Member
    /\ request \in [Request -> RequestState]
    /\ begun \in 0 .. MaxOperations
    /\ failures \in 0 .. MaxFailures

(* The catalog is seeded by migrations, customers may be there before, and  *)
(* roles other than administrator are entered by hand.                      *)
Init ==
    /\ accounts \in SUBSET Account
    /\ members \in [Member -> Role]
    /\ \A m \in Member : members[m] # "none" => m[1] \in accounts
    /\ \A a \in accounts : \E e \in Email : members[<<a, e>>] = "admin"
    /\ plan \in Plan
    /\ Closed(plan.modules)
    /\ changed = [c \in Change |-> 0]
    /\ reported = [c \in Change |-> 0]
    /\ mailed = [m \in Member |-> 0]
    /\ answered = {}
    /\ request = [r \in Request |-> Idle]
    /\ begun = 0
    /\ failures = 0

-----------------------------------------------------------------------------
(* Helpers.  Those named Faulty are not used by the specification: they are *)
(* mistakes the properties below are checked to detect.                     *)

At(r, step) == request[r].at = step

MemberOf(r) == request[r].member

MoveTo(r, step) == request' = [request EXCEPT ![r].at = step]

End(r) == request' = [request EXCEPT ![r] = Idle]

Begin(r) ==
    /\ request[r] = Idle
    /\ begun < MaxOperations
    /\ begun' = begun + 1

Commit(c) == changed' = [changed EXCEPT ![c] = @ + 1]

(* Each change is followed by its report.                                   *)
FaultyAfter(c) == IF c.action = "administrator_promoted" THEN "mail" ELSE "audit"
After(c) == "audit"

(* The two rows of a new account are inserted together.                     *)
FaultyWithAccount(a) == accounts
WithAccount(a) == accounts \cup {a}

(* The step for a membership found with this role.                          *)
FoundStep(role) ==
    CASE role = "none" -> "insert"
      [] role = "admin" -> "idle"
      [] OTHER -> "promote"

(* INSERT OR IGNORE INTO account_members counts a row only if it is new.    *)
FaultyInserted(m) == TRUE
Inserted(m) == members[m] = "none"

(* UPDATE account_members SET role = 'admin', of the row that was read.     *)
FaultyElevated(m) == members
Elevated(m) == [members EXCEPT ![m] = "admin"]

FaultyValid(modules) == TRUE
Valid(modules) == Closed(modules)

(* What a patch does not name is taken from the row that was read.          *)
FaultyMerged(named, value, row) ==
    [modules |-> IF "modules" \in named THEN value.modules ELSE {},
     terms   |-> IF "terms" \in named THEN value.terms ELSE row.terms]
Merged(named, value, row) ==
    [modules |-> IF "modules" \in named THEN value.modules ELSE row.modules,
     terms   |-> IF "terms" \in named THEN value.terms ELSE row.terms]

-----------------------------------------------------------------------------
(* create_account.  The identifier is fresh, and with it the slug.          *)
CreateAccount(r, a, e) ==
    /\ Begin(r)
    /\ a \notin accounts
    /\ accounts' = WithAccount(a)
    /\ members' = [members EXCEPT ![<<a, e>>] = "admin"]
    /\ Commit(NewAccount(a))
    /\ request' = [request EXCEPT ![r] =
         [Idle EXCEPT !.at = After(NewAccount(a)), !.change = NewAccount(a)]]
    /\ UNCHANGED <<plan, reported, mailed, answered, failures>>

(* create_manual_subscription, whose row refers to the account.             *)
CreateManualSubscription(r, a) ==
    /\ Begin(r)
    /\ a \in accounts
    /\ Commit(ManualSubscription(a))
    /\ request' = [request EXCEPT ![r] =
         [Idle EXCEPT !.at = After(ManualSubscription(a)),
                      !.change = ManualSubscription(a)]]
    /\ UNCHANGED <<tables, reported, mailed, answered, failures>>

(* create_plan_price, whose row refers to the plan.  Of two that map one    *)
(* price of the provider the second is refused and changes nothing.         *)
CreatePlanPrice(r) ==
    /\ Begin(r)
    /\ Commit(NewPrice)
    /\ request' = [request EXCEPT ![r] =
         [Idle EXCEPT !.at = After(NewPrice), !.change = NewPrice]]
    /\ UNCHANGED <<tables, reported, mailed, answered, failures>>

-----------------------------------------------------------------------------
(* grant_customer_administrator.                                            *)

(* The account is looked up; no code ever closes one.                       *)
StartGrant(r, m) ==
    /\ Begin(r)
    /\ m[1] \in accounts
    /\ request' = [request EXCEPT ![r] =
         [Idle EXCEPT !.at = "member", !.member = m]]
    /\ UNCHANGED <<tables, changed, reported, mailed, answered, failures>>

(* active_account_member: an administrator is answered with success.        *)
Found(r) ==
    LET step == FoundStep(members[MemberOf(r)]) IN
    /\ IF step = "idle"
         THEN End(r) /\ answered' = answered \cup {MemberOf(r)}
         ELSE MoveTo(r, step) /\ UNCHANGED answered
    /\ UNCHANGED <<tables, changed, reported, mailed, begun, failures>>

FindMember(r) == At(r, "member") /\ Found(r)

(* After an ignored INSERT there is a row: no code deletes members.         *)
FindAgain(r) ==
    /\ At(r, "again")
    /\ members[MemberOf(r)] # "none"
    /\ Found(r)

(* The row is there, whether or not the statement counts as an insert.      *)
InsertMember(r) ==
    LET m == MemberOf(r) IN
    /\ At(r, "insert")
    /\ members' = IF members[m] = "none" THEN [members EXCEPT ![m] = "admin"]
                  ELSE members
    /\ IF Inserted(m)
         THEN /\ Commit(Added(m))
              /\ request' = [request EXCEPT ![r].at = After(Added(m)),
                                            ![r].change = Added(m)]
         ELSE MoveTo(r, "again") /\ UNCHANGED changed
    /\ UNCHANGED <<accounts, plan, reported, mailed, answered, begun, failures>>

PromoteMember(r) ==
    LET m == MemberOf(r) IN
    /\ At(r, "promote")
    /\ members' = Elevated(m)
    /\ Commit(Promoted(m))
    /\ request' = [request EXCEPT ![r].at = After(Promoted(m)),
                                  ![r].change = Promoted(m)]
    /\ UNCHANGED <<accounts, plan, reported, mailed, answered, begun, failures>>

(* The access email may fail; the grant is answered with success.           *)
SendAccessEmail(r) ==
    LET m == MemberOf(r) IN
    /\ At(r, "mail")
    /\ \/ mailed' = [mailed EXCEPT ![m] = @ + 1]
       \/ UNCHANGED mailed
    /\ answered' = answered \cup {m}
    /\ End(r)
    /\ UNCHANGED <<tables, changed, reported, begun, failures>>

-----------------------------------------------------------------------------
(* update_plan: validate the patch, read the row, merge, write every column. *)

ReadPlan(r, named, value) ==
    /\ "modules" \in named => Valid(value.modules)
    /\ Begin(r)
    /\ request' = [request EXCEPT ![r] =
         [Idle EXCEPT !.at = "write", !.named = named,
                      !.row = Merged(named, value, plan)]]
    /\ UNCHANGED <<tables, changed, reported, mailed, answered, failures>>

WritePlan(r) ==
    /\ At(r, "write")
    /\ plan' = request[r].row
    /\ Commit(PlanUpdate)
    /\ request' = [q \in Request |->
         IF q = r THEN [Idle EXCEPT !.at = After(PlanUpdate), !.change = PlanUpdate]
         ELSE IF At(q, "write")
           THEN [request[q] EXCEPT !.missed =
                   @ \cup request[r].named \cup request[r].missed]
           ELSE request[q]]
    /\ UNCHANGED <<accounts, members, reported, mailed, answered, begun, failures>>

-----------------------------------------------------------------------------

(* audit::write.  A grant goes on to the email.                             *)
Report(r) ==
    /\ At(r, "audit")
    /\ reported' = [reported EXCEPT ![request[r].change] = @ + 1]
    /\ IF MemberOf(r) # None THEN MoveTo(r, "mail") ELSE End(r)
    /\ UNCHANGED <<tables, changed, mailed, answered, begun, failures>>

(* A statement fails, or the worker stops.                                  *)
Fail(r) ==
    /\ request[r] # Idle
    /\ failures < MaxFailures
    /\ failures' = failures + 1
    /\ End(r)
    /\ UNCHANGED <<tables, changed, reported, mailed, answered, begun>>

Next ==
    \E r \in Request :
        \/ \E a \in Account : \/ \E e \in Email : CreateAccount(r, a, e)
                              \/ CreateManualSubscription(r, a)
        \/ CreatePlanPrice(r)
        \/ \E m \in Member : StartGrant(r, m)
        \/ \E named \in SUBSET Field, value \in Plan : ReadPlan(r, named, value)
        \/ FindMember(r)
        \/ InsertMember(r)
        \/ FindAgain(r)
        \/ PromoteMember(r)
        \/ WritePlan(r)
        \/ Report(r)
        \/ SendAccessEmail(r)
        \/ Fail(r)

Spec == Init /\ [][Next]_vars

-----------------------------------------------------------------------------
(* Properties.                                                              *)

(* A plan never offers a module without those it depends on, although       *)
(* patches are validated alone and merged into rows that may be stale: so   *)
(* no lease carries such a module.                                          *)
PlansAreClosed == Closed(plan.modules)

(* A plan's field is changed by a patch that names it.  Only a patch that   *)
(* overlapped such a patch can undo it, by writing back what it had read.   *)
PatchesKeepTheRest ==
    [][\A f \in Field : plan'[f] # plan[f] =>
         \E r \in Request :
            /\ At(r, "write") /\ ~ At(r, "write")'
            /\ f \in request[r].named \cup request[r].missed]_vars

(* Who was told, or is reported, to be an administrator is one, and an      *)
(* account has one from its first moment.                                   *)
GrantsAreGiven ==
    /\ \A m \in Member :
         m \in answered \/ mailed[m] > 0 \/ reported[Added(m)] > 0
            \/ reported[Promoted(m)] > 0 => members[m] = "admin"
    /\ \A a \in accounts : \E e \in Email : members[<<a, e>>] = "admin"

(* Racing grants add one membership, once, and one that was added is never  *)
(* promoted.                                                                *)
AddedOnce ==
    \A m \in Member :
        /\ changed[Added(m)] <= 1
        /\ changed[Added(m)] = 1 => changed[Promoted(m)] = 0

(* Nothing is reported that did not happen, and what happened goes          *)
(* unreported only while its request is under way or when one failed.  No   *)
(* access email goes out for a grant that was not reported.                 *)
ReportedUnlessFailed ==
    /\ \A m \in Member :
        mailed[m] <= reported[Added(m)] + reported[Promoted(m)]
    /\ \A c \in Change :
        /\ reported[c] <= changed[c]
        /\ changed[c] <= reported[c] + failures
             + Cardinality({r \in Request :
                              At(r, "audit") /\ request[r].change = c})

-----------------------------------------------------------------------------
(* Overlapping, stale and failing requests implement Administration: grants *)
(* are given before they are reported, mailed and answered, each is added   *)
(* once, and the trail tells of nothing that did not happen.                *)
General ==
    {PlanUpdate, NewPrice}
        \cup {NewAccount(a) : a \in Account}
        \cup {ManualSubscription(a) : a \in Account}

Offer == {row \in Plan : Closed(row.modules)}

Office == INSTANCE Administration

ImplementsAdministration == Office!Spec

=============================================================================
