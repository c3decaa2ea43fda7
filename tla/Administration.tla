--------------------------- MODULE Administration ---------------------------
(***************************************************************************)
(* What the owner's operations promise, without requests and failures.     *)
(*                                                                         *)
(*   - who is an administrator stays one; a membership is added once, and  *)
(*     only one that was there before is promoted;                         *)
(*   - a plan is only ever replaced by one that may be offered;            *)
(*   - the trail reports what happened, no more often than it did; an      *)
(*     access email is sent for a grant the trail reports, and no grant is *)
(*     answered with success before it is given.                           *)
(***************************************************************************)
EXTENDS Integers

CONSTANTS
    Member,         \* pairs of an account and an email
    Change,         \* what the trail can report
    General,        \* the changes that concern no member
    Offer,          \* plans that may be offered
    Added(_),       \* the change that adds a member
    Promoted(_)     \* the change that makes a member an administrator

VARIABLES
    accounts,   \* accounts there are
    members,    \* role of each member
    plan,       \* the plan that is offered
    changed,    \* how often each change happened
    reported,   \* how often the trail reports it
    mailed,     \* access emails sent to each member
    answered    \* grants answered with success

tables == <<accounts, members, plan>>

vars == <<tables, changed, reported, mailed, answered>>

Init ==
    /\ \A a \in accounts : \E m \in Member : m[1] = a /\ members[m] = "admin"
    /\ \A m \in Member : members[m] # "none" => m[1] \in accounts
    /\ plan \in Offer
    /\ changed = [c \in Change |-> 0]
    /\ reported = [c \in Change |-> 0]
    /\ mailed = [m \in Member |-> 0]
    /\ answered = {}

Happens(c) ==
    /\ changed' = [changed EXCEPT ![c] = @ + 1]
    /\ UNCHANGED <<reported, mailed, answered>>

MakeAdministrator(m) == members' = [members EXCEPT ![m] = "admin"]

Open(m) ==
    /\ m[1] \notin accounts
    /\ accounts' = accounts \cup {m[1]}
    /\ MakeAdministrator(m)
    /\ \E c \in General : Happens(c)
    /\ UNCHANGED plan

Add(m) ==
    /\ m[1] \in accounts
    /\ members[m] = "none"
    /\ MakeAdministrator(m)
    /\ Happens(Added(m))
    /\ UNCHANGED <<accounts, plan>>

Promote(m) ==
    /\ members[m] # "none"
    /\ changed[Added(m)] = 0
    /\ MakeAdministrator(m)
    /\ Happens(Promoted(m))
    /\ UNCHANGED <<accounts, plan>>

(* A plan is replaced, or something happens that is not in these tables.    *)
Amend ==
    /\ plan' \in Offer
    /\ \E c \in General : Happens(c)
    /\ UNCHANGED <<accounts, members>>

Report(c) ==
    /\ reported[c] < changed[c]
    /\ reported' = [reported EXCEPT ![c] = @ + 1]
    /\ UNCHANGED <<tables, changed, mailed, answered>>

Mail(m) ==
    /\ mailed[m] < reported[Added(m)] + reported[Promoted(m)]
    /\ mailed' = [mailed EXCEPT ![m] = @ + 1]
    /\ answered' = answered \cup {m}
    /\ UNCHANGED <<tables, changed, reported>>

Answer(m) ==
    /\ members[m] = "admin"
    /\ answered' = answered \cup {m}
    /\ UNCHANGED <<tables, changed, reported, mailed>>

Next ==
    \/ Amend
    \/ \E c \in Change : Report(c)
    \/ \E m \in Member : \/ Open(m)
                         \/ Add(m)
                         \/ Promote(m)
                         \/ Mail(m)
                         \/ Answer(m)

Spec == Init /\ [][Next]_vars

=============================================================================
