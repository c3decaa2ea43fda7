----------------------- MODULE OwnerOperationsProofs -----------------------
(***************************************************************************)
(* Proofs about OwnerOperations, for any number of accounts, emails,       *)
(* modules, requests, operations and failures.                             *)
(***************************************************************************)
EXTENDS OwnerOperations, FiniteSetTheorems, TLAPS

-----------------------------------------------------------------------------
(* What a request knows at each step.                                       *)

Granting == {"member", "insert", "again", "promote", "mail"}

Knows(r) ==
    LET q == request[r]
        m == request[r].member
    IN
    /\ q.at \in Granting => m \in Member
    /\ m # None => m[1] \in accounts
    /\ q.at = "promote" => members[m] # "none" /\ changed[Added(m)] = 0
    /\ q.at = "mail" \/ (q.at = "audit" /\ m # None) => members[m] = "admin"
    /\ q.at = "write" => q.row \in Plan /\ Closed(q.row.modules)
    /\ q.at = "audit" => q.change \in Change /\ changed[q.change] > 0

(* What the tables, the trail and the answers say of each other.            *)
HasAdministrator == \A a \in accounts : \E e \in Email : members[<<a, e>>] = "admin"

ReportedHappened == \A c \in Change : reported[c] > 0 => changed[c] > 0

GrantedIsGiven ==
    \A m \in Member :
        \/ m \in answered
        \/ mailed[m] > 0
        \/ changed[Added(m)] > 0
        \/ changed[Promoted(m)] > 0
        => members[m] = "admin"

IInv ==
    /\ TypeOK
    /\ PlansAreClosed
    /\ HasAdministrator
    /\ ReportedHappened
    /\ GrantedIsGiven
    /\ AddedOnce
    /\ \A r \in Request : Knows(r)

(* The changes are told apart by what they are and whom they concern.       *)
LEMMA Changes ==
    /\ \A m \in Member : /\ Added(m) \in Change
                         /\ Promoted(m) \in Change
                         /\ \A n \in Member : Added(m) # Promoted(n)
                         /\ \A n \in Member : Added(m) = Added(n) => m = n
                         /\ \A n \in Member : Promoted(m) = Promoted(n) => m = n
    /\ PlanUpdate \in Change
    /\ \A m \in Member : PlanUpdate # Added(m) /\ PlanUpdate # Promoted(m)
    /\ NewPrice \in Change
    /\ \A m \in Member : NewPrice # Added(m) /\ NewPrice # Promoted(m)
    /\ \A a \in Account :
         /\ NewAccount(a) \in Change /\ ManualSubscription(a) \in Change
         /\ \A m \in Member :
              /\ NewAccount(a) # Added(m) /\ NewAccount(a) # Promoted(m)
              /\ ManualSubscription(a) # Added(m)
              /\ ManualSubscription(a) # Promoted(m)
<1>1. \A m \in Member : /\ m = <<m[1], m[2]>>
                         /\ m[1] \in Account /\ m[2] \in Email
      BY DEF Member
<1>2. \A m \in Member : Added(m) \in Change /\ Promoted(m) \in Change
      BY <1>1 DEF Added, Promoted, Change, Action
<1>3. \A m, n \in Member : Added(m) # Promoted(n)
      BY DEF Added, Promoted
<1>4. ASSUME NEW m \in Member, NEW n \in Member,
             Added(m) = Added(n) \/ Promoted(m) = Promoted(n)
      PROVE  m = n
  <2>1. m[1] = n[1] /\ m[2] = n[2]
        BY <1>4 DEF Added, Promoted
  <2> QED BY <1>1, <2>1
<1>5. /\ PlanUpdate \in Change
      /\ \A m \in Member : PlanUpdate # Added(m) /\ PlanUpdate # Promoted(m)
      /\ NewPrice \in Change
      /\ \A m \in Member : NewPrice # Added(m) /\ NewPrice # Promoted(m)
      BY DEF Added, Promoted, PlanUpdate, NewPrice, Change, Action
<1>6. \A a \in Account :
         /\ NewAccount(a) \in Change /\ ManualSubscription(a) \in Change
         /\ \A m \in Member :
              /\ NewAccount(a) # Added(m) /\ NewAccount(a) # Promoted(m)
              /\ ManualSubscription(a) # Added(m)
              /\ ManualSubscription(a) # Promoted(m)
      BY DEF Added, Promoted, NewAccount, ManualSubscription, Change, Action
<1> QED BY <1>2, <1>3, <1>4, <1>5, <1>6

(* The invariant holds at the start.                                        *)
LEMMA InvInit == Init => IInv
<1> SUFFICES ASSUME Init
             PROVE  IInv
    OBVIOUS
<1>1. TypeOK
      BY OwnerBounds DEF Init, TypeOK, Idle, RequestState, Steps, Field
<1>2. \A r \in Request : Knows(r)
      BY DEF Init, Knows, Idle, Granting
<1>3. GrantedIsGiven /\ AddedOnce /\ ReportedHappened
      BY Changes DEF Init, GrantedIsGiven, AddedOnce, ReportedHappened
<1> QED BY <1>1, <1>2, <1>3 DEF Init, IInv, PlansAreClosed, HasAdministrator

-----------------------------------------------------------------------------
(* What no step takes back: accounts, memberships and what was committed; a *)
(* membership that exists is not added again.                               *)
Kept ==
    /\ accounts \subseteq accounts'
    /\ \A m \in Member :
         /\ members[m] # "none" => /\ members'[m] # "none"
                                   /\ changed'[Added(m)] = changed[Added(m)]
         /\ members[m] = "admin" => members'[m] = "admin"
    /\ \A c \in Change : changed[c] > 0 => changed'[c] > 0

(* A request that a step leaves alone, but for what it has missed, knows    *)
(* what it knew.                                                            *)
LEMMA OthersKnow ==
    ASSUME IInv, Kept, NEW q \in Request,
           /\ request'[q].at = request[q].at
           /\ request'[q].change = request[q].change
           /\ request'[q].member = request[q].member
           /\ request'[q].row = request[q].row
    PROVE  Knows(q)'
<1>1. Knows(q) /\ request[q].member \in Member \cup {None}
      BY DEF IInv, TypeOK, RequestState
<1>2. request[q].change \in Change \cup {None}
      BY DEF IInv, TypeOK, RequestState
<1>3. request[q].member # None => request[q].member[1] \in accounts'
      BY <1>1 DEF Knows, Kept
<1>4. request[q].at \in Granting => request[q].member \in Member
      BY <1>1 DEF Knows
<1>5. request[q].at = "promote" =>
        /\ members'[request[q].member] # "none"
        /\ changed'[Added(request[q].member)] = 0
      BY <1>1, <1>4 DEF Knows, Kept, Granting
<1>6. request[q].at = "mail" \/ (request[q].at = "audit" /\ request[q].member # None)
        => members'[request[q].member] = "admin"
      BY <1>1, <1>4 DEF Knows, Kept, Granting
<1>7. request[q].at = "audit" => changed'[request[q].change] > 0
      BY <1>1 DEF Knows, Kept
<1> QED BY <1>1, <1>3, <1>4, <1>5, <1>6, <1>7 DEF Knows

(* It is enough that one request's step keeps the rest and leaves it with   *)
(* what it must know.                                                       *)
LEMMA OneRequest ==
    ASSUME IInv, Kept, TypeOK', NEW r \in Request, Knows(r)',
           \A q \in Request \ {r} :
              /\ request'[q].at = request[q].at
              /\ request'[q].change = request[q].change
              /\ request'[q].member = request[q].member
              /\ request'[q].row = request[q].row,
           PlansAreClosed', HasAdministrator', ReportedHappened',
           GrantedIsGiven', AddedOnce'
    PROVE  IInv'
<1>1. \A q \in Request : Knows(q)'
      BY OthersKnow
<1> QED BY <1>1 DEF IInv

(* A change is counted, and no other.                                       *)
LEMMA Counted ==
    ASSUME TypeOK, NEW c \in Change, Commit(c)
    PROVE  /\ changed' \in [Change -> Nat]
           /\ changed'[c] = changed[c] + 1 /\ changed'[c] > 0
           /\ \A d \in Change \ {c} : changed'[d] = changed[d]
           /\ \A d \in Change : changed[d] > 0 => changed'[d] > 0
BY DEF TypeOK, Commit

(* The new state of one request.                                            *)
LEMMA Typed ==
    ASSUME TypeOK, NEW r \in Request, NEW v \in RequestState,
           request' = [request EXCEPT ![r] = v]
    PROVE  /\ request' \in [Request -> RequestState]
           /\ request'[r] = v
           /\ \A q \in Request \ {r} : request'[q] = request[q]
BY DEF TypeOK

(* Steps that move one request and change no table and no trail.            *)
LEMMA RequestOnly ==
    ASSUME IInv, NEW r \in Request, NEW v \in RequestState,
           request' = [request EXCEPT ![r] = v],
           UNCHANGED <<tables, changed, reported, mailed, answered>>,
           begun' \in 0 .. MaxOperations, failures' \in 0 .. MaxFailures,
           Knows(r)'
    PROVE  IInv'
<1>1. /\ request' \in [Request -> RequestState]
      /\ \A q \in Request \ {r} : request'[q] = request[q]
      BY Typed DEF IInv
<1>2. TypeOK'
      BY <1>1 DEF IInv, TypeOK, tables
<1>3. Kept
      BY DEF Kept, tables
<1>4. PlansAreClosed' /\ HasAdministrator' /\ ReportedHappened'
      BY DEF IInv, PlansAreClosed, HasAdministrator, ReportedHappened, tables
<1>5. GrantedIsGiven' /\ AddedOnce'
      BY DEF IInv, GrantedIsGiven, AddedOnce, tables
<1> QED BY <1>1, <1>2, <1>3, <1>4, <1>5, OneRequest

(* A request ends without more ado.                                         *)
LEMMA EndKnows ==
    ASSUME TypeOK, NEW r \in Request, End(r)
    PROVE  /\ Idle \in RequestState
           /\ request' = [request EXCEPT ![r] = Idle]
           /\ Knows(r)'
<1>1. Idle \in RequestState
      BY DEF Idle, RequestState, Steps, Field
<1>2. request' = [request EXCEPT ![r] = Idle] /\ request'[r] = Idle
      BY DEF End, TypeOK
<1> QED BY <1>1, <1>2 DEF Knows, Idle, Granting

-----------------------------------------------------------------------------
(* Each action keeps the invariant.                                         *)

(* A new account brings its administrator and one change to report.         *)
LEMMA CreateAccountStep ==
    ASSUME IInv, NEW r \in Request, NEW a \in Account, NEW e \in Email,
           CreateAccount(r, a, e)
    PROVE  IInv'
<1> DEFINE c == NewAccount(a)
           v == [Idle EXCEPT !.at = "audit", !.change = c]
<1>0. TypeOK
      BY DEF IInv
<1>1. /\ begun' = begun + 1 /\ begun < MaxOperations
      /\ a \notin accounts /\ accounts' = accounts \cup {a}
      /\ members' = [members EXCEPT ![<<a, e>>] = "admin"]
      /\ Commit(c)
      /\ request' = [request EXCEPT ![r] = v]
      /\ UNCHANGED <<plan, reported, mailed, answered, failures>>
      BY DEF CreateAccount, Begin, WithAccount, After
<1>2. c \in Change /\ \A m \in Member : c # Added(m) /\ c # Promoted(m)
      BY Changes
<1>3. /\ changed' \in [Change -> Nat] /\ changed'[c] > 0
      /\ \A d \in Change \ {c} : changed'[d] = changed[d]
      /\ \A d \in Change : changed[d] > 0 => changed'[d] > 0
      BY <1>0, <1>1, <1>2, Counted
<1>4. v \in RequestState
      BY <1>2 DEF Idle, RequestState, Steps, Field
<1>5. /\ request' \in [Request -> RequestState]
      /\ request'[r] = v
      /\ \A q \in Request \ {r} : request'[q] = request[q]
      BY <1>0, <1>1, <1>4, Typed
<1>6. /\ members' \in [Member -> Role]
      /\ members'[<<a, e>>] = "admin"
      /\ \A m \in Member : m # <<a, e>> => members'[m] = members[m]
      /\ members[<<a, e>>] = "none"
      BY <1>0, <1>1 DEF TypeOK, Member, Role
<1>7. TypeOK'
      BY <1>0, <1>1, <1>3, <1>5, <1>6, OwnerBounds DEF TypeOK, Member
<1>8. Kept
      BY <1>1, <1>2, <1>3, <1>6, Changes DEF Kept
<1>9. Knows(r)'
      BY <1>2, <1>3, <1>5 DEF Knows, Idle, Granting
<1>10. PlansAreClosed' /\ ReportedHappened'
      BY <1>1, <1>3 DEF IInv, PlansAreClosed, ReportedHappened
<1>11. HasAdministrator'
  <2> SUFFICES ASSUME NEW b \in accounts'
               PROVE  \E f \in Email : members'[<<b, f>>] = "admin"
      BY DEF HasAdministrator
  <2>1. CASE b = a
        BY <1>6, <2>1
  <2>2. CASE b # a
    <3>1. PICK f \in Email : members[<<b, f>>] = "admin"
          BY <1>1, <2>2 DEF IInv, HasAdministrator
    <3>2. <<b, f>> \in Member /\ <<b, f>> # <<a, e>>
          BY <1>0, <1>1, <2>2 DEF TypeOK, Member
    <3> QED BY <1>6, <3>1, <3>2
  <2> QED BY <2>1, <2>2
<1>12. GrantedIsGiven' /\ AddedOnce'
  <2>1. \A m \in Member : /\ changed'[Added(m)] = changed[Added(m)]
                          /\ changed'[Promoted(m)] = changed[Promoted(m)]
        BY <1>2, <1>3, Changes
  <2> QED BY <1>1, <1>6, <2>1 DEF IInv, GrantedIsGiven, AddedOnce
<1> QED BY <1>5, <1>7, <1>8, <1>9, <1>10, <1>11, <1>12, OneRequest

(* Steps that only commit a change to report, of no table here.             *)
LEMMA ChangeStep ==
    ASSUME IInv, NEW r \in Request, NEW c \in Change,
           \A m \in Member : c # Added(m) /\ c # Promoted(m),
           Begin(r), Commit(c),
           request' = [request EXCEPT ![r] =
                         [Idle EXCEPT !.at = "audit", !.change = c]],
           UNCHANGED <<tables, reported, mailed, answered, failures>>
    PROVE  IInv'
<1> DEFINE v == [Idle EXCEPT !.at = "audit", !.change = c]
<1>0. TypeOK
      BY DEF IInv
<1>1. /\ begun' = begun + 1 /\ begun < MaxOperations
      /\ Commit(c)
      /\ request' = [request EXCEPT ![r] = v]
      /\ UNCHANGED <<tables, reported, mailed, answered, failures>>
      BY DEF Begin
<1>2. c \in Change /\ \A m \in Member : c # Added(m) /\ c # Promoted(m)
      OBVIOUS
<1>3. /\ changed' \in [Change -> Nat] /\ changed'[c] > 0
      /\ \A d \in Change \ {c} : changed'[d] = changed[d]
      /\ \A d \in Change : changed[d] > 0 => changed'[d] > 0
      BY <1>0, <1>1, <1>2, Counted
<1>4. v \in RequestState
      BY <1>2 DEF Idle, RequestState, Steps, Field
<1>5. /\ request' \in [Request -> RequestState]
      /\ request'[r] = v
      /\ \A q \in Request \ {r} : request'[q] = request[q]
      BY <1>0, <1>1, <1>4, Typed
<1>6. TypeOK'
      BY <1>0, <1>1, <1>3, <1>5, OwnerBounds DEF TypeOK, tables
<1>7. \A m \in Member : /\ changed'[Added(m)] = changed[Added(m)]
                        /\ changed'[Promoted(m)] = changed[Promoted(m)]
      BY <1>2, <1>3, Changes
<1>8. Kept
      BY <1>1, <1>3, <1>7 DEF Kept, tables
<1>9. Knows(r)'
      BY <1>2, <1>3, <1>5 DEF Knows, Idle, Granting
<1>10. PlansAreClosed' /\ HasAdministrator' /\ ReportedHappened'
      BY <1>1, <1>3 DEF IInv, PlansAreClosed, HasAdministrator,
                        ReportedHappened, tables
<1>11. GrantedIsGiven' /\ AddedOnce'
      BY <1>1, <1>7 DEF IInv, GrantedIsGiven, AddedOnce, tables
<1> QED BY <1>5, <1>6, <1>8, <1>9, <1>10, <1>11, OneRequest

(* Manual subscriptions and prices are such changes.                        *)
LEMMA CreateManualSubscriptionStep ==
    ASSUME IInv, NEW r \in Request, NEW a \in Account,
           CreateManualSubscription(r, a)
    PROVE  IInv'
BY Changes, ChangeStep DEF CreateManualSubscription, After

LEMMA CreatePlanPriceStep ==
    ASSUME IInv, NEW r \in Request, CreatePlanPrice(r)
    PROVE  IInv'
BY Changes, ChangeStep DEF CreatePlanPrice, After

(* A grant starts knowing that its account exists.                          *)
LEMMA StartGrantStep ==
    ASSUME IInv, NEW r \in Request, NEW m \in Member, StartGrant(r, m)
    PROVE  IInv'
<1> DEFINE v == [Idle EXCEPT !.at = "member", !.member = m]
<1>1. v \in RequestState
      BY DEF Idle, RequestState, Steps, Field
<1>2. /\ request' = [request EXCEPT ![r] = v]
      /\ UNCHANGED <<tables, changed, reported, mailed, answered, failures>>
      /\ m[1] \in accounts
      /\ begun' \in 0 .. MaxOperations /\ failures' \in 0 .. MaxFailures
      BY OwnerBounds DEF StartGrant, Begin, IInv, TypeOK
<1>3. request'[r] = v
      BY <1>1, <1>2, Typed DEF IInv
<1>4. /\ request'[r].at = "member" /\ request'[r].member = m
      /\ m[1] \in accounts'
      BY <1>2, <1>3 DEF Idle, tables
<1>5. Knows(r)'
      BY <1>4 DEF Knows, Granting
<1> QED BY <1>1, <1>2, <1>5, RequestOnly

(* A patch keeps a row whose modules are closed.                            *)
LEMMA ReadPlanStep ==
    ASSUME IInv, NEW r \in Request, NEW named \in SUBSET Field,
           NEW value \in Plan, ReadPlan(r, named, value)
    PROVE  IInv'
<1> DEFINE row == Merged(named, value, plan)
           v == [Idle EXCEPT !.at = "write", !.named = named, !.row = row]
<1>1. row \in Plan /\ Closed(row.modules)
      BY DEF ReadPlan, Merged, Valid, Plan, IInv, TypeOK, PlansAreClosed
<1>2. v \in RequestState
      BY <1>1 DEF Idle, RequestState, Steps, Field
<1>3. /\ request' = [request EXCEPT ![r] = v]
      /\ UNCHANGED <<tables, changed, reported, mailed, answered, failures>>
      /\ begun' \in 0 .. MaxOperations /\ failures' \in 0 .. MaxFailures
      BY OwnerBounds DEF ReadPlan, Begin, IInv, TypeOK
<1>4. request'[r] = v
      BY <1>2, <1>3, Typed DEF IInv
<1>5. Knows(r)'
      BY <1>1, <1>4 DEF Knows, Idle, Granting
<1> QED BY <1>2, <1>3, <1>5, RequestOnly

(* A failing request leaves tables and trail as they were.                  *)
LEMMA FailStep ==
    ASSUME IInv, NEW r \in Request, Fail(r)
    PROVE  IInv'
<1>1. /\ End(r)
      /\ UNCHANGED <<tables, changed, reported, mailed, answered>>
      /\ begun' \in 0 .. MaxOperations /\ failures' \in 0 .. MaxFailures
      BY OwnerBounds DEF Fail, IInv, TypeOK
<1> QED BY <1>1, EndKnows, RequestOnly DEF IInv

(* Steps that answer or mail a grant of an administrator and end.           *)
LEMMA AnswerStep ==
    ASSUME IInv, NEW r \in Request, NEW m \in Member, members[m] = "admin",
           End(r), answered' = answered \cup {m},
           \/ UNCHANGED mailed
           \/ mailed' = [mailed EXCEPT ![m] = @ + 1],
           UNCHANGED <<tables, changed, reported, begun, failures>>
    PROVE  IInv'
<1>0. TypeOK
      BY DEF IInv
<1>1. /\ Idle \in RequestState
      /\ request' = [request EXCEPT ![r] = Idle]
      /\ Knows(r)'
      BY <1>0, EndKnows
<1>2. /\ request' \in [Request -> RequestState]
      /\ \A q \in Request \ {r} : request'[q] = request[q]
      BY <1>0, <1>1, Typed
<1>3. /\ mailed' \in [Member -> Nat]
      /\ \A n \in Member \ {m} : mailed'[n] = mailed[n]
      BY <1>0 DEF TypeOK
<1>4. TypeOK'
      BY <1>0, <1>2, <1>3 DEF TypeOK, tables
<1>5. Kept
      BY DEF Kept, tables
<1>6. PlansAreClosed' /\ HasAdministrator' /\ ReportedHappened'
      BY DEF IInv, PlansAreClosed, HasAdministrator, ReportedHappened, tables
<1>7. GrantedIsGiven' /\ AddedOnce'
      BY <1>3 DEF IInv, GrantedIsGiven, AddedOnce, tables
<1> QED BY <1>1, <1>2, <1>4, <1>5, <1>6, <1>7, OneRequest

(* What a lookup finds of a member stays true while the grant goes on.      *)
LEMMA FoundStepKeeps ==
    ASSUME IInv, NEW r \in Request, MemberOf(r) \in Member, Found(r)
    PROVE  IInv'
<1> DEFINE m == MemberOf(r)
           step == FoundStep(members[m])
<1>0. TypeOK /\ Knows(r) /\ members[m] \in Role
      BY DEF IInv, TypeOK
<1>1. CASE members[m] = "admin"
  <2>1. /\ End(r) /\ answered' = answered \cup {m}
        /\ UNCHANGED <<tables, changed, reported, mailed, begun, failures>>
        BY <1>1 DEF Found, FoundStep
  <2> QED BY <1>1, <2>1, AnswerStep
<1>2. CASE members[m] # "admin"
  <2>1. step = IF members[m] = "none" THEN "insert" ELSE "promote"
        BY <1>2 DEF FoundStep
  <2>2. /\ MoveTo(r, step)
        /\ UNCHANGED <<tables, changed, reported, mailed, answered, begun,
                       failures>>
        BY <2>1 DEF Found
  <2> DEFINE v == [request[r] EXCEPT !.at = step]
  <2>3. request[r] \in RequestState /\ step \in Steps
        BY <1>0, <2>1 DEF TypeOK, Steps
  <2>4. v \in RequestState
        BY <2>3 DEF RequestState
  <2>5. request' = [request EXCEPT ![r] = v]
        BY <2>2 DEF MoveTo
  <2>6. /\ request'[r].at = step
        /\ request'[r].member = m
        BY <1>0, <2>3, <2>4, <2>5, Typed DEF RequestState, MemberOf
  <2>7. m[1] \in accounts
        BY <1>0, NoneIsNoMember DEF Knows, MemberOf, Member
  <2>8. members[m] = "none" \/ changed[Added(m)] = 0
        BY <1>2, Changes DEF IInv, GrantedIsGiven, TypeOK
  <2>9. Knows(r)'
        BY <2>1, <2>2, <2>6, <2>7, <2>8 DEF Knows, Granting, tables
  <2> QED BY <1>0, <2>2, <2>4, <2>5, <2>9, RequestOnly DEF TypeOK
<1> QED BY <1>1, <1>2

(* Steps that make one member an administrator and count it.                *)
LEMMA GrantedStep ==
    ASSUME IInv, NEW r \in Request, NEW m \in Member, NEW c \in Change,
           request[r].member = m,
           members' = [members EXCEPT ![m] = "admin"], Commit(c),
           \/ members[m] = "none" /\ c = Added(m)
           \/ members[m] # "none" /\ c = Promoted(m) /\ changed[Added(m)] = 0,
           request' = [request EXCEPT ![r].at = "audit", ![r].change = c],
           UNCHANGED <<accounts, plan, reported, mailed, answered, begun, failures>>
    PROVE  IInv'
<1>0. TypeOK /\ Knows(r)
      BY DEF IInv
<1> DEFINE v == [request[r] EXCEPT !.at = "audit", !.change = c]
<1>1. request[r] \in RequestState
      BY <1>0 DEF TypeOK
<1>2. v \in RequestState
      BY <1>1 DEF RequestState, Steps
<1>3. request' = [request EXCEPT ![r] = v]
      OBVIOUS
<1>4. /\ request' \in [Request -> RequestState]
      /\ request'[r] = v
      /\ \A q \in Request \ {r} : request'[q] = request[q]
      BY <1>0, <1>2, <1>3, Typed
<1>5. /\ request'[r].at = "audit" /\ request'[r].change = c
      /\ request'[r].member = m
      BY <1>1, <1>4 DEF RequestState
<1>6. m # None /\ m[1] \in accounts
      BY <1>0, NoneIsNoMember DEF Knows, Member
<1>7. /\ members' \in [Member -> Role] /\ members'[m] = "admin"
      /\ \A n \in Member \ {m} : members'[n] = members[n]
      BY <1>0 DEF TypeOK, Role
<1>8. /\ changed' \in [Change -> Nat]
      /\ changed'[c] = changed[c] + 1 /\ changed'[c] > 0
      /\ \A d \in Change \ {c} : changed'[d] = changed[d]
      /\ \A d \in Change : changed[d] > 0 => changed'[d] > 0
      BY <1>0, Counted
<1>9. \A n \in Member : Added(n) \in Change /\ Promoted(n) \in Change
      BY Changes
<1>10. \A n \in Member \ {m} : /\ changed'[Added(n)] = changed[Added(n)]
                              /\ changed'[Promoted(n)] = changed[Promoted(n)]
       BY <1>8, Changes
<1>11. TypeOK'
       BY <1>0, <1>4, <1>6, <1>7, <1>8 DEF TypeOK
<1>12. members[m] # "none" => changed'[Added(m)] = changed[Added(m)]
       BY <1>8, Changes
<1>13. Kept
       BY <1>7, <1>8, <1>10, <1>12 DEF Kept
<1>14. Knows(r)'
       BY <1>5, <1>6, <1>7, <1>8 DEF Knows, Granting
<1>15. PlansAreClosed' /\ ReportedHappened'
       BY <1>8 DEF IInv, PlansAreClosed, ReportedHappened
<1>16. HasAdministrator'
  <2>1. \A n \in Member : members[n] = "admin" => members'[n] = "admin"
        BY <1>7
  <2>2. \A a \in accounts, e \in Email : <<a, e>> \in Member
        BY <1>0 DEF TypeOK, Member
  <2> QED BY <2>1, <2>2 DEF IInv, HasAdministrator
<1>17. GrantedIsGiven'
       BY <1>7, <1>10 DEF IInv, GrantedIsGiven
<1>18. changed[Added(m)] \in Nat /\ changed[Promoted(m)] \in Nat
       BY <1>0, <1>9 DEF TypeOK
<1>19. /\ changed'[Added(m)] <= 1
       /\ changed'[Added(m)] = 1 => changed'[Promoted(m)] = 0
  <2>1. CASE members[m] = "none" /\ c = Added(m)
    <3>1. changed[Added(m)] = 0 /\ changed[Promoted(m)] = 0
          BY <1>18, <2>1 DEF IInv, GrantedIsGiven
    <3> QED BY <1>8, <2>1, <3>1, Changes
  <2>2. CASE members[m] # "none" /\ c = Promoted(m) /\ changed[Added(m)] = 0
        BY <1>12, <2>2
  <2> QED BY <2>1, <2>2
<1>20. AddedOnce'
       BY <1>10, <1>19 DEF IInv, AddedOnce
<1> QED BY <1>4, <1>11, <1>13, <1>14, <1>15, <1>16, <1>17, <1>20, OneRequest

(* The insert adds the member, or finds it added by another.                *)
LEMMA InsertMemberStep ==
    ASSUME IInv, NEW r \in Request, InsertMember(r)
    PROVE  IInv'
<1> DEFINE m == MemberOf(r)
<1>0. TypeOK /\ Knows(r)
      BY DEF IInv
<1>1. m \in Member /\ request[r].member = m
      BY <1>0 DEF InsertMember, At, Knows, Granting, MemberOf
<1>2. CASE members[m] = "none"
      BY <1>1, <1>2, GrantedStep, Changes DEF InsertMember, Inserted, After
<1>3. CASE members[m] # "none"
  <2> DEFINE v == [request[r] EXCEPT !.at = "again"]
  <2>1. /\ request' = [request EXCEPT ![r] = v]
        /\ UNCHANGED <<tables, changed, reported, mailed, answered, begun,
                       failures>>
        BY <1>3 DEF InsertMember, Inserted, MoveTo, tables
  <2>2. request[r] \in RequestState
        BY <1>0 DEF TypeOK
  <2>3. v \in RequestState
        BY <2>2 DEF RequestState, Steps
  <2>4. request'[r].at = "again" /\ request'[r].member = m
        BY <1>0, <1>1, <2>1, <2>2, <2>3, Typed DEF RequestState
  <2>5. m[1] \in accounts'
        BY <1>0, <1>1, <2>1, NoneIsNoMember DEF Knows, Member, tables
  <2>6. Knows(r)'
        BY <1>1, <2>4, <2>5 DEF Knows, Granting
  <2> QED BY <1>0, <2>1, <2>3, <2>6, RequestOnly DEF TypeOK
<1> QED BY <1>2, <1>3

(* A promotion makes an administrator of a member that was not added.       *)
LEMMA PromoteMemberStep ==
    ASSUME IInv, NEW r \in Request, PromoteMember(r)
    PROVE  IInv'
<1> DEFINE m == MemberOf(r)
<1>1. /\ m \in Member /\ request[r].member = m
      /\ members[m] # "none" /\ changed[Added(m)] = 0
      BY DEF IInv, PromoteMember, At, Knows, Granting, MemberOf
<1> QED BY <1>1, GrantedStep, Changes DEF PromoteMember, Elevated, After

(* The row written is closed, whatever was written in between.              *)
LEMMA WritePlanStep ==
    ASSUME IInv, NEW r \in Request, WritePlan(r)
    PROVE  IInv'
<1> DEFINE v == [Idle EXCEPT !.at = "audit", !.change = PlanUpdate]
<1>0. TypeOK /\ Knows(r)
      BY DEF IInv
<1>1. request[r].row \in Plan /\ Closed(request[r].row.modules)
      BY <1>0 DEF WritePlan, At, Knows
<1>2. /\ plan' = request[r].row
      /\ Commit(PlanUpdate)
      /\ UNCHANGED <<accounts, members, reported, mailed, answered, begun,
                     failures>>
      BY DEF WritePlan
<1>3. v \in RequestState
      BY Changes DEF Idle, RequestState, Steps, Field
<1>4. /\ request' \in [Request -> RequestState]
      /\ request'[r] = v
      /\ \A q \in Request \ {r} :
           /\ request'[q].at = request[q].at
           /\ request'[q].change = request[q].change
           /\ request'[q].member = request[q].member
           /\ request'[q].row = request[q].row
  <2>1. \A q \in Request : request[q] \in RequestState
        BY <1>0 DEF TypeOK
  <2> DEFINE w(q) == [request[q] EXCEPT !.missed =
                        @ \cup request[r].named \cup request[r].missed]
  <2>2. \A q \in Request :
           /\ w(q) \in RequestState
           /\ w(q).at = request[q].at /\ w(q).change = request[q].change
           /\ w(q).member = request[q].member /\ w(q).row = request[q].row
        BY <2>1 DEF RequestState
  <2>3. request' = [q \in Request |-> IF q = r THEN v
                                     ELSE IF At(q, "write") THEN w(q)
                                     ELSE request[q]]
        BY DEF WritePlan, After
  <2> HIDE DEF w, v
  <2> QED BY <1>3, <2>1, <2>2, <2>3
<1>5. /\ changed' \in [Change -> Nat]
      /\ changed'[PlanUpdate] > 0
      /\ \A d \in Change : changed[d] > 0 => changed'[d] > 0
      /\ \A m \in Member : /\ changed'[Added(m)] = changed[Added(m)]
                          /\ changed'[Promoted(m)] = changed[Promoted(m)]
      BY <1>0, <1>2, Counted, Changes
<1>6. TypeOK'
      BY <1>0, <1>1, <1>2, <1>4, <1>5 DEF TypeOK
<1>7. Kept
      BY <1>2, <1>5 DEF Kept
<1>8. request'[r].at = "audit" /\ request'[r].change = PlanUpdate
      /\ request'[r].member = None
      BY <1>4 DEF Idle
<1>9. Knows(r)'
      BY <1>5, <1>8, Changes DEF Knows, Granting
<1>10. PlansAreClosed' /\ HasAdministrator' /\ ReportedHappened'
       BY <1>1, <1>2, <1>5 DEF IInv, PlansAreClosed, HasAdministrator,
                               ReportedHappened
<1>11. GrantedIsGiven' /\ AddedOnce'
       BY <1>2, <1>5 DEF IInv, GrantedIsGiven, AddedOnce
<1> QED BY <1>4, <1>6, <1>7, <1>9, <1>10, <1>11, OneRequest

(* What is reported was changed, and its member is an administrator.        *)
LEMMA ReportStep ==
    ASSUME IInv, NEW r \in Request, Report(r)
    PROVE  IInv'
<1> DEFINE c == request[r].change
           m == request[r].member
           v == IF m # None THEN [request[r] EXCEPT !.at = "mail"] ELSE Idle
<1>0. TypeOK /\ Knows(r)
      BY DEF IInv
<1>1. /\ c \in Change /\ changed[c] > 0
      /\ m # None => members[m] = "admin" /\ m[1] \in accounts
      BY <1>0 DEF Report, At, Knows
<1>2. /\ reported' = [reported EXCEPT ![c] = @ + 1]
      /\ UNCHANGED <<tables, changed, mailed, answered, begun, failures>>
      /\ request' = [request EXCEPT ![r] = v]
      BY DEF Report, MemberOf, MoveTo, End
<1>3. request[r] \in RequestState
      BY <1>0 DEF TypeOK
<1>4. v \in RequestState
      BY <1>3 DEF Idle, RequestState, Steps, Field
<1>5. /\ request' \in [Request -> RequestState]
      /\ request'[r] = v
      /\ \A q \in Request \ {r} : request'[q] = request[q]
      BY <1>0, <1>2, <1>4, Typed
<1>6. /\ reported' \in [Change -> Nat]
      /\ \A d \in Change \ {c} : reported'[d] = reported[d]
      BY <1>0, <1>1, <1>2 DEF TypeOK
<1>7. TypeOK'
      BY <1>0, <1>2, <1>5, <1>6 DEF TypeOK, tables
<1>8. Kept
      BY <1>2 DEF Kept, tables
<1>9. Knows(r)'
  <2>1. CASE m = None
        BY <1>5, <2>1 DEF Knows, Idle, Granting
  <2>2. CASE m # None
    <3>1. request'[r].at = "mail" /\ request'[r].member = m
          BY <1>3, <1>5, <2>2 DEF RequestState
    <3>2. m \in Member
          BY <1>3, <2>2 DEF RequestState
    <3> QED BY <1>1, <1>2, <2>2, <3>1, <3>2 DEF Knows, Granting, tables
  <2> QED BY <2>1, <2>2
<1>10. PlansAreClosed' /\ HasAdministrator' /\ ReportedHappened'
       BY <1>1, <1>2, <1>6 DEF IInv, PlansAreClosed, HasAdministrator,
                               ReportedHappened, tables
<1>11. GrantedIsGiven' /\ AddedOnce'
       BY <1>2 DEF IInv, GrantedIsGiven, AddedOnce, tables
<1> QED BY <1>5, <1>7, <1>8, <1>9, <1>10, <1>11, OneRequest

(* All steps.                                                               *)
LEMMA InvStep == IInv /\ [Next]_vars => IInv'
<1> SUFFICES ASSUME IInv, [Next]_vars
             PROVE  IInv'
    OBVIOUS
<1>1. ASSUME NEW r \in Request, FindMember(r) \/ FindAgain(r)
      PROVE  IInv'
  <2>1. MemberOf(r) \in Member /\ Found(r)
        BY <1>1 DEF FindMember, FindAgain, At, MemberOf, IInv, Knows, Granting
  <2> QED BY <2>1, FoundStepKeeps
<1>2. ASSUME NEW r \in Request, SendAccessEmail(r)
      PROVE  IInv'
  <2>1. MemberOf(r) \in Member /\ members[MemberOf(r)] = "admin"
        BY <1>2 DEF SendAccessEmail, At, MemberOf, IInv, Knows, Granting
  <2> QED BY <1>2, <2>1, AnswerStep DEF SendAccessEmail
<1>3. CASE UNCHANGED vars
  <2>1. \A r \in Request : Knows(r)'
        BY <1>3 DEF IInv, Knows, vars, tables
  <2> QED BY <1>3, <2>1 DEF IInv, TypeOK, PlansAreClosed, HasAdministrator,
             ReportedHappened, GrantedIsGiven, AddedOnce, vars, tables
<1> QED BY <1>1, <1>2, <1>3, CreateAccountStep, CreateManualSubscriptionStep,
           CreatePlanPriceStep,
           StartGrantStep, ReadPlanStep, InsertMemberStep, PromoteMemberStep,
           WritePlanStep, ReportStep, FailStep DEF Next

-----------------------------------------------------------------------------
(* The types hold of every reachable state.                                 *)
THEOREM TypeCorrect == Spec => []TypeOK
<1>1. IInv => TypeOK
      BY DEF IInv
<1> QED BY <1>1, InvInit, InvStep, PTL DEF Spec

(* No sequence of overlapping patches leaves a plan with a module but       *)
(* without what that module needs.                                          *)
THEOREM PlansStayClosed == Spec => []PlansAreClosed
<1>1. IInv => PlansAreClosed
      BY DEF IInv
<1> QED BY <1>1, InvInit, InvStep, PTL DEF Spec

(* Who was told, mailed or reported to be an administrator is one.          *)
THEOREM GrantsHold == Spec => []GrantsAreGiven
<1>1. IInv => GrantsAreGiven
      BY Changes DEF IInv, GrantsAreGiven, HasAdministrator, ReportedHappened,
                     GrantedIsGiven
<1> QED BY <1>1, InvInit, InvStep, PTL DEF Spec

(* Racing grants add a membership once.                                     *)
THEOREM GrantedOnce == Spec => []AddedOnce
<1>1. IInv => AddedOnce
      BY DEF IInv
<1> QED BY <1>1, InvInit, InvStep, PTL DEF Spec

-----------------------------------------------------------------------------
(* A row waiting to be written differs from the plan only in fields that    *)
(* its patch named or that it missed.                                       *)
Fresh(r) ==
    LET seen == request[r].named \cup request[r].missed IN
    At(r, "write") =>
        /\ "modules" \notin seen => request[r].row.modules = plan.modules
        /\ "terms" \notin seen => request[r].row.terms = plan.terms

AllFresh == \A r \in Request : Fresh(r)

(* Every step keeps the rows of patches fresh but for missed fields.        *)
LEMMA FreshStep == IInv /\ AllFresh /\ [Next]_vars => AllFresh'
<1> SUFFICES ASSUME IInv, AllFresh, [Next]_vars, NEW q \in Request
             PROVE  Fresh(q)'
    BY DEF AllFresh
<1>0. TypeOK /\ Fresh(q) /\ request[q] \in RequestState
      BY DEF IInv, TypeOK, AllFresh
<1>1. ASSUME UNCHANGED plan,
             request'[q] = request[q] \/ ~ At(q, "write")'
      PROVE  Fresh(q)'
      BY <1>0, <1>1 DEF Fresh, At
<1>2. ASSUME NEW r \in Request, NEW named \in SUBSET Field,
             NEW value \in Plan, ReadPlan(r, named, value)
      PROVE  Fresh(q)'
  <2> DEFINE v == [Idle EXCEPT !.at = "write", !.named = named,
                               !.row = Merged(named, value, plan)]
  <2>1. plan' = plan /\ request' = [request EXCEPT ![r] = v]
        BY <1>2 DEF ReadPlan, tables
  <2>2. CASE q # r
        BY <1>0, <1>1, <2>1, <2>2 DEF TypeOK
  <2>3. CASE q = r
    <3>1. request'[q] = v
          BY <1>0, <2>1, <2>3 DEF TypeOK
    <3>2. /\ request'[q].named = named /\ request'[q].missed = {}
          /\ request'[q].row = Merged(named, value, plan)
          BY <3>1 DEF Idle
    <3>3. /\ "modules" \notin named => request'[q].row.modules = plan.modules
          /\ "terms" \notin named => request'[q].row.terms = plan.terms
          BY <3>2 DEF Merged
    <3> QED BY <2>1, <3>2, <3>3 DEF Fresh
  <2> QED BY <2>2, <2>3
<1>3. ASSUME NEW r \in Request, WritePlan(r)
      PROVE  Fresh(q)'
  <2> DEFINE seen == request[r].named \cup request[r].missed
             w == [request[q] EXCEPT !.missed =
                     @ \cup request[r].named \cup request[r].missed]
  <2>1. /\ plan' = request[r].row
        /\ "modules" \notin seen => plan'.modules = plan.modules
        /\ "terms" \notin seen => plan'.terms = plan.terms
        BY <1>3 DEF WritePlan, AllFresh, Fresh
  <2>2. CASE q # r /\ At(q, "write")
    <3>1. request'[q] = w
          BY <1>3, <2>2 DEF WritePlan
    <3>2. /\ w.named = request[q].named /\ w.row = request[q].row
          /\ w.missed = request[q].missed \cup seen
          BY <1>0 DEF RequestState
    <3> HIDE DEF w
    <3>3. /\ request'[q].named = request[q].named
          /\ request'[q].row = request[q].row
          /\ request'[q].missed = request[q].missed \cup seen
          BY <3>1, <3>2
    <3> QED BY <1>0, <2>1, <2>2, <3>3 DEF Fresh
  <2>3. CASE q # r /\ ~ At(q, "write")
    <3>1. request'[q] = request[q]
          BY <1>3, <2>3 DEF WritePlan
    <3> QED BY <2>3, <3>1 DEF Fresh, At
  <2>4. CASE q = r
    <3>1. request'[q] = [Idle EXCEPT !.at = "audit", !.change = PlanUpdate]
          BY <1>3, <2>4 DEF WritePlan, After
    <3>2. request'[q].at = "audit"
          BY <3>1 DEF Idle
    <3> QED BY <3>2 DEF Fresh, At
  <2> QED BY <2>2, <2>3, <2>4
<1>4. ASSUME NEW r \in Request,
             \/ \E a \in Account : \/ \E e \in Email : CreateAccount(r, a, e)
                                   \/ CreateManualSubscription(r, a)
             \/ CreatePlanPrice(r)
             \/ \E m \in Member : StartGrant(r, m)
             \/ FindMember(r) \/ InsertMember(r) \/ FindAgain(r)
             \/ PromoteMember(r) \/ Report(r) \/ SendAccessEmail(r) \/ Fail(r)
      PROVE  Fresh(q)'
  <2>1. plan' = plan /\ (q # r => request'[q] = request[q])
        BY <1>0, <1>4 DEF TypeOK, tables, CreateAccount,
           CreateManualSubscription, CreatePlanPrice, StartGrant, FindMember,
           InsertMember, FindAgain, Found, PromoteMember, Report, SendAccessEmail, Fail,
           MoveTo, End
  <2>2. request'[r].at \in {"audit", "member", "insert", "promote", "again",
                            "mail", "idle"}
    <3>1. request[r] \in RequestState
          BY <1>0 DEF TypeOK
    <3>2. ASSUME End(r)
          PROVE  request'[r].at = "idle"
          BY <1>0, <3>2 DEF End, TypeOK, Idle
    <3>3. ASSUME NEW s \in Steps, MoveTo(r, s)
          PROVE  request'[r].at = s
          BY <1>0, <3>1, <3>3 DEF MoveTo, TypeOK, RequestState
    <3>4. CASE \/ \E a \in Account : \/ \E e \in Email : CreateAccount(r, a, e)
                                     \/ CreateManualSubscription(r, a)
               \/ CreatePlanPrice(r)
               \/ \E m \in Member : StartGrant(r, m)
      <4>1. ASSUME NEW a \in Account, NEW e \in Email, CreateAccount(r, a, e)
            PROVE  request'[r].at \in {"audit", "member"}
        <5> DEFINE v == [Idle EXCEPT !.at = "audit", !.change = NewAccount(a)]
        <5>1. v.at = "audit"
              BY DEF Idle
        <5>2. request' = [request EXCEPT ![r] = v]
              BY <4>1 DEF CreateAccount, After
        <5> HIDE DEF v
        <5> QED BY <1>0, <5>1, <5>2 DEF TypeOK
      <4>2. ASSUME NEW a \in Account, CreateManualSubscription(r, a)
            PROVE  request'[r].at \in {"audit", "member"}
        <5> DEFINE v == [Idle EXCEPT !.at = "audit",
                                     !.change = ManualSubscription(a)]
        <5>1. v.at = "audit"
              BY DEF Idle
        <5>2. request' = [request EXCEPT ![r] = v]
              BY <4>2 DEF CreateManualSubscription, After
        <5> HIDE DEF v
        <5> QED BY <1>0, <5>1, <5>2 DEF TypeOK
      <4>3. ASSUME NEW m \in Member, StartGrant(r, m)
            PROVE  request'[r].at \in {"audit", "member"}
        <5> DEFINE v == [Idle EXCEPT !.at = "member", !.member = m]
        <5>1. v.at = "member"
              BY DEF Idle
        <5>2. request' = [request EXCEPT ![r] = v]
              BY <4>3 DEF StartGrant
        <5> HIDE DEF v
        <5> QED BY <1>0, <5>1, <5>2 DEF TypeOK
      <4>4. ASSUME CreatePlanPrice(r)
            PROVE  request'[r].at \in {"audit", "member"}
        <5> DEFINE v == [Idle EXCEPT !.at = "audit", !.change = NewPrice]
        <5>1. v.at = "audit"
              BY DEF Idle
        <5>2. request' = [request EXCEPT ![r] = v]
              BY <4>4 DEF CreatePlanPrice, After
        <5> HIDE DEF v
        <5> QED BY <1>0, <5>1, <5>2 DEF TypeOK
      <4> QED BY <3>4, <4>1, <4>2, <4>3, <4>4
    <3>5. CASE FindMember(r) \/ FindAgain(r)
      <4>1. FoundStep(members[MemberOf(r)]) \in {"insert", "promote", "idle"}
            BY DEF FoundStep
      <4> QED BY <3>2, <3>3, <3>5, <4>1 DEF FindMember, FindAgain, Found, Steps
    <3>6. CASE InsertMember(r) \/ PromoteMember(r)
      <4>1. \/ MoveTo(r, "again")
            \/ \E c : request' = [request EXCEPT ![r].at = "audit", ![r].change = c]
            BY <3>6 DEF InsertMember, PromoteMember, After
      <4> QED BY <1>0, <3>1, <3>3, <4>1 DEF TypeOK, RequestState, Steps
    <3>7. CASE Report(r) \/ SendAccessEmail(r) \/ Fail(r)
          BY <3>2, <3>3, <3>7 DEF Report, SendAccessEmail, Fail, Steps
    <3> QED BY <1>4, <3>4, <3>5, <3>6, <3>7
  <2> QED BY <1>1, <2>1, <2>2 DEF At
<1>5. CASE UNCHANGED vars
      BY <1>1, <1>5 DEF vars, tables
<1> QED BY <1>2, <1>3, <1>4, <1>5 DEF Next

(* A patch leaves the fields it does not name as they are, unless it        *)
(* overlapped a patch that named them.                                      *)
THEOREM PatchesKeep == Spec => PatchesKeepTheRest
<1> DEFINE Rest ==
       \A f \in Field : plan'[f] # plan[f] =>
         \E r \in Request :
            /\ At(r, "write") /\ ~ At(r, "write")'
            /\ f \in request[r].named \cup request[r].missed
<1>1. Init => AllFresh
      BY DEF Init, AllFresh, Fresh, At, Idle
<1>2. IInv /\ AllFresh /\ [Next]_vars => Rest
  <2> SUFFICES ASSUME IInv, AllFresh, [Next]_vars, NEW f \in Field,
                      plan'[f] # plan[f]
               PROVE  \E r \in Request :
                         /\ At(r, "write") /\ ~ At(r, "write")'
                         /\ f \in request[r].named \cup request[r].missed
      OBVIOUS
  <2>1. PICK r \in Request : WritePlan(r)
        BY DEF Next, vars, tables, CreateAccount, CreateManualSubscription,
           CreatePlanPrice, StartGrant, ReadPlan, FindMember, FindAgain, Found, InsertMember,
           PromoteMember, Report, SendAccessEmail, Fail
  <2>2. At(r, "write") /\ plan' = request[r].row
        BY <2>1 DEF WritePlan
  <2>3. ~ At(r, "write")'
    <3>1. request'[r] = [Idle EXCEPT !.at = "audit", !.change = PlanUpdate]
          BY <2>1 DEF WritePlan, After
    <3> QED BY <3>1 DEF Idle, At
  <2>4. f \in request[r].named \cup request[r].missed
        BY <2>2 DEF AllFresh, Fresh, Field
  <2> QED BY <2>2, <2>3, <2>4
<1>3. IInv /\ AllFresh /\ [Next]_vars => [Rest]_vars
      BY <1>2
<1> QED BY <1>1, <1>3, FreshStep, InvInit, InvStep, PTL DEF Spec,
           PatchesKeepTheRest

-----------------------------------------------------------------------------
(* The counts of the trail: what was committed is reported, about to be     *)
(* reported, or was lost with a failed request; what was mailed or is about *)
(* to be was reported.                                                      *)
Waiting(c) == {r \in Request : At(r, "audit") /\ request[r].change = c}

Mailing(m) == {r \in Request : At(r, "mail") /\ request[r].member = m}

ReportFits(r) ==
    At(r, "audit") /\ MemberOf(r) # None =>
        request[r].change \in {Added(MemberOf(r)), Promoted(MemberOf(r))}

Balanced(c) ==
    /\ reported[c] + Cardinality(Waiting(c)) <= changed[c]
    /\ changed[c] <= reported[c] + failures + Cardinality(Waiting(c))

MailCovered(m) ==
    mailed[m] + Cardinality(Mailing(m))
        <= reported[Added(m)] + reported[Promoted(m)]

CountInv ==
    /\ \A r \in Request : ReportFits(r)
    /\ \A c \in Change : Balanced(c)
    /\ \A m \in Member : MailCovered(m)

(* Two sets that differ in one element at most.                             *)
LEMMA Exchange ==
    ASSUME NEW S, NEW T, NEW x, IsFiniteSet(S), S \ {x} = T \ {x}
    PROVE  /\ Cardinality(S) \in Nat /\ Cardinality(T) \in Nat
           /\ x \in S /\ x \in T => Cardinality(T) = Cardinality(S)
           /\ x \notin S /\ x \notin T => Cardinality(T) = Cardinality(S)
           /\ x \in S /\ x \notin T => Cardinality(T) = Cardinality(S) - 1
           /\ x \notin S /\ x \in T => Cardinality(T) = Cardinality(S) + 1
<1> DEFINE U == S \ {x}
<1>1. /\ IsFiniteSet(U)
      /\ Cardinality(U) = IF x \in S THEN Cardinality(S) - 1 ELSE Cardinality(S)
      BY FS_RemoveElement
<1>2. /\ IsFiniteSet(U \cup {x})
      /\ Cardinality(U \cup {x}) = Cardinality(U) + 1
      BY <1>1, FS_AddElement
<1>3. T = IF x \in T THEN U \cup {x} ELSE U
      OBVIOUS
<1>4. Cardinality(S) \in Nat /\ Cardinality(U) \in Nat
      BY <1>1, FS_CardinalityType
<1>5. Cardinality(T) = IF x \in T THEN Cardinality(U) + 1 ELSE Cardinality(U)
      BY <1>2, <1>3
<1> QED BY <1>1, <1>4, <1>5

(* A step leaves the requests but one as they were, as far as this counts.  *)
Alone(r) ==
    \A q \in Request \ {r} :
        /\ request'[q].at = request[q].at
        /\ request'[q].change = request[q].change
        /\ request'[q].member = request[q].member

LEMMA WaitingChanges ==
    ASSUME NEW r \in Request, Alone(r), NEW c
    PROVE  LET before == At(r, "audit") /\ request[r].change = c
               after == At(r, "audit")' /\ request'[r].change = c
           IN
           /\ Cardinality(Waiting(c)) \in Nat
           /\ Cardinality(Waiting(c)') \in Nat
           /\ (before <=> after) => Cardinality(Waiting(c)') = Cardinality(Waiting(c))
           /\ before /\ ~ after => Cardinality(Waiting(c)') = Cardinality(Waiting(c)) - 1
           /\ ~ before /\ after => Cardinality(Waiting(c)') = Cardinality(Waiting(c)) + 1
<1>1. IsFiniteSet(Waiting(c))
  <2>1. Waiting(c) \in SUBSET Request
        BY DEF Waiting
  <2> QED BY <2>1, RequestsAreFinite, FS_Subset
<1>2. Waiting(c) \ {r} = Waiting(c)' \ {r}
      BY DEF Waiting, At, Alone
<1>3. /\ r \in Waiting(c) <=> At(r, "audit") /\ request[r].change = c
      /\ r \in Waiting(c)' <=> At(r, "audit")' /\ request'[r].change = c
      BY DEF Waiting
<1> QED BY <1>1, <1>2, <1>3, Exchange

LEMMA MailingChanges ==
    ASSUME NEW r \in Request, Alone(r), NEW m
    PROVE  LET before == At(r, "mail") /\ request[r].member = m
               after == At(r, "mail")' /\ request'[r].member = m
           IN
           /\ Cardinality(Mailing(m)) \in Nat
           /\ Cardinality(Mailing(m)') \in Nat
           /\ (before <=> after) => Cardinality(Mailing(m)') = Cardinality(Mailing(m))
           /\ before /\ ~ after => Cardinality(Mailing(m)') = Cardinality(Mailing(m)) - 1
           /\ ~ before /\ after => Cardinality(Mailing(m)') = Cardinality(Mailing(m)) + 1
<1>1. IsFiniteSet(Mailing(m))
  <2>1. Mailing(m) \in SUBSET Request
        BY DEF Mailing
  <2> QED BY <2>1, RequestsAreFinite, FS_Subset
<1>2. Mailing(m) \ {r} = Mailing(m)' \ {r}
      BY DEF Mailing, At, Alone
<1>3. /\ r \in Mailing(m) <=> At(r, "mail") /\ request[r].member = m
      /\ r \in Mailing(m)' <=> At(r, "mail")' /\ request'[r].member = m
      BY DEF Mailing
<1> QED BY <1>1, <1>2, <1>3, Exchange

(* The others' reports still fit.                                           *)
LEMMA OthersFit ==
    ASSUME CountInv, NEW r \in Request, Alone(r), ReportFits(r)'
    PROVE  \A q \in Request : ReportFits(q)'
BY DEF CountInv, Alone, ReportFits, At, MemberOf

(* The types of what is counted.                                            *)
LEMMA CountTypes ==
    ASSUME TypeOK
    PROVE  /\ failures \in Nat
           /\ \A c \in Change : reported[c] \in Nat /\ changed[c] \in Nat
           /\ \A m \in Member : /\ Added(m) \in Change /\ Promoted(m) \in Change
                                /\ mailed[m] \in Nat
                                /\ reported[Added(m)] \in Nat
                                /\ reported[Promoted(m)] \in Nat
BY OwnerBounds, Changes DEF TypeOK

(* A step before the change is committed counts nothing.                    *)
LEMMA CountQuiet ==
    ASSUME TypeOK, CountInv, NEW r \in Request, Alone(r),
           request[r].at \notin {"audit", "mail"},
           request'[r].at \notin {"audit", "mail"},
           UNCHANGED <<changed, reported, mailed, failures>>
    PROVE  CountInv'
<1>1. \A q \in Request : ReportFits(q)'
      BY OthersFit DEF ReportFits, At
<1>2. \A c \in Change : Balanced(c)'
      BY WaitingChanges DEF CountInv, Balanced, At
<1>3. \A m \in Member : MailCovered(m)'
      BY MailingChanges DEF CountInv, MailCovered, At
<1> QED BY <1>1, <1>2, <1>3 DEF CountInv

(* A commit is counted together with its report that waits.                 *)
LEMMA CountCommit ==
    ASSUME TypeOK, CountInv, NEW r \in Request, Alone(r), NEW c \in Change,
           Commit(c), request[r].at \notin {"audit", "mail"},
           request'[r].at = "audit", request'[r].change = c,
           request'[r].member # None =>
               c \in {Added(request'[r].member), Promoted(request'[r].member)},
           UNCHANGED <<reported, mailed, failures>>
    PROVE  CountInv'
<1>1. \A q \in Request : ReportFits(q)'
      BY OthersFit DEF ReportFits, At, MemberOf
<1>2. ASSUME NEW d \in Change
      PROVE  Balanced(d)'
  <2>1. /\ changed'[c] = changed[c] + 1
        /\ d # c => changed'[d] = changed[d]
        BY Counted
  <2>2. /\ Cardinality(Waiting(d)) \in Nat
        /\ Cardinality(Waiting(d)') =
             Cardinality(Waiting(d)) + (IF d = c THEN 1 ELSE 0)
        BY WaitingChanges DEF At
  <2>3. Balanced(d)
        BY DEF CountInv
  <2> QED BY <2>1, <2>2, <2>3, CountTypes DEF Balanced
<1>3. \A m \in Member : MailCovered(m)'
      BY MailingChanges DEF CountInv, MailCovered, At
<1> QED BY <1>1, <1>2, <1>3 DEF CountInv

(* A failure accounts for the report it takes away.                         *)
LEMMA CountFail ==
    ASSUME TypeOK, CountInv, NEW r \in Request, Fail(r)
    PROVE  CountInv'
<1>1. /\ request'[r].at = "idle" /\ Alone(r)
      /\ failures' = failures + 1
      /\ UNCHANGED <<changed, reported, mailed>>
      BY DEF Fail, End, TypeOK, Idle, Alone
<1>2. \A q \in Request : ReportFits(q)'
      BY <1>1, OthersFit DEF ReportFits, At
<1>3. ASSUME NEW c \in Change
      PROVE  Balanced(c)'
  <2>1. /\ Cardinality(Waiting(c)) \in Nat
        /\ Cardinality(Waiting(c)') \in Nat
        /\ \/ Cardinality(Waiting(c)') = Cardinality(Waiting(c))
           \/ Cardinality(Waiting(c)') = Cardinality(Waiting(c)) - 1
        BY <1>1, WaitingChanges DEF At
  <2>2. Balanced(c)
        BY DEF CountInv
  <2> QED BY <1>1, <2>1, <2>2, CountTypes DEF Balanced
<1>4. ASSUME NEW m \in Member
      PROVE  MailCovered(m)'
  <2>1. /\ Cardinality(Mailing(m)) \in Nat
        /\ Cardinality(Mailing(m)') \in Nat
        /\ \/ Cardinality(Mailing(m)') = Cardinality(Mailing(m))
           \/ Cardinality(Mailing(m)') = Cardinality(Mailing(m)) - 1
        BY <1>1, MailingChanges DEF At
  <2>2. MailCovered(m)
        BY DEF CountInv
  <2> QED BY <1>1, <2>1, <2>2, CountTypes DEF MailCovered
<1> QED BY <1>2, <1>3, <1>4 DEF CountInv

(* A report that waits becomes one in the trail, and a grant's email waits. *)
LEMMA CountReport ==
    ASSUME TypeOK, CountInv, NEW r \in Request, Knows(r), Report(r)
    PROVE  CountInv'
<1> DEFINE c == request[r].change
           m == request[r].member
<1>1. /\ request[r].at = "audit" /\ c \in Change
      /\ UNCHANGED <<changed, mailed, failures>>
      BY DEF Report, At, Knows
<1>2. /\ reported'[c] = reported[c] + 1
      /\ \A d \in Change \ {c} : reported'[d] = reported[d]
      BY <1>1 DEF Report, TypeOK
<1>3. /\ Alone(r)
      /\ m = None => request'[r].at = "idle"
      /\ m # None => request'[r].at = "mail" /\ request'[r].member = m
  <2>1. request[r] \in RequestState
        BY DEF TypeOK
  <2>2. CASE m = None
        BY <2>2 DEF Report, MemberOf, End, TypeOK, Idle, Alone
  <2>3. CASE m # None
        BY <2>1, <2>3 DEF Report, MemberOf, MoveTo, TypeOK, RequestState, Alone
  <2> QED BY <2>2, <2>3
<1>4. request'[r].at # "audit"
      BY <1>3
<1>5. \A q \in Request : ReportFits(q)'
      BY <1>3, <1>4, OthersFit DEF ReportFits, At
<1>6. ASSUME NEW d \in Change
      PROVE  Balanced(d)'
  <2>1. /\ Cardinality(Waiting(d)) \in Nat
        /\ Cardinality(Waiting(d)') \in Nat
        /\ Cardinality(Waiting(d)') =
             Cardinality(Waiting(d)) - (IF d = c THEN 1 ELSE 0)
        BY <1>1, <1>3, <1>4, WaitingChanges DEF At
  <2>2. Balanced(d)
        BY DEF CountInv
  <2> QED BY <1>1, <1>2, <2>1, <2>2, CountTypes DEF Balanced
<1>7. ASSUME NEW n \in Member
      PROVE  MailCovered(n)'
  <2>1. /\ Cardinality(Mailing(n)) \in Nat
        /\ n # m => Cardinality(Mailing(n)') = Cardinality(Mailing(n))
        /\ n = m => \/ Cardinality(Mailing(n)') = Cardinality(Mailing(n))
                    \/ Cardinality(Mailing(n)') = Cardinality(Mailing(n)) + 1
        BY <1>1, <1>3, MailingChanges DEF At
  <2>2. /\ reported'[Added(n)] \in Nat /\ reported'[Promoted(n)] \in Nat
        /\ reported'[Added(n)] >= reported[Added(n)]
        /\ reported'[Promoted(n)] >= reported[Promoted(n)]
        BY <1>1, <1>2, CountTypes
  <2>3. n = m => \/ reported'[Added(n)] = reported[Added(n)] + 1
                 \/ reported'[Promoted(n)] = reported[Promoted(n)] + 1
    <3> SUFFICES ASSUME n = m
                 PROVE  c \in {Added(n), Promoted(n)}
        BY <1>2
    <3>1. m # None
          BY NoneIsNoMember DEF Member
    <3> QED BY <1>1, <3>1 DEF CountInv, ReportFits, At, MemberOf
  <2>4. MailCovered(n)
        BY DEF CountInv
  <2> QED BY <1>1, <2>1, <2>2, <2>3, <2>4, CountTypes DEF MailCovered
<1> QED BY <1>5, <1>6, <1>7 DEF CountInv

(* An email that waits is sent, or not.                                     *)
LEMMA CountMail ==
    ASSUME TypeOK, CountInv, NEW r \in Request, Knows(r), SendAccessEmail(r)
    PROVE  CountInv'
<1> DEFINE m == request[r].member
<1>1. /\ request[r].at = "mail" /\ m \in Member
      /\ UNCHANGED <<changed, reported, failures>>
      BY DEF SendAccessEmail, At, Knows, Granting
<1>2. request'[r].at = "idle" /\ Alone(r)
      BY DEF SendAccessEmail, End, TypeOK, Idle, Alone
<1>3. /\ mailed'[m] = mailed[m] \/ mailed'[m] = mailed[m] + 1
      /\ \A n \in Member \ {m} : mailed'[n] = mailed[n]
      BY <1>1 DEF SendAccessEmail, TypeOK, MemberOf
<1>4. \A q \in Request : ReportFits(q)'
      BY <1>2, OthersFit DEF ReportFits, At
<1>5. \A c \in Change : Balanced(c)'
      BY <1>1, <1>2, WaitingChanges DEF CountInv, Balanced, At
<1>6. ASSUME NEW n \in Member
      PROVE  MailCovered(n)'
  <2>1. /\ Cardinality(Mailing(n)) \in Nat
        /\ Cardinality(Mailing(n)') \in Nat
        /\ Cardinality(Mailing(n)') =
             Cardinality(Mailing(n)) - (IF n = m THEN 1 ELSE 0)
        BY <1>1, <1>2, MailingChanges DEF At
  <2>2. MailCovered(n)
        BY DEF CountInv
  <2> QED BY <1>1, <1>3, <2>1, <2>2, CountTypes DEF MailCovered
<1> QED BY <1>4, <1>5, <1>6 DEF CountInv

(* Every step keeps the counts.                                             *)
LEMMA CountStep == IInv /\ CountInv /\ [Next]_vars => CountInv'
<1> SUFFICES ASSUME IInv, CountInv, [Next]_vars
             PROVE  CountInv'
    OBVIOUS
<1>0. TypeOK /\ \A r \in Request : Knows(r) /\ request[r] \in RequestState
      BY DEF IInv, TypeOK
<1>1. ASSUME NEW r \in Request, NEW c \in Change, Begin(r), Commit(c),
             request' = [request EXCEPT ![r] =
                           [Idle EXCEPT !.at = "audit", !.change = c]],
             UNCHANGED <<reported, mailed, failures>>
      PROVE  CountInv'
  <2> DEFINE v == [Idle EXCEPT !.at = "audit", !.change = c]
  <2>1. v.at = "audit" /\ v.change = c /\ v.member = None
        BY DEF Idle
  <2> HIDE DEF v
  <2>2. request'[r] = v /\ Alone(r)
        BY <1>0, <1>1 DEF v, TypeOK, Alone
  <2>3. request[r].at = "idle"
        BY <1>1 DEF Begin, Idle
  <2> QED BY <1>0, <1>1, <2>1, <2>2, <2>3, CountCommit
<1>2. ASSUME NEW r \in Request,
             \/ \E a \in Account : \/ \E e \in Email : CreateAccount(r, a, e)
                                   \/ CreateManualSubscription(r, a)
             \/ CreatePlanPrice(r)
      PROVE  CountInv'
      BY <1>1, <1>2, Changes DEF CreateAccount, CreateManualSubscription,
         CreatePlanPrice, After
<1>3. ASSUME NEW r \in Request, WritePlan(r)
      PROVE  CountInv'
  <2> DEFINE v == [Idle EXCEPT !.at = "audit", !.change = PlanUpdate]
             w(q) == [request[q] EXCEPT !.missed =
                        @ \cup request[r].named \cup request[r].missed]
  <2>1. v.at = "audit" /\ v.change = PlanUpdate /\ v.member = None
        BY DEF Idle
  <2>2. \A q \in Request : /\ w(q).at = request[q].at
                           /\ w(q).change = request[q].change
                           /\ w(q).member = request[q].member
        BY <1>0 DEF RequestState
  <2>3. /\ request[r].at = "write" /\ Commit(PlanUpdate)
        /\ UNCHANGED <<reported, mailed, failures>>
        /\ request' = [q \in Request |-> IF q = r THEN v
                                         ELSE IF At(q, "write") THEN w(q)
                                         ELSE request[q]]
        BY <1>3 DEF WritePlan, At, After
  <2> HIDE DEF v, w
  <2>4. request'[r] = v /\ Alone(r)
        BY <2>2, <2>3 DEF Alone
  <2> QED BY <1>0, <2>1, <2>3, <2>4, Changes, CountCommit
<1>4. ASSUME NEW r \in Request, NEW c \in Change, Commit(c),
             c \in {Added(MemberOf(r)), Promoted(MemberOf(r))},
             request[r].at \in {"insert", "promote"},
             request' = [request EXCEPT ![r].at = "audit", ![r].change = c],
             UNCHANGED <<reported, mailed, failures>>
      PROVE  CountInv'
  <2>1. /\ request'[r].at = "audit" /\ request'[r].change = c
        /\ request'[r].member = MemberOf(r)
        /\ Alone(r)
        BY <1>0, <1>4 DEF TypeOK, RequestState, MemberOf, Alone
  <2> QED BY <1>0, <1>4, <2>1, CountCommit
<1>5. ASSUME NEW r \in Request, NEW s \in {"again", "insert", "promote"},
             MoveTo(r, s), request[r].at \in {"insert", "member", "again"},
             UNCHANGED <<changed, reported, mailed, failures>>
      PROVE  CountInv'
  <2>1. request'[r].at = s /\ Alone(r)
        BY <1>0, <1>5 DEF TypeOK, RequestState, MoveTo, Alone
  <2> QED BY <1>0, <1>5, <2>1, CountQuiet
<1>6. ASSUME NEW r \in Request, InsertMember(r)
      PROVE  CountInv'
  <2> DEFINE m == MemberOf(r)
  <2>1. request[r].at = "insert" /\ m \in Member
        BY <1>0, <1>6 DEF InsertMember, At, Knows, Granting, MemberOf
  <2>2. CASE Inserted(m)
        BY <1>4, <1>6, <2>1, <2>2, Changes DEF InsertMember, After
  <2>3. CASE ~ Inserted(m)
        BY <1>5, <1>6, <2>1, <2>3 DEF InsertMember
  <2> QED BY <2>2, <2>3
<1>7. ASSUME NEW r \in Request, PromoteMember(r)
      PROVE  CountInv'
  <2>1. request[r].at = "promote" /\ MemberOf(r) \in Member
        BY <1>0, <1>7 DEF PromoteMember, At, Knows, Granting, MemberOf
  <2> QED BY <1>4, <1>7, <2>1, Changes DEF PromoteMember, After
<1>8. ASSUME NEW r \in Request, FindMember(r) \/ FindAgain(r)
      PROVE  CountInv'
  <2> DEFINE step == FoundStep(members[MemberOf(r)])
  <2>1. /\ request[r].at \in {"member", "again"} /\ Found(r)
        /\ UNCHANGED <<changed, reported, mailed, failures>>
        BY <1>8 DEF FindMember, FindAgain, Found, At
  <2>2. step \in {"insert", "promote", "idle"}
        BY DEF FoundStep
  <2>3. CASE step = "idle"
    <3>1. request'[r].at = "idle" /\ Alone(r)
          BY <1>0, <2>1, <2>3 DEF Found, End, TypeOK, Idle, Alone
    <3> QED BY <1>0, <2>1, <3>1, CountQuiet
  <2>4. CASE step # "idle"
        BY <1>5, <2>1, <2>2, <2>4 DEF Found
  <2> QED BY <2>3, <2>4
<1>9. ASSUME NEW r \in Request, NEW v, v.at \notin {"audit", "mail"},
             Begin(r), request' = [request EXCEPT ![r] = v],
             UNCHANGED <<changed, reported, mailed, failures>>
      PROVE  CountInv'
  <2>1. request'[r] = v /\ Alone(r) /\ request[r].at = "idle"
        BY <1>0, <1>9 DEF TypeOK, Alone, Begin, Idle
  <2> QED BY <1>0, <1>9, <2>1, CountQuiet
<1>10. ASSUME NEW r \in Request, NEW m \in Member, StartGrant(r, m)
       PROVE  CountInv'
  <2> DEFINE v == [Idle EXCEPT !.at = "member", !.member = m]
  <2>1. v.at = "member"
        BY DEF Idle
  <2>2. /\ Begin(r) /\ request' = [request EXCEPT ![r] = v]
        /\ UNCHANGED <<changed, reported, mailed, failures>>
        BY <1>10 DEF StartGrant
  <2> HIDE DEF v
  <2> QED BY <1>9, <2>1, <2>2
<1>11. ASSUME NEW r \in Request, NEW named \in SUBSET Field, NEW value \in Plan,
              ReadPlan(r, named, value)
       PROVE  CountInv'
  <2> DEFINE v == [Idle EXCEPT !.at = "write", !.named = named,
                               !.row = Merged(named, value, plan)]
  <2>1. v.at = "write"
        BY DEF Idle
  <2>2. /\ Begin(r) /\ request' = [request EXCEPT ![r] = v]
        /\ UNCHANGED <<changed, reported, mailed, failures>>
        BY <1>11 DEF ReadPlan
  <2> HIDE DEF v
  <2> QED BY <1>9, <2>1, <2>2
<1>12. CASE UNCHANGED vars
  <2>1. \A c : Waiting(c)' = Waiting(c)
        BY <1>12 DEF Waiting, At, vars
  <2>2. \A m : Mailing(m)' = Mailing(m)
        BY <1>12 DEF Mailing, At, vars
  <2> QED BY <1>12, <2>1, <2>2 DEF CountInv, ReportFits, Balanced, MailCovered,
             At, MemberOf, vars
<1> QED BY <1>0, <1>2, <1>3, <1>6, <1>7, <1>8, <1>10, <1>11, <1>12,
           CountReport, CountMail, CountFail DEF Next

(* The counts are right at the start.                                       *)
LEMMA CountInit == Init => CountInv
<1> SUFFICES ASSUME Init
             PROVE  CountInv
    OBVIOUS
<1>1. \A r \in Request : request[r].at = "idle"
      BY DEF Init, Idle
<1>2. \A c : Cardinality(Waiting(c)) = 0
      BY <1>1, FS_EmptySet DEF Waiting, At
<1>3. \A m : Cardinality(Mailing(m)) = 0
      BY <1>1, FS_EmptySet DEF Mailing, At
<1>4. \A c \in Change : reported[c] = 0 /\ changed[c] = 0
      BY DEF Init
<1>5. \A m \in Member : mailed[m] = 0
      BY DEF Init
<1>6. failures = 0
      BY DEF Init
<1>7. \A r \in Request : ReportFits(r)
      BY <1>1 DEF ReportFits, At
<1>8. \A c \in Change : Balanced(c)
      BY <1>2, <1>4, <1>6 DEF Balanced
<1>9. \A m \in Member : MailCovered(m)
      BY <1>3, <1>4, <1>5, Changes DEF MailCovered
<1> QED BY <1>7, <1>8, <1>9 DEF CountInv

(* Nothing is reported or mailed that did not happen, and what happened is  *)
(* reported, about to be, or was lost with a failed request.                *)
THEOREM ReportsHold == Spec => []ReportedUnlessFailed
<1>1. IInv /\ CountInv => ReportedUnlessFailed
  <2> SUFFICES ASSUME IInv, CountInv
               PROVE  ReportedUnlessFailed
      OBVIOUS
  <2>1. /\ \A c : IsFiniteSet(Waiting(c)) /\ Cardinality(Waiting(c)) \in Nat
        /\ \A m : IsFiniteSet(Mailing(m)) /\ Cardinality(Mailing(m)) \in Nat
    <3>1. /\ \A c : Waiting(c) \in SUBSET Request
          /\ \A m : Mailing(m) \in SUBSET Request
          BY DEF Waiting, Mailing
    <3> QED BY <3>1, RequestsAreFinite, FS_Subset, FS_CardinalityType
  <2>2. ASSUME NEW c \in Change
        PROVE  /\ reported[c] <= changed[c]
               /\ changed[c] <= reported[c] + failures + Cardinality(Waiting(c))
        BY <2>1, CountTypes DEF IInv, CountInv, Balanced
  <2>3. ASSUME NEW m \in Member
        PROVE  mailed[m] <= reported[Added(m)] + reported[Promoted(m)]
        BY <2>1, CountTypes DEF IInv, CountInv, MailCovered
  <2> QED BY <2>2, <2>3 DEF ReportedUnlessFailed, Waiting
<1> QED BY <1>1, CountInit, InvInit, InvStep, CountStep, PTL DEF Spec

-----------------------------------------------------------------------------
(* The operations implement Administration.                                 *)

LEMMA GeneralChanges ==
    /\ PlanUpdate \in General /\ NewPrice \in General
    /\ \A a \in Account : NewAccount(a) \in General /\ ManualSubscription(a) \in General
BY DEF General

LEMMA OfficeInit == Init => Office!Init
<1> SUFFICES ASSUME Init
             PROVE  Office!Init
    OBVIOUS
<1>1. \A a \in accounts : \E m \in Member : m[1] = a /\ members[m] = "admin"
  <2> SUFFICES ASSUME NEW a \in accounts
               PROVE  \E m \in Member : m[1] = a /\ members[m] = "admin"
      OBVIOUS
  <2>1. PICK e \in Email : members[<<a, e>>] = "admin"
        BY DEF Init
  <2>2. <<a, e>> \in Member /\ <<a, e>>[1] = a
        BY DEF Init, Member
  <2> QED BY <2>1, <2>2
<1>2. plan \in Offer
      BY DEF Init, Offer
<1> QED BY <1>1, <1>2 DEF Init, Office!Init

(* What the office shows does not change.                                   *)
LEMMA NothingShown ==
    ASSUME UNCHANGED <<tables, changed, reported, mailed, answered>>
    PROVE  UNCHANGED Office!vars
BY DEF tables, Office!vars, Office!tables

LEMMA AccountOpens ==
    ASSUME IInv, NEW r \in Request, NEW a \in Account, NEW e \in Email,
           CreateAccount(r, a, e)
    PROVE  Office!Next
<1>1. PICK m : m = <<a, e>>
      OBVIOUS
<1>2. m \in Member /\ m[1] = a
      BY <1>1 DEF Member
<1>3. PICK c \in General : c = NewAccount(a)
      BY GeneralChanges
<1>4. Office!Happens(c)
      BY <1>3 DEF CreateAccount, Commit, Office!Happens
<1>5. Office!Open(m)
      BY <1>1, <1>2, <1>4
      DEF CreateAccount, WithAccount, Office!Open, Office!MakeAdministrator
<1> QED BY <1>2, <1>5 DEF Office!Next

LEMMA SomethingHappens ==
    ASSUME IInv, NEW c \in General, Commit(c), plan' \in Offer,
           UNCHANGED <<accounts, members, reported, mailed, answered>>
    PROVE  Office!Next
<1>1. Office!Happens(c)
      BY DEF Commit, Office!Happens
<1>2. Office!Amend
      BY <1>1 DEF Office!Amend
<1> QED BY <1>2 DEF Office!Next

LEMMA PlanIsOffered ==
    ASSUME IInv
    PROVE  /\ plan \in Offer
           /\ \A r \in Request : At(r, "write") => request[r].row \in Offer
BY DEF IInv, TypeOK, PlansAreClosed, Offer, Knows, At

LEMMA FoundAnswers ==
    ASSUME IInv, NEW r \in Request, Found(r), MemberOf(r) \in Member
    PROVE  [Office!Next]_(Office!vars)
<1>1. PICK m \in Member : m = MemberOf(r)
      OBVIOUS
<1>2. UNCHANGED <<tables, changed, reported, mailed>>
      BY DEF Found
<1>3. CASE FoundStep(members[m]) = "idle"
  <2>1. members[m] = "admin"
        BY <1>3 DEF FoundStep, IInv, TypeOK, Role
  <2>2. answered' = answered \cup {m}
        BY <1>1, <1>3 DEF Found
  <2>3. Office!Answer(m)
        BY <1>2, <2>1, <2>2 DEF tables, Office!Answer, Office!tables
  <2> QED BY <2>3 DEF Office!Next
<1>4. CASE FoundStep(members[m]) # "idle"
      BY <1>1, <1>2, <1>4, NothingShown DEF Found
<1> QED BY <1>3, <1>4

LEMMA InsertAdds ==
    ASSUME IInv, NEW r \in Request, InsertMember(r)
    PROVE  [Office!Next]_(Office!vars)
<1>1. /\ At(r, "insert") /\ MemberOf(r) \in Member /\ MemberOf(r)[1] \in accounts
      /\ UNCHANGED <<accounts, plan, reported, mailed, answered>>
      BY NoneIsNoMember DEF InsertMember, IInv, Knows, Granting, At, MemberOf, Member
<1>2. PICK m \in Member : m = MemberOf(r)
      BY <1>1
<1>3. CASE members[m] = "none"
  <2>1. /\ members' = [members EXCEPT ![m] = "admin"]
        /\ Commit(Added(m))
        BY <1>2, <1>3 DEF InsertMember, Inserted
  <2>2. Office!Add(m)
        BY <1>1, <1>2, <1>3, <2>1
        DEF Commit, Office!Add, Office!Happens, Office!MakeAdministrator
  <2> QED BY <2>2 DEF Office!Next
<1>4. CASE members[m] # "none"
      BY <1>1, <1>2, <1>4, NothingShown DEF InsertMember, Inserted, tables
<1> QED BY <1>3, <1>4

LEMMA PromotionPromotes ==
    ASSUME IInv, NEW r \in Request, PromoteMember(r)
    PROVE  Office!Next
<1>1. /\ MemberOf(r) \in Member
      /\ members[MemberOf(r)] # "none" /\ changed[Added(MemberOf(r))] = 0
      BY DEF PromoteMember, IInv, Knows, Granting, At, MemberOf
<1>2. PICK m \in Member : m = MemberOf(r)
      BY <1>1
<1>3. /\ members' = [members EXCEPT ![m] = "admin"]
      /\ Commit(Promoted(m))
      /\ UNCHANGED <<accounts, plan, reported, mailed, answered>>
      BY <1>2 DEF PromoteMember, Elevated
<1>4. Office!Promote(m)
      BY <1>1, <1>2, <1>3
      DEF Commit, Office!Promote, Office!Happens, Office!MakeAdministrator
<1> QED BY <1>4 DEF Office!Next

(* The event that waits is one that happened and is not in the trail yet.   *)
LEMMA ReportIsDue ==
    ASSUME IInv, CountInv, NEW r \in Request, Report(r)
    PROVE  Office!Next
<1>1. At(r, "audit") /\ request[r].change \in Change
      BY DEF Report, IInv, Knows, At
<1>2. PICK c \in Change : c = request[r].change
      BY <1>1
<1>3. Cardinality(Waiting(c)) \in Nat /\ Cardinality(Waiting(c)) > 0
  <2>1. Waiting(c) \in SUBSET Request /\ r \in Waiting(c)
        BY <1>1, <1>2 DEF Waiting
  <2> QED BY <2>1, RequestsAreFinite, FS_Subset, FS_CardinalityType, FS_EmptySet
<1>4. reported[c] < changed[c]
      BY <1>3, CountTypes DEF CountInv, Balanced, IInv
<1>5. Office!Report(c)
      BY <1>2, <1>4 DEF Report, tables, Office!Report, Office!tables
<1> QED BY <1>5 DEF Office!Next

(* The email that waits is for a grant in the trail; its member is given.   *)
LEMMA MailIsDue ==
    ASSUME IInv, CountInv, NEW r \in Request, SendAccessEmail(r)
    PROVE  Office!Next
<1>1. /\ At(r, "mail") /\ MemberOf(r) \in Member
      /\ members[MemberOf(r)] = "admin"
      /\ UNCHANGED <<tables, changed, reported>>
      BY DEF SendAccessEmail, IInv, Knows, Granting, At, MemberOf
<1>2. PICK m \in Member : m = MemberOf(r)
      BY <1>1
<1>3. answered' = answered \cup {m}
      BY <1>2 DEF SendAccessEmail
<1>4. CASE mailed' = mailed
  <2>1. Office!Answer(m)
        BY <1>1, <1>2, <1>3, <1>4 DEF tables, Office!Answer, Office!tables
  <2> QED BY <2>1 DEF Office!Next
<1>5. CASE mailed' = [mailed EXCEPT ![m] = @ + 1]
  <2>1. Cardinality(Mailing(m)) \in Nat /\ Cardinality(Mailing(m)) > 0
    <3>1. Mailing(m) \in SUBSET Request /\ r \in Mailing(m)
          BY <1>1, <1>2 DEF Mailing, MemberOf
    <3> QED BY <3>1, RequestsAreFinite, FS_Subset, FS_CardinalityType, FS_EmptySet
  <2>2. mailed[m] < reported[Added(m)] + reported[Promoted(m)]
        BY <2>1, CountTypes DEF CountInv, MailCovered, IInv
  <2>3. Office!Mail(m)
        BY <1>1, <1>3, <1>5, <2>2 DEF tables, Office!Mail, Office!tables
  <2> QED BY <2>3 DEF Office!Next
<1> QED BY <1>2, <1>4, <1>5 DEF SendAccessEmail

LEMMA OfficeStep ==
    IInv /\ CountInv /\ [Next]_vars => [Office!Next]_(Office!vars)
<1> SUFFICES ASSUME IInv, CountInv, [Next]_vars
             PROVE  [Office!Next]_(Office!vars)
    OBVIOUS
<1>1. ASSUME NEW r \in Request, NEW a \in Account,
             CreateManualSubscription(r, a)
      PROVE  Office!Next
      BY <1>1, PlanIsOffered, GeneralChanges, SomethingHappens
      DEF CreateManualSubscription, tables
<1>2. ASSUME NEW r \in Request, CreatePlanPrice(r)
      PROVE  Office!Next
      BY <1>2, PlanIsOffered, GeneralChanges, SomethingHappens
      DEF CreatePlanPrice, tables
<1>3. ASSUME NEW r \in Request, WritePlan(r)
      PROVE  Office!Next
      BY <1>3, PlanIsOffered, GeneralChanges, SomethingHappens DEF WritePlan
<1>4. ASSUME NEW r \in Request, FindMember(r) \/ FindAgain(r)
      PROVE  [Office!Next]_(Office!vars)
  <2>1. Found(r) /\ MemberOf(r) \in Member
        BY <1>4 DEF FindMember, FindAgain, IInv, Knows, Granting, At, MemberOf
  <2> QED BY <2>1, FoundAnswers
<1>5. ASSUME NEW r \in Request, NEW m \in Member, StartGrant(r, m)
      PROVE  [Office!Next]_(Office!vars)
      BY <1>5, NothingShown DEF StartGrant
<1>6. ASSUME NEW r \in Request, NEW named, NEW value, ReadPlan(r, named, value)
      PROVE  [Office!Next]_(Office!vars)
      BY <1>6, NothingShown DEF ReadPlan
<1>7. ASSUME NEW r \in Request, Fail(r)
      PROVE  [Office!Next]_(Office!vars)
      BY <1>7, NothingShown DEF Fail
<1>8. CASE UNCHANGED vars
      BY <1>8, NothingShown DEF vars
<1> QED BY <1>1, <1>2, <1>3, <1>4, <1>5, <1>6, <1>7, <1>8, AccountOpens,
           InsertAdds, PromotionPromotes, ReportIsDue, MailIsDue
        DEF Next

(* Overlapping, stale and failing owner requests implement Administration:  *)
(* a grant is given before it is reported, mailed or answered, a membership *)
(* is added once and never lowered, a plan is replaced by one that may be   *)
(* offered, and the trail tells of nothing that did not happen.             *)
THEOREM Implementation == Spec => ImplementsAdministration
BY InvInit, InvStep, CountInit, CountStep, OfficeInit, OfficeStep, PTL
   DEF Spec, ImplementsAdministration, Office!Spec

=============================================================================
