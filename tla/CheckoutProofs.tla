--------------------------- MODULE CheckoutProofs ---------------------------
(***************************************************************************)
(* Proofs about Checkout, for any number of accounts, clicks, requests,    *)
(* customers and failures.                                                 *)
(***************************************************************************)
EXTENDS Checkout, TLAPS

-----------------------------------------------------------------------------
(* What a request knows at each step.                                       *)

Completing == {"link", "complete", "report", "finish"}

(* A starting request has a customer once it made or found one; from the    *)
(* insert on it is the account's.  The session exists from its step on, the *)
(* attempt from its own.                                                    *)
StartKnows(r) ==
    LET at == request[r].at
        k  == request[r].key
        c  == request[r].customer
    IN
    /\ at = "insert" => c \in 1 .. made
    /\ at = "session" => c # 0 /\ customers[buyer[k]] = c
    /\ at \in {"store", "audit"} => session[k] # None
    /\ at = "audit" => attempts[k] # "none"

(* A completing request has the key of a paid session; its attempt is       *)
(* completed past its step, and reported past the report.                   *)
CompletionKnows(r) ==
    LET at == request[r].at
        k  == request[r].key
    IN
    /\ at \in Completing => k \in paid
    /\ at \in {"report", "finish"} => attempts[k] = "completed"
    /\ at = "finish" => k \in completed

(* What was opened has a session.                                           *)
OpenedHasSession == \A k \in opened : session[k] # None

IInv ==
    /\ TypeOK
    /\ OpenedHasSession
    /\ SessionsHaveTheKnownCustomer
    /\ OpenedIsRecorded
    /\ CompletedIsPaid
    /\ \A r \in Request : StartKnows(r) /\ CompletionKnows(r)

(* The invariant holds at the start.                                        *)
LEMMA InvInit == Init => IInv
BY CheckoutBounds DEF Init, IInv, TypeOK, OpenedHasSession,
   SessionsHaveTheKnownCustomer, OpenedIsRecorded, CompletedIsPaid, StartKnows,
   CompletionKnows, Idle, Completing, MaybeCustomer, RequestState, Steps, Trial

(* The facts of one busy request.                                           *)
LEMMA Busy ==
    ASSUME IInv, NEW r \in Request, request[r].at # "idle"
    PROVE  /\ request[r].key \in Key
           /\ buyer[request[r].key] \in Account
           /\ request[r] \in RequestState
           /\ StartKnows(r) /\ CompletionKnows(r)
BY DEF IInv, TypeOK, Idle

-----------------------------------------------------------------------------
(* A step of one request changes no other request, and what the tables and  *)
(* the provider have said stays said.                                       *)

Kept ==
    /\ UNCHANGED buyer
    /\ made <= made'
    /\ \A a \in Account : customers[a] # 0 => customers'[a] = customers[a]
    /\ \A k \in Key :
         /\ session[k] # None => session'[k] = session[k]
         /\ attempts[k] # "none" => attempts'[k] # "none"
         /\ attempts[k] = "completed" => attempts'[k] = "completed"
    /\ paid \subseteq paid'
    /\ completed \subseteq completed'

(* A request that a step leaves alone knows what it knew.                   *)
LEMMA OthersKnow ==
    ASSUME IInv, Kept, made' \in Nat, NEW q \in Request, request'[q] = request[q]
    PROVE  (StartKnows(q) /\ CompletionKnows(q))'
<1>1. CASE request[q].at = "idle"
      BY <1>1 DEF StartKnows, CompletionKnows, Completing
<1>2. CASE request[q].at # "idle"
  <2>1. /\ request[q].key \in Key
        /\ buyer[request[q].key] \in Account
        /\ request[q] \in RequestState
        /\ StartKnows(q) /\ CompletionKnows(q)
        BY <1>2, Busy
  <2>2. made \in Nat
        BY CheckoutBounds DEF IInv, TypeOK, MaybeCustomer
  <2>3. StartKnows(q)'
        BY <2>1, <2>2 DEF StartKnows, Kept
  <2>4. CompletionKnows(q)'
        BY <2>1 DEF CompletionKnows, Kept
  <2> QED BY <2>3, <2>4
<1> QED BY <1>1, <1>2

(* It is enough that the step of one request keeps the types and the        *)
(* tables' properties and tells that request what it must know.             *)
LEMMA OneRequest ==
    ASSUME IInv, Kept, TypeOK', NEW r \in Request,
           \A q \in Request \ {r} : request'[q] = request[q],
           (StartKnows(r) /\ CompletionKnows(r))',
           (OpenedHasSession /\ SessionsHaveTheKnownCustomer)',
           (OpenedIsRecorded /\ CompletedIsPaid)'
    PROVE  IInv'
<1>1. made' \in Nat
      BY CheckoutBounds DEF TypeOK, MaybeCustomer
<1>2. \A q \in Request : (StartKnows(q) /\ CompletionKnows(q))'
      BY <1>1, OthersKnow
<1> QED BY <1>2 DEF IInv

(* The same for a step that leaves the tables and the provider alone.       *)
LEMMA RequestOnly ==
    ASSUME IInv, TypeOK', NEW r \in Request,
           UNCHANGED <<buyer, provider, tables, opened, paid>>,
           \A q \in Request \ {r} : request'[q] = request[q],
           (StartKnows(r) /\ CompletionKnows(r))'
    PROVE  IInv'
<1>1. Kept
      BY CheckoutBounds DEF Kept, IInv, TypeOK, MaybeCustomer, provider, tables
<1>2. /\ (OpenedHasSession /\ SessionsHaveTheKnownCustomer)'
      /\ (OpenedIsRecorded /\ CompletedIsPaid)'
      BY DEF IInv, OpenedHasSession, SessionsHaveTheKnownCustomer,
             OpenedIsRecorded, CompletedIsPaid, provider, tables
<1> QED BY <1>1, <1>2, OneRequest

(* Each action keeps the invariant.                                         *)
LEMMA InvStep == IInv /\ [Next]_vars => IInv'
<1> SUFFICES ASSUME IInv, [Next]_vars
             PROVE  IInv'
    OBVIOUS
<1>0. TypeOK /\ made \in Nat /\ made <= MaxCustomers
      BY CheckoutBounds DEF IInv, TypeOK, MaybeCustomer
<1> USE DEF MoveTo, End, At, BuyerOf, provider, tables
<1>1. ASSUME NEW r \in Request, NEW k \in Key, Start(r, k)
      PROVE  IInv'
  <2>1. TypeOK'
        BY <1>0, <1>1 DEF Start, TypeOK, RequestState, Steps, MaybeCustomer, Idle
  <2>2. (StartKnows(r) /\ CompletionKnows(r))'
        BY <1>0, <1>1 DEF Start, TypeOK, StartKnows, CompletionKnows, Completing
  <2>3. \A q \in Request \ {r} : request'[q] = request[q]
        BY <1>0, <1>1 DEF Start, TypeOK
  <2> QED BY <1>1, <2>1, <2>2, <2>3, RequestOnly DEF Start
<1>2. ASSUME NEW r \in Request, NEW k \in Key, Deliver(r, k)
      PROVE  IInv'
  <2>1. TypeOK'
        BY <1>0, <1>2 DEF Deliver, TypeOK, RequestState, Steps, MaybeCustomer,
                          Idle, Trial
  <2>2. (StartKnows(r) /\ CompletionKnows(r))'
        BY <1>0, <1>2 DEF Deliver, TypeOK, StartKnows, CompletionKnows,
                          Completing, Idle
  <2>3. \A q \in Request \ {r} : request'[q] = request[q]
        BY <1>0, <1>2 DEF Deliver, TypeOK
  <2> QED BY <1>2, <2>1, <2>2, <2>3, RequestOnly DEF Deliver
<1>3. ASSUME NEW r \in Request, Fail(r)
      PROVE  IInv'
  <2>1. TypeOK'
    <3>1. failures' \in 0 .. MaxFailures
          BY <1>0, <1>3, CheckoutBounds DEF Fail, Failed, TypeOK
    <3>2. request' = [request EXCEPT ![r] = Idle] /\ Idle \in RequestState
          BY <1>3, CheckoutBounds DEF Fail, Idle, RequestState, Steps,
                                      MaybeCustomer, Trial
    <3> QED BY <1>0, <1>3, <3>1, <3>2 DEF Fail, TypeOK
  <2>2. (StartKnows(r) /\ CompletionKnows(r))'
        BY <1>0, <1>3 DEF Fail, TypeOK, StartKnows, CompletionKnows, Completing,
                          Idle
  <2>3. \A q \in Request \ {r} : request'[q] = request[q]
        BY <1>0, <1>3 DEF Fail, TypeOK
  <2> QED BY <1>3, <2>1, <2>2, <2>3, RequestOnly DEF Fail
<1>4. ASSUME NEW r \in Request, Handle(r)
      PROVE  IInv'
  <2>0. request[r].at # "idle"
        BY <1>4 DEF Handle, FindCustomer, CreateCustomer, InsertCustomer,
           CreateSession, StoreAttempt, AuditStart, LinkCustomer,
           CompleteAttempt, ReportCompletion, Finish
  <2>1. /\ request[r].key \in Key
        /\ buyer[request[r].key] \in Account
        /\ request[r] \in RequestState
        /\ StartKnows(r) /\ CompletionKnows(r)
        BY <2>0, Busy
  <2>2. \A q \in Request \ {r} : request'[q] = request[q]
        BY <1>0, <1>4 DEF TypeOK, Handle, FindCustomer, CreateCustomer,
           InsertCustomer, CreateSession, StoreAttempt, AuditStart,
           LinkCustomer, CompleteAttempt, ReportCompletion, Finish
  <2>3. CASE FindCustomer(r)
    <3>1. TypeOK'
      <4>1. customers[BuyerOf(r)] \in MaybeCustomer
            BY <1>0, <2>1, CheckoutBounds DEF TypeOK, MaybeCustomer
      <4>2. PICK s \in {"create", "session"} :
               request' = [request EXCEPT ![r].at = s,
                                          ![r].customer = customers[BuyerOf(r)]]
            BY <2>3 DEF FindCustomer, AfterLookup
      <4>3. /\ request' \in [Request -> RequestState]
            /\ request'[r].key = request[r].key
            BY <1>0, <2>1, <4>1, <4>2 DEF TypeOK, RequestState, Steps
      <4> QED BY <1>0, <2>1, <2>2, <2>3, <4>3 DEF FindCustomer, TypeOK
    <3>2. (StartKnows(r) /\ CompletionKnows(r))'
          BY <1>0, <2>1, <2>3 DEF FindCustomer, AfterLookup, TypeOK,
             RequestState, StartKnows, CompletionKnows, Completing
    <3> QED BY <2>2, <2>3, <3>1, <3>2, RequestOnly DEF FindCustomer
  <2>4. ASSUME NEW s \in Steps, MoveTo(r, s)
        PROVE  /\ request' \in [Request -> RequestState]
               /\ request'[r].at = s
               /\ request'[r].key = request[r].key
               /\ request'[r].customer = request[r].customer
        BY <1>0, <2>1, <2>4 DEF TypeOK, RequestState
  <2>5. ASSUME End(r)
        PROVE  /\ request' \in [Request -> RequestState]
               /\ request'[r] = Idle
               /\ (StartKnows(r) /\ CompletionKnows(r))'
    <3>1. Idle \in RequestState
          BY CheckoutBounds DEF Idle, RequestState, Steps, MaybeCustomer, Trial
    <3> QED BY <1>0, <2>5, <3>1 DEF TypeOK, Idle, StartKnows, CompletionKnows,
                                    Completing
  <2> DEFINE k == request[r].key
             a == buyer[k]
             c == request[r].customer
  <2>6. CASE CreateCustomer(r)
    <3>1. /\ made' \in MaybeCustomer /\ made <= made'
          /\ remembered' \in [Account -> 0 .. made'] /\ remembered'[a] # 0
      <4>1. CASE remembered[a] = 0
        <5>1. /\ made < MaxCustomers /\ made' = made + 1
              /\ remembered' = [remembered EXCEPT ![a] = made + 1]
              /\ remembered \in [Account -> 0 .. made]
              BY <1>0, <2>6, <4>1 DEF CreateCustomer, TypeOK
        <5>2. [Account -> 0 .. made] \subseteq [Account -> 0 .. made + 1]
              BY <1>0
        <5> QED BY <1>0, <2>1, <5>1, <5>2, CheckoutBounds DEF MaybeCustomer
      <4>2. CASE remembered[a] # 0
            BY <1>0, <2>1, <2>6, <4>2 DEF CreateCustomer, TypeOK, MaybeCustomer
      <4> QED BY <4>1, <4>2
    <3>2. remembered'[a] \in 1 .. made' /\ remembered'[a] \in MaybeCustomer
          BY <1>0, <2>1, <3>1, CheckoutBounds DEF MaybeCustomer
    <3>3. /\ request' \in [Request -> RequestState]
          /\ request'[r].at = "insert" /\ request'[r].key = k
          /\ request'[r].customer = remembered'[a]
          BY <1>0, <2>1, <2>6, <3>2 DEF CreateCustomer, TypeOK, RequestState, Steps
    <3>4. customers \in [Account -> 0 .. made']
          BY <1>0, <3>1 DEF TypeOK, MaybeCustomer
    <3>5. UNCHANGED <<buyer, trial, session, tables, opened, paid, failures>>
          BY <2>6 DEF CreateCustomer
    <3>6. TypeOK'
          BY <1>0, <2>1, <2>2, <3>1, <3>3, <3>4, <3>5 DEF TypeOK
    <3>7. Kept
          BY <3>1, <3>5 DEF Kept
    <3>8. (StartKnows(r) /\ CompletionKnows(r))'
          BY <3>2, <3>3 DEF StartKnows, CompletionKnows, Completing
    <3>9. /\ (OpenedHasSession /\ SessionsHaveTheKnownCustomer)'
          /\ (OpenedIsRecorded /\ CompletedIsPaid)'
          BY <3>5 DEF IInv, OpenedHasSession, SessionsHaveTheKnownCustomer,
             OpenedIsRecorded, CompletedIsPaid
    <3> QED BY <2>2, <3>6, <3>7, <3>8, <3>9, OneRequest
  <2>7. CASE InsertCustomer(r)
    <3>1. c \in 1 .. made
          BY <2>1, <2>7 DEF InsertCustomer, StartKnows
    <3>2. UNCHANGED <<buyer, trial, provider, attempts, started, completed,
                      processed, opened, paid, failures>>
          BY <2>7 DEF InsertCustomer
    <3>3. /\ customers' \in [Account -> 0 .. made]
          /\ \A b \in Account : customers[b] # 0 => customers'[b] = customers[b]
      <4>1. customers' = IF customers[a] = 0 THEN [customers EXCEPT ![a] = c]
                         ELSE customers
            BY <2>7 DEF InsertCustomer, Free
      <4> QED BY <1>0, <2>1, <3>1, <4>1 DEF TypeOK
    <3>4. \/ End(r)
          \/ MoveTo(r, "session") /\ customers[a] = 0 /\ customers'[a] = c
          BY <1>0, <2>1, <2>7 DEF InsertCustomer, Free, Rejected, TypeOK
    <3>5. /\ request' \in [Request -> RequestState]
          /\ request'[r] = Idle \/ request'[r].key = k
          /\ (StartKnows(r) /\ CompletionKnows(r))'
      <4>1. CASE End(r)
            BY <2>5, <4>1
      <4>2. CASE MoveTo(r, "session") /\ customers'[a] = c
        <5>1. /\ request' \in [Request -> RequestState]
              /\ request'[r].at = "session" /\ request'[r].key = k
              /\ request'[r].customer = c
              BY <2>4, <4>2 DEF Steps
        <5> QED BY <3>1, <3>2, <4>2, <5>1 DEF StartKnows, CompletionKnows,
                                              Completing
      <4> QED BY <3>4, <4>1, <4>2
    <3>6. TypeOK'
          BY <1>0, <2>1, <2>2, <3>2, <3>3, <3>5 DEF TypeOK
    <3>7. Kept
          BY <1>0, <3>2, <3>3 DEF Kept
    <3>8. SessionsHaveTheKnownCustomer'
      <4>1. \A j \in Key : session[j] # None => customers[buyer[j]] # 0
            BY <1>0 DEF IInv, TypeOK, SessionsHaveTheKnownCustomer, Session,
                        Customer
      <4> QED BY <1>0, <3>2, <3>3, <4>1 DEF IInv, TypeOK,
                                            SessionsHaveTheKnownCustomer
    <3>9. (OpenedHasSession /\ OpenedIsRecorded /\ CompletedIsPaid)'
          BY <3>2 DEF IInv, OpenedHasSession, OpenedIsRecorded, CompletedIsPaid
    <3> QED BY <2>2, <3>5, <3>6, <3>7, <3>8, <3>9, OneRequest
  <2>8. CASE CreateSession(r)
    <3>1. c # 0 /\ customers[a] = c /\ c \in Customer /\ request[r].trial \in Trial
          BY <1>0, <2>1, <2>8, CheckoutBounds DEF CreateSession, StartKnows,
             RequestState, MaybeCustomer, Customer
    <3>2. UNCHANGED <<buyer, trial, made, remembered, tables, opened, paid, failures>>
          BY <2>8 DEF CreateSession
    <3>3. CASE End(r) /\ UNCHANGED session
      <4>1. TypeOK'
            BY <1>0, <2>2, <2>5, <3>2, <3>3 DEF TypeOK
      <4> QED BY <2>2, <2>5, <3>2, <3>3, <4>1, RequestOnly
    <3>4. CASE /\ session[k] = None \/ session[k] = [customer |-> c,
                                                     trial |-> request[r].trial]
               /\ session' = [session EXCEPT ![k] =
                                [customer |-> c, trial |-> request[r].trial]]
               /\ MoveTo(r, "store")
      <4>1. [customer |-> c, trial |-> request[r].trial] \in Session
            BY <3>1 DEF Session
      <4>2. /\ session' \in [Key -> Session \cup {None}]
            /\ session'[k] = [customer |-> c, trial |-> request[r].trial]
            /\ \A j \in Key \ {k} : session'[j] = session[j]
            BY <1>0, <2>1, <3>4, <4>1 DEF TypeOK
      <4>3. session'[k] # None
            BY <4>1, <4>2, NoneIsNoObject
      <4>4. /\ request' \in [Request -> RequestState]
            /\ request'[r].at = "store" /\ request'[r].key = k
            BY <2>4, <3>4 DEF Steps
      <4>5. TypeOK'
            BY <1>0, <2>1, <2>2, <3>2, <4>2, <4>4 DEF TypeOK
      <4>6. Kept
            BY <1>0, <3>2, <3>4, <4>2 DEF Kept
      <4>7. (StartKnows(r) /\ CompletionKnows(r))'
            BY <4>3, <4>4 DEF StartKnows, CompletionKnows, Completing
      <4>8. (OpenedHasSession /\ SessionsHaveTheKnownCustomer)'
            BY <1>0, <3>1, <3>2, <4>2, <4>3 DEF IInv, TypeOK, OpenedHasSession,
               SessionsHaveTheKnownCustomer
      <4>9. (OpenedIsRecorded /\ CompletedIsPaid)'
            BY <3>2 DEF IInv, OpenedIsRecorded, CompletedIsPaid
      <4> QED BY <2>2, <4>5, <4>6, <4>7, <4>8, <4>9, OneRequest
    <3> QED BY <2>8, <3>3, <3>4 DEF CreateSession, Same
  <2>9. CASE StoreAttempt(r)
    <3>1. UNCHANGED <<buyer, trial, provider, customers, started, completed,
                      processed, opened, paid, failures>>
          BY <2>9 DEF StoreAttempt
    <3>2. /\ attempts' \in [Key -> {"none", "created", "completed"}]
          /\ attempts'[k] # "none"
          /\ \A j \in Key : /\ attempts[j] # "none" => attempts'[j] = attempts[j]
                            /\ attempts'[j] = "completed" => attempts[j] = "completed"
      <4>1. attempts' = [attempts EXCEPT ![k] = IF attempts[k] = "none"
                                                  THEN "created" ELSE attempts[k]]
            BY <2>9 DEF StoreAttempt, Stored
      <4> QED BY <1>0, <2>1, <4>1 DEF TypeOK
    <3>3. /\ request' \in [Request -> RequestState]
          /\ request'[r].at = "audit" /\ request'[r].key = k
          BY <2>4, <2>9 DEF StoreAttempt, Steps
    <3>4. TypeOK'
          BY <1>0, <2>1, <2>2, <3>1, <3>2, <3>3 DEF TypeOK
    <3>5. Kept
          BY <1>0, <3>1, <3>2 DEF Kept
    <3>6. (StartKnows(r) /\ CompletionKnows(r))'
          BY <2>1, <2>9, <3>1, <3>2, <3>3 DEF StoreAttempt, StartKnows,
             CompletionKnows, Completing
    <3>7. (OpenedHasSession /\ SessionsHaveTheKnownCustomer)'
          BY <3>1 DEF IInv, OpenedHasSession, SessionsHaveTheKnownCustomer
    <3>8. (OpenedIsRecorded /\ CompletedIsPaid)'
          BY <1>0, <3>1, <3>2 DEF IInv, TypeOK, OpenedIsRecorded, CompletedIsPaid
    <3> QED BY <2>2, <3>4, <3>5, <3>6, <3>7, <3>8, OneRequest
  <2>10. CASE AuditStart(r)
    <3>1. /\ UNCHANGED <<buyer, trial, provider, customers, attempts, completed,
                         processed, paid>>
          /\ started' = started \cup {k}
          /\ opened \subseteq opened' /\ opened' \subseteq opened \cup {k}
          /\ failures' \in 0 .. MaxFailures
          /\ End(r)
          BY <1>0, <2>10, CheckoutBounds DEF AuditStart, Failed, TypeOK
    <3>2. session[k] # None /\ attempts[k] # "none"
          BY <2>1, <2>10 DEF AuditStart, StartKnows
    <3>3. TypeOK'
          BY <1>0, <2>1, <2>2, <2>5, <3>1 DEF TypeOK
    <3>4. Kept
          BY <1>0, <3>1 DEF Kept
    <3>5. (OpenedHasSession /\ SessionsHaveTheKnownCustomer)'
          BY <3>1, <3>2 DEF IInv, OpenedHasSession, SessionsHaveTheKnownCustomer
    <3>6. (OpenedIsRecorded /\ CompletedIsPaid)'
          BY <3>1, <3>2 DEF IInv, OpenedIsRecorded, CompletedIsPaid
    <3> QED BY <2>2, <2>5, <3>1, <3>3, <3>4, <3>5, <3>6, OneRequest
  <2>11. CASE LinkCustomer(r)
    <3>1. session[k] # None /\ customers[a] = session[k].customer
      <4>1. k \in opened
            BY <1>0, <2>1, <2>11 DEF LinkCustomer, CompletionKnows, Completing,
                                     TypeOK
      <4> QED BY <2>1, <4>1 DEF IInv, OpenedHasSession,
                                SessionsHaveTheKnownCustomer
    <3>2. customers' = customers
          BY <1>0, <2>1, <2>11, <3>1 DEF LinkCustomer, Linked, TypeOK
    <3>3. /\ UNCHANGED <<buyer, trial, provider, tables, opened, paid, failures>>
          /\ MoveTo(r, "complete")
          BY <2>11, <3>2 DEF LinkCustomer
    <3>4. /\ request' \in [Request -> RequestState]
          /\ request'[r].at = "complete" /\ request'[r].key = k
          BY <2>4, <3>3 DEF Steps
    <3>5. TypeOK'
          BY <1>0, <2>1, <2>2, <3>3, <3>4 DEF TypeOK
    <3>6. (StartKnows(r) /\ CompletionKnows(r))'
          BY <2>1, <2>11, <3>3, <3>4 DEF LinkCustomer, StartKnows,
             CompletionKnows, Completing
    <3> QED BY <2>2, <3>3, <3>5, <3>6, RequestOnly
  <2>12. CASE CompleteAttempt(r)
    <3>1. UNCHANGED <<buyer, trial, provider, customers, started, completed,
                      processed, opened, paid, failures>>
          BY <2>12 DEF CompleteAttempt
    <3>2. k \in paid /\ attempts[k] # "none"
      <4>1. k \in paid /\ k \in opened
            BY <1>0, <2>1, <2>12 DEF CompleteAttempt, CompletionKnows,
                                     Completing, TypeOK
      <4> QED BY <4>1 DEF IInv, OpenedIsRecorded
    <3>3. /\ attempts' = [attempts EXCEPT ![k] = "completed"]
          /\ MoveTo(r, "report")
          BY <1>0, <2>1, <2>12, <3>2 DEF CompleteAttempt, Completed, TypeOK
    <3>4. /\ request' \in [Request -> RequestState]
          /\ request'[r].at = "report" /\ request'[r].key = k
          BY <2>4, <3>3 DEF Steps
    <3>5. TypeOK'
          BY <1>0, <2>1, <2>2, <3>1, <3>3, <3>4 DEF TypeOK
    <3>6. Kept
          BY <1>0, <3>1, <3>3 DEF Kept, TypeOK
    <3>7. (StartKnows(r) /\ CompletionKnows(r))'
          BY <1>0, <2>1, <3>1, <3>2, <3>3, <3>4 DEF TypeOK, StartKnows,
             CompletionKnows, Completing
    <3>8. (OpenedHasSession /\ SessionsHaveTheKnownCustomer)'
          BY <3>1 DEF IInv, OpenedHasSession, SessionsHaveTheKnownCustomer
    <3>9. (OpenedIsRecorded /\ CompletedIsPaid)'
          BY <1>0, <3>1, <3>2, <3>3 DEF IInv, TypeOK, OpenedIsRecorded,
                                        CompletedIsPaid
    <3> QED BY <2>2, <3>5, <3>6, <3>7, <3>8, <3>9, OneRequest
  <2>13. CASE ReportCompletion(r)
    <3>1. /\ UNCHANGED <<buyer, trial, provider, customers, attempts, started,
                         processed, opened, paid, failures>>
          /\ completed' = completed \cup {k}
          /\ MoveTo(r, "finish")
          BY <2>13 DEF ReportCompletion
    <3>2. k \in paid /\ attempts[k] = "completed"
          BY <2>1, <2>13 DEF ReportCompletion, CompletionKnows, Completing
    <3>3. /\ request' \in [Request -> RequestState]
          /\ request'[r].at = "finish" /\ request'[r].key = k
          BY <2>4, <3>1 DEF Steps
    <3>4. TypeOK'
          BY <1>0, <2>1, <2>2, <3>1, <3>3 DEF TypeOK
    <3>5. Kept
          BY <1>0, <3>1 DEF Kept
    <3>6. (StartKnows(r) /\ CompletionKnows(r))'
          BY <3>1, <3>2, <3>3 DEF StartKnows, CompletionKnows, Completing
    <3>7. /\ (OpenedHasSession /\ SessionsHaveTheKnownCustomer)'
          /\ (OpenedIsRecorded /\ CompletedIsPaid)'
          BY <3>1, <3>2 DEF IInv, OpenedHasSession,
             SessionsHaveTheKnownCustomer, OpenedIsRecorded, CompletedIsPaid
    <3> QED BY <2>2, <3>4, <3>5, <3>6, <3>7, OneRequest
  <2>14. CASE Finish(r)
    <3>1. /\ UNCHANGED <<buyer, trial, provider, customers, attempts, started,
                         completed, opened, paid, failures>>
          /\ processed' = processed \cup {k}
          /\ End(r)
          BY <2>14 DEF Finish
    <3>2. k \in paid /\ k \in completed /\ attempts[k] = "completed"
          BY <2>1, <2>14 DEF Finish, CompletionKnows, Completing
    <3>3. TypeOK'
          BY <1>0, <2>1, <2>2, <2>5, <3>1, <3>2 DEF TypeOK
    <3>4. Kept
          BY <1>0, <3>1 DEF Kept
    <3>5. /\ (OpenedHasSession /\ SessionsHaveTheKnownCustomer)'
          /\ (OpenedIsRecorded /\ CompletedIsPaid)'
          BY <3>1, <3>2 DEF IInv, OpenedHasSession,
             SessionsHaveTheKnownCustomer, OpenedIsRecorded, CompletedIsPaid
    <3> QED BY <2>2, <2>5, <3>1, <3>3, <3>4, <3>5, OneRequest
  <2> QED BY <1>4, <2>3, <2>6, <2>7, <2>8, <2>9, <2>10, <2>11, <2>12, <2>13,
             <2>14 DEF Handle
<1>5. ASSUME NEW q \in Request, UNCHANGED request, Kept, made' \in Nat
      PROVE  (StartKnows(q) /\ CompletionKnows(q))'
      BY <1>5, OthersKnow
<1>6. CASE \E k \in Key : Pay(k)
  <2>1. PICK k \in Key : Pay(k)
        BY <1>6
  <2>2. /\ UNCHANGED <<buyer, trial, provider, tables, opened, request, failures>>
        /\ k \in opened /\ paid' = paid \cup {k}
        BY <2>1 DEF Pay
  <2>3. TypeOK' /\ Kept
        BY <1>0, <2>2 DEF TypeOK, Kept
  <2>4. \A q \in Request : (StartKnows(q) /\ CompletionKnows(q))'
        BY <1>0, <1>5, <2>2, <2>3
  <2> QED BY <2>2, <2>3, <2>4 DEF IInv, OpenedHasSession,
          SessionsHaveTheKnownCustomer, OpenedIsRecorded, CompletedIsPaid
<1>7. CASE (\E b \in Account : Forget(b)) \/ ChangeTrial \/ UNCHANGED vars
  <2>1. /\ UNCHANGED <<buyer, made, session, tables, opened, paid, request,
                       failures>>
        /\ trial' \in Trial /\ remembered' \in [Account -> 0 .. made]
        BY <1>0, <1>7 DEF Forget, ChangeTrial, TypeOK, vars
  <2>2. TypeOK' /\ Kept
        BY <1>0, <2>1 DEF TypeOK, Kept
  <2>3. \A q \in Request : (StartKnows(q) /\ CompletionKnows(q))'
        BY <1>0, <1>5, <2>1, <2>2
  <2> QED BY <2>1, <2>2, <2>3 DEF IInv, OpenedHasSession,
          SessionsHaveTheKnownCustomer, OpenedIsRecorded, CompletedIsPaid
<1> QED BY <1>1, <1>2, <1>3, <1>4, <1>6, <1>7 DEF Next

-----------------------------------------------------------------------------
(* The types hold of every reachable state.                                 *)
THEOREM TypeCorrect == Spec => []TypeOK
<1>1. IInv => TypeOK
      BY DEF IInv
<1> QED BY <1>1, InvInit, InvStep, PTL DEF Spec

(* However many first checkouts race, are repeated or fail, and whenever the *)
(* provider forgets a key, the sessions of an account belong to the one      *)
(* customer that the service knows it by.                                    *)
THEOREM KnownCustomer == Spec => []SessionsHaveTheKnownCustomer
<1>1. IInv => SessionsHaveTheKnownCustomer
      BY DEF IInv
<1> QED BY <1>1, InvInit, InvStep, PTL DEF Spec

(* An address in a browser has its attempt and its audit event.             *)
THEOREM OpenedRecorded == Spec => []OpenedIsRecorded
<1>1. IInv => OpenedIsRecorded
      BY DEF IInv
<1> QED BY <1>1, InvInit, InvStep, PTL DEF Spec

(* Attempts are completed by payments, and stay so.                         *)
THEOREM CompletedOnlyPaid == Spec => []CompletedIsPaid
<1>1. IInv => CompletedIsPaid
      BY DEF IInv
<1> QED BY <1>1, InvInit, InvStep, PTL DEF Spec

(* No step exchanges the customer of an account.                            *)
THEOREM CustomerKept == Spec => CustomerIsKept
<1> DEFINE KeptNow ==
       \A a \in Account : customers[a] # 0 => customers'[a] = customers[a]
<1>1. IInv /\ [Next]_vars => KeptNow
  <2> SUFFICES ASSUME IInv, [Next]_vars, NEW a \in Account, customers[a] # 0
               PROVE  customers'[a] = customers[a]
      OBVIOUS
  <2>1. CASE customers' = customers
        BY <2>1
  <2>2. ASSUME NEW r \in Request, InsertCustomer(r)
        PROVE  customers'[a] = customers[a]
        BY <2>2 DEF InsertCustomer, Free, IInv, TypeOK
  <2>3. ASSUME NEW r \in Request, LinkCustomer(r)
        PROVE  customers'[a] = customers[a]
    <3>1. /\ request[r].key \in Key
          /\ request[r].key \in paid
          BY <2>3, Busy DEF LinkCustomer, At, CompletionKnows, Completing
    <3>2. customers[buyer[request[r].key]] = session[request[r].key].customer
          BY <3>1 DEF IInv, TypeOK, OpenedHasSession,
                      SessionsHaveTheKnownCustomer
    <3> QED BY <2>3, <3>1, <3>2 DEF LinkCustomer, Linked, IInv, TypeOK
  <2>4. CASE customers' # customers
    <3>1. \E r \in Request : InsertCustomer(r) \/ LinkCustomer(r)
          BY <2>4 DEF Next, vars, tables, Start, Deliver, Handle, Fail, Pay,
             Forget, ChangeTrial, FindCustomer, CreateCustomer, CreateSession,
             StoreAttempt, AuditStart, CompleteAttempt, ReportCompletion, Finish
    <3> QED BY <2>2, <2>3, <3>1
  <2> QED BY <2>1, <2>4
<1>2. IInv /\ [Next]_vars => [KeptNow]_vars
      BY <1>1
<1> QED BY <1>2, InvInit, InvStep, PTL DEF Spec, CustomerIsKept

-----------------------------------------------------------------------------
(* The checkout implements Purchases.                                       *)

LEMMA BoughtInit == Init => Bought!Init
<1> SUFFICES ASSUME Init
             PROVE  Bought!Init
    OBVIOUS
<1>1. Billed = [k \in Key |-> 0]
      BY DEF Init, Billed
<1> QED BY <1>1 DEF Init, Bought!Init

(* What the accounts and the clicks show does not change.                   *)
LEMMA NothingBought ==
    ASSUME UNCHANGED <<buyer, session, tables, opened, paid>>
    PROVE  UNCHANGED Bought!vars
<1>1. Billed' = Billed
      BY DEF Billed
<1> QED BY <1>1 DEF Bought!vars, tables

LEMMA InsertKnows ==
    ASSUME IInv, NEW r \in Request, InsertCustomer(r)
    PROVE  [Bought!Next]_(Bought!vars)
<1>1. /\ At(r, "insert")
      /\ customers' = IF Free(BuyerOf(r))
                        THEN [customers EXCEPT ![BuyerOf(r)] = request[r].customer]
                        ELSE customers
      /\ UNCHANGED <<buyer, session, attempts, started, completed, processed,
                     opened, paid>>
      BY DEF InsertCustomer, provider
<1>2. PICK a \in Account : a = BuyerOf(r)
      BY <1>1, Busy DEF At, BuyerOf
<1>3. PICK c \in Customer : c = request[r].customer
      BY <1>1, Busy, CheckoutBounds
      DEF At, StartKnows, Customer, MaybeCustomer, IInv, TypeOK
<1>4. Billed' = Billed
      BY <1>1 DEF Billed
<1>5. CASE Free(a)
  <2>1. customers[a] = 0 /\ customers' = [customers EXCEPT ![a] = c]
        BY <1>1, <1>2, <1>3, <1>5 DEF Free
  <2>2. Bought!Know(a, c)
        BY <1>1, <1>4, <2>1 DEF Bought!Know
  <2> QED BY <2>2 DEF Bought!Next
<1>6. CASE ~Free(a)
      BY <1>1, <1>2, <1>4, <1>6 DEF Bought!vars
<1> QED BY <1>5, <1>6

LEMMA SessionBills ==
    ASSUME IInv, NEW r \in Request, CreateSession(r)
    PROVE  [Bought!Next]_(Bought!vars)
<1>1. /\ At(r, "session")
      /\ UNCHANGED <<buyer, customers, attempts, started, completed, processed,
                     opened, paid>>
      BY DEF CreateSession, tables
<1>2. PICK k \in Key : k = request[r].key
      BY <1>1, Busy DEF At
<1>3. PICK c \in MaybeCustomer : c = request[r].customer
      BY <1>1, Busy DEF At, RequestState
<1>4. c # 0 /\ customers[buyer[k]] = c
      BY <1>1, <1>2, <1>3, Busy DEF At, StartKnows
<1>5. session \in [Key -> Session \cup {None}]
      BY DEF IInv, TypeOK
<1>6. CASE UNCHANGED session
      BY <1>1, <1>6, NothingBought DEF tables
<1>7. CASE session[k] = None /\ session' # session
  <2>1. PICK s : s = [customer |-> c, trial |-> request[r].trial]
        OBVIOUS
  <2>2. session' = [session EXCEPT ![k] = s]
        BY <1>2, <1>3, <1>7, <2>1 DEF CreateSession
  <2>3. s \in Session /\ s # None /\ s.customer = c
    <3>1. request[r].trial \in Trial /\ c \in Customer
          BY <1>1, <1>3, <1>4, Busy, CheckoutBounds
          DEF At, RequestState, Customer, MaybeCustomer
    <3>2. s \in Session /\ s.customer = c
          BY <2>1, <3>1 DEF Session
    <3> QED BY <3>2, NoneIsNoObject
  <2>4. Billed[k] = 0 /\ Billed' = [Billed EXCEPT ![k] = c]
    <3>1. Billed[k] = 0
          BY <1>7 DEF Billed
    <3>2. session'[k] = s /\ \A o \in Key : o # k => session'[o] = session[o]
          BY <1>5, <2>2
    <3>3. \A o \in Key :
             (IF session'[o] = None THEN 0 ELSE session'[o].customer)
               = IF o = k THEN c ELSE Billed[o]
          BY <2>3, <3>2 DEF Billed
    <3> QED BY <3>1, <3>3 DEF Billed
  <2>5. Bought!Bill(k)
        BY <1>1, <1>4, <2>4 DEF Bought!Bill
  <2> QED BY <2>5 DEF Bought!Next
<1>8. session[k] # None => UNCHANGED session
  <2> SUFFICES ASSUME session[k] # None
               PROVE  UNCHANGED session
      OBVIOUS
  <2>1. CASE Same(session[k], request[r].customer, request[r].trial)
    <3>1. session' = [session EXCEPT ![k] = session[k]]
          BY <1>2, <2>1 DEF CreateSession, Same
    <3> QED BY <1>5, <3>1
  <2>2. CASE ~Same(session[k], request[r].customer, request[r].trial)
        BY <1>2, <2>2 DEF CreateSession
  <2> QED BY <2>1, <2>2
<1> QED BY <1>6, <1>7, <1>8

LEMMA StoreRecords ==
    ASSUME IInv, NEW r \in Request, StoreAttempt(r)
    PROVE  [Bought!Next]_(Bought!vars)
<1>1. /\ At(r, "store")
      /\ attempts' = Stored(request[r].key)
      /\ UNCHANGED <<buyer, session, customers, started, completed, processed,
                     opened, paid>>
      BY DEF StoreAttempt, provider
<1>2. PICK k \in Key : k = request[r].key
      BY <1>1, Busy DEF At
<1>3. /\ session[k] # None /\ session[k] \in Session
      /\ attempts \in [Key -> {"none", "created", "completed"}]
      BY <1>1, <1>2, Busy DEF At, StartKnows, IInv, TypeOK
<1>4. Billed' = Billed /\ Billed[k] # 0
      BY <1>1, <1>3 DEF Billed, Session, Customer
<1>5. CASE attempts[k] = "none"
  <2>1. attempts' = [attempts EXCEPT ![k] = "created"]
        BY <1>1, <1>2, <1>5 DEF Stored
  <2>2. Bought!Record(k)
        BY <1>1, <1>4, <1>5, <2>1 DEF Bought!Record
  <2> QED BY <2>2 DEF Bought!Next
<1>6. CASE attempts[k] # "none"
  <2>1. attempts' = attempts
        BY <1>1, <1>2, <1>3, <1>6 DEF Stored
  <2> QED BY <1>1, <1>4, <2>1 DEF Bought!vars
<1> QED BY <1>5, <1>6

LEMMA AuditAnnounces ==
    ASSUME IInv, NEW r \in Request, AuditStart(r)
    PROVE  Bought!Next
<1>1. PICK k \in Key : k = request[r].key
      BY Busy DEF AuditStart, At
<1>2. attempts[k] # "none"
      BY <1>1, Busy DEF AuditStart, At, StartKnows
<1>3. /\ started' = started \cup {k}
      /\ opened' \in {opened, opened \cup {k}}
      /\ UNCHANGED <<buyer, session, customers, attempts, completed, processed,
                     paid>>
      BY <1>1 DEF AuditStart, provider
<1>4. Billed' = Billed
      BY <1>3 DEF Billed
<1>5. Bought!Announce(k)
      BY <1>2, <1>3, <1>4 DEF Bought!Announce
<1> QED BY <1>5 DEF Bought!Next

LEMMA PaymentPays ==
    ASSUME NEW k \in Key, Pay(k)
    PROVE  Bought!Next
<1>1. Billed' = Billed
      BY DEF Pay, provider, Billed
<1>2. Bought!Pay(k)
      BY <1>1 DEF Pay, provider, tables, Bought!Pay
<1> QED BY <1>2 DEF Bought!Next

(* The completion finds the customer that its session was billed to.        *)
LEMMA LinkChangesNothing ==
    ASSUME IInv, NEW r \in Request, LinkCustomer(r)
    PROVE  UNCHANGED Bought!vars
<1>1. PICK k \in Key : k = request[r].key
      BY Busy DEF LinkCustomer, At
<1>2. /\ k \in paid
      /\ buyer[k] \in Account
      BY <1>1, Busy DEF LinkCustomer, At, CompletionKnows, Completing
<1>3. customers[buyer[k]] = session[k].customer
      BY <1>2 DEF IInv, TypeOK, OpenedHasSession, SessionsHaveTheKnownCustomer
<1>4. customers' = [customers EXCEPT ![buyer[k]] = customers[buyer[k]]]
      BY <1>1, <1>3 DEF LinkCustomer, Linked
<1>5. customers' = customers
      BY <1>2, <1>4 DEF IInv, TypeOK
<1> QED BY <1>5, NothingBought DEF LinkCustomer, tables, provider

LEMMA CompletionCompletes ==
    ASSUME IInv, NEW r \in Request,
           CompleteAttempt(r) \/ ReportCompletion(r) \/ Finish(r)
    PROVE  Bought!Next
<1>1. PICK k \in Key : k = request[r].key
      BY Busy DEF CompleteAttempt, ReportCompletion, Finish, At
<1>2. UNCHANGED <<buyer, session, customers, started, opened, paid>>
      BY DEF CompleteAttempt, ReportCompletion, Finish, provider
<1>3. Billed' = Billed
      BY <1>2 DEF Billed
<1>4. CASE CompleteAttempt(r)
  <2>1. k \in paid /\ attempts[k] # "none"
        BY <1>1, <1>4, Busy DEF CompleteAttempt, At, CompletionKnows, Completing,
           IInv, TypeOK, OpenedIsRecorded
  <2>2. /\ attempts' = [attempts EXCEPT ![k] = "completed"]
        /\ UNCHANGED <<completed, processed>>
        BY <1>1, <1>4, <2>1 DEF CompleteAttempt, Completed
  <2>3. Bought!Complete(k)
        BY <1>2, <1>3, <2>1, <2>2 DEF Bought!Complete
  <2> QED BY <2>3 DEF Bought!Next
<1>5. CASE ReportCompletion(r)
  <2>1. attempts[k] = "completed"
        BY <1>1, <1>5, Busy DEF ReportCompletion, At, CompletionKnows
  <2>2. Bought!Report(k)
        BY <1>1, <1>2, <1>3, <1>5, <2>1 DEF ReportCompletion, Bought!Report
  <2> QED BY <2>2 DEF Bought!Next
<1>6. CASE Finish(r)
  <2>1. k \in completed
        BY <1>1, <1>6, Busy DEF Finish, At, CompletionKnows
  <2>2. Bought!Settle(k)
        BY <1>1, <1>2, <1>3, <1>6, <2>1 DEF Finish, Bought!Settle
  <2> QED BY <2>2 DEF Bought!Next
<1> QED BY <1>4, <1>5, <1>6

LEMMA BoughtStep == IInv /\ [Next]_vars => [Bought!Next]_(Bought!vars)
<1> SUFFICES ASSUME IInv, [Next]_vars
             PROVE  [Bought!Next]_(Bought!vars)
    OBVIOUS
<1>1. ASSUME NEW r \in Request, NEW k \in Key, Start(r, k) \/ Deliver(r, k)
      PROVE  [Bought!Next]_(Bought!vars)
      BY <1>1, NothingBought DEF Start, Deliver, provider
<1>2. ASSUME NEW r \in Request, FindCustomer(r) \/ CreateCustomer(r) \/ Fail(r)
      PROVE  [Bought!Next]_(Bought!vars)
      BY <1>2, NothingBought DEF FindCustomer, CreateCustomer, Fail, provider
<1>3. ASSUME NEW r \in Request, Handle(r)
      PROVE  [Bought!Next]_(Bought!vars)
      BY <1>2, <1>3, InsertKnows, SessionBills, StoreRecords, AuditAnnounces,
         LinkChangesNothing, CompletionCompletes DEF Handle
<1>4. ASSUME NEW a \in Account, Forget(a)
      PROVE  [Bought!Next]_(Bought!vars)
      BY <1>4, NothingBought DEF Forget
<1>5. CASE ChangeTrial \/ UNCHANGED vars
      BY <1>5, NothingBought DEF ChangeTrial, vars, provider
<1> QED BY <1>1, <1>2, <1>3, <1>4, <1>5, PaymentPays DEF Next

(* Racing, repeated, failing and late requests of create_checkout and       *)
(* apply_event implement purchases: every click goes through its stages in  *)
(* order, none is skipped or gone back to, and it is billed to the one      *)
(* customer its account is known by.                                        *)
THEOREM Implementation == Spec => ImplementsPurchases
BY InvInit, InvStep, BoughtInit, BoughtStep, PTL
   DEF Spec, ImplementsPurchases, Bought!Spec

=============================================================================
