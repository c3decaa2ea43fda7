------------------------ MODULE PaymentEventsProofs ------------------------
(***************************************************************************)
(* Proofs about PaymentEvents, for any number of requests, events and      *)
(* failures.                                                               *)
(***************************************************************************)
EXTENDS PaymentEvents, TLAPS

-----------------------------------------------------------------------------
(* Types.  An event has the fields of its kind, and a request is at a step  *)
(* of its event's kind.                                                     *)

LogShape ==
    \A n \in 1 .. emitted :
        /\ log[n].kind = "subscription" => log[n].status \in Status
        /\ log[n].kind \in {"paid", "failed"} => log[n].payment \in Payment

StepFits ==
    \A r \in Request :
        LET at   == request[r].at
            kind == log[request[r].event].kind
        IN
        /\ at \in {"link", "attempt"} => kind = "checkout"
        /\ at \in {"customer", "price", "sync"} => kind = "subscription"
        /\ at \in {"status", "find", "exponent", "transaction"}
             => kind \in {"paid", "failed"}
        /\ at = "audit" => kind # "other"

Typed == TypeOK /\ LogShape /\ StepFits

(* The types hold at the start.                                             *)
LEMMA TypedInit == Init => Typed
BY Bounds DEF Init, Typed, TypeOK, LogShape, StepFits, Idle, Events, Plain,
              Content, Kinds, SubscriptionRow, Steps

(* An event is one of those the log has room for, and a busy request has    *)
(* one of those emitted.                                                    *)
LEMMA BusyEvent ==
    ASSUME TypeOK, NEW r \in Request, request[r].at # "idle"
    PROVE  /\ request[r].event \in 1 .. emitted
           /\ request[r].event \in Events
           /\ emitted \in Nat
           /\ emitted <= MaxEvents
BY Bounds DEF TypeOK, Idle, Events

(* Each action keeps the types.                                             *)
LEMMA TypedStep == Typed /\ [Next]_vars => Typed'
<1> SUFFICES ASSUME Typed, [Next]_vars
             PROVE  Typed'
    OBVIOUS
<1> USE Bounds, StatusAssumption, NoneIsNoEventValue
<1>1. CASE Emit
  <2>1. PICK c \in Content : CanHappen(c) /\ log' = [log EXCEPT ![emitted + 1] = c]
        BY <1>1 DEF Emit
  <2>2. /\ emitted \in 0 .. MaxEvents
        /\ emitted + 1 \in Events
        /\ emitted' = emitted + 1
        /\ UNCHANGED <<acked, events, tables, priced, request, failures, orderly>>
        BY <1>1 DEF Emit, Typed, TypeOK, Events
  <2>3. TypeOK'
        BY <2>1, <2>2 DEF Typed, TypeOK, tables, Events
  <2>4. LogShape'
        BY <2>1, <2>2 DEF Typed, TypeOK, LogShape, CanHappen, Content, Kinds, Events
  <2>5. StepFits'
        BY <2>1, <2>2 DEF Typed, TypeOK, StepFits, Idle, Events
  <2> QED BY <2>3, <2>4, <2>5 DEF Typed
<1>2. ASSUME NEW p \in Price, CreatePlanPrice(p)
      PROVE  Typed'
      BY <1>2 DEF CreatePlanPrice, Typed, TypeOK, LogShape, StepFits, tables
<1>3. ASSUME NEW r \in Request, NEW e \in Events, Deliver(r, e)
      PROVE  Typed'
  <2> USE <1>3 DEF Deliver, Answer, Failed, CanFail, tables
  <2>1. TypeOK'
    <3>1. acked' \subseteq 1 .. emitted /\ failures' \in 0 .. MaxFailures
          BY DEF Typed, TypeOK, Events
    <3>2. /\ request' \in [Request -> [at : Steps, event : 0 .. MaxEvents]]
          /\ \A q \in Request :
               request'[q] = Idle \/ request'[q].event \in 1 .. emitted
      <4>1. e \in 1 .. emitted /\ e \in 0 .. MaxEvents
            BY DEF Typed, TypeOK, Events
      <4>2. [at |-> "claim", event |-> e] \in [at : Steps, event : 0 .. MaxEvents]
            BY <4>1 DEF Steps
      <4>3. CASE request' = request
            BY <4>3 DEF Typed, TypeOK
      <4>4. CASE request' = [request EXCEPT ![r] = [at |-> "claim", event |-> e]]
            BY <4>1, <4>2, <4>4 DEF Typed, TypeOK
      <4> QED BY <4>3, <4>4
    <3>3. orderly' \in BOOLEAN
          BY DEF Typed, TypeOK
    <3> QED BY <3>1, <3>2, <3>3 DEF Typed, TypeOK
  <2>2. LogShape'
        BY DEF Typed, LogShape
  <2>3. StepFits'
        BY DEF Typed, StepFits, TypeOK, Idle, Steps
  <2> QED BY <2>1, <2>2, <2>3 DEF Typed
<1>4. ASSUME NEW r \in Request, Handle(r)
      PROVE  Typed'
  <2>1. /\ request[r].event \in 1 .. emitted
        /\ request[r].event \in Events
        /\ emitted \in 0 .. MaxEvents
        BY <1>4, BusyEvent DEF Typed, TypeOK, Handle, At, Claim, LinkCustomer,
             CompleteAttempt, FindCustomer, FindPrice, SyncSubscription,
             SetStatus, FindSubscription, FindExponent, RecordTransaction,
             Audit, Finish, Reject
  <2> DEFINE e == request[r].event
  <2> USE <1>4, <2>1 DEF At, MoveTo, End, Outside, tables, Idle, Steps
  <2>2. CASE Claim(r)
    <3>0. /\ request[r].at = "claim" /\ log[e].kind \in Kinds
          /\ \E s \in {"link", "customer", "status", "finish"} :
               /\ request' = [request EXCEPT ![r].at = s]
               /\ s = "link" => log[e].kind = "checkout"
               /\ s = "customer" => log[e].kind = "subscription"
               /\ s = "status" => log[e].kind \in {"paid", "failed"}
      <4>1. log[e].kind \in Kinds
            BY DEF Typed, TypeOK, Content
      <4> QED BY <2>2, <4>1 DEF Claim, Kinds
    <3>1. TypeOK'
          BY <2>2, <3>0 DEF Claim, Claimed, Typed, TypeOK
    <3>2. LogShape' /\ StepFits'
          BY <2>2, <3>0 DEF Claim, Typed, TypeOK, LogShape, StepFits
    <3> QED BY <3>1, <3>2 DEF Typed
  <2>3. CASE LinkCustomer(r)
        BY <2>3 DEF LinkCustomer, Linked, Typed, TypeOK, LogShape, StepFits
  <2>4. CASE CompleteAttempt(r)
        BY <2>4 DEF CompleteAttempt, Typed, TypeOK, LogShape, StepFits
  <2>5. CASE FindCustomer(r) \/ FindPrice(r)
        BY <2>5 DEF FindCustomer, FindPrice, Typed, TypeOK, LogShape, StepFits
  <2>6. CASE SyncSubscription(r)
    <3>1. TypeOK'
      <4>1. log[e] \in Content /\ log[e].status \in Status
            BY <2>6 DEF SyncSubscription, Typed, TypeOK, LogShape, StepFits
      <4>2. Synced(e) \in SubscriptionRow
            BY <4>1 DEF Synced, SubscriptionRow, Content, Events
      <4> QED BY <2>6, <4>2 DEF SyncSubscription, Typed, TypeOK
    <3>2. LogShape' /\ StepFits'
          BY <2>6 DEF SyncSubscription, Typed, TypeOK, LogShape, StepFits
    <3> QED BY <3>1, <3>2 DEF Typed
  <2>7. CASE SetStatus(r)
    <3>1. TypeOK'
      <4>1. row' \in SubscriptionRow
            BY <2>7 DEF SetStatus, InvoiceStatus, SubscriptionRow, Typed, TypeOK, Events
      <4> QED BY <2>7, <4>1 DEF SetStatus, Typed, TypeOK
    <3>2. LogShape' /\ StepFits'
          BY <2>7 DEF SetStatus, Typed, TypeOK, LogShape, StepFits
    <3> QED BY <3>1, <3>2 DEF Typed
  <2>8. CASE FindSubscription(r) \/ FindExponent(r)
    <3>1. \E s \in {"transaction", "exponent", "fail"} :
             request' = [request EXCEPT ![r].at = s]
          BY <2>8 DEF FindSubscription, FindExponent
    <3>2. /\ log[e].kind \in {"paid", "failed"}
          /\ UNCHANGED <<log, emitted, priced, orderly, events, linked, attempt,
                         row, payments, trail, acked, failures>>
          BY <2>8 DEF FindSubscription, FindExponent, Typed, StepFits
    <3>3. TypeOK'
          BY <3>1, <3>2 DEF Typed, TypeOK
    <3>4. LogShape' /\ StepFits'
          BY <3>1, <3>2 DEF Typed, TypeOK, LogShape, StepFits
    <3> QED BY <3>3, <3>4 DEF Typed
  <2>9. CASE RecordTransaction(r)
        BY <2>9 DEF RecordTransaction, Typed, TypeOK, LogShape, StepFits
  <2>10. CASE Audit(r)
        BY <2>10 DEF Audit, Typed, TypeOK, LogShape, StepFits
  <2>11. CASE Finish(r)
    <3>1. /\ acked' \subseteq 1 .. emitted
          /\ failures' \in 0 .. MaxFailures
      <4>1. Answer(e)
            BY <2>11 DEF Finish
      <4>2. /\ acked' = acked \cup {e} \/ acked' = acked
            /\ failures' = failures \/ (failures < MaxFailures
                                          /\ failures' = failures + 1)
            /\ acked \subseteq 1 .. emitted
            /\ failures \in 0 .. MaxFailures
            /\ emitted' = emitted
            BY <4>1, <2>11 DEF Answer, Failed, CanFail, Finish, Typed, TypeOK
      <4>3. failures' \in 0 .. MaxFailures
            BY <4>2
      <4>4. acked' \subseteq 1 .. emitted
            BY <4>2
      <4> QED BY <4>3, <4>4
    <3>2. events' \in [Events -> {"none", "processing", "processed", "ignored",
                                  "failed"}]
      <4>1. \E s \in {"ignored", "processed"} : events' = Marked(e, s)
            BY <2>11 DEF Finish, Success
      <4> QED BY <4>1 DEF Marked, Typed, TypeOK
    <3>3. TypeOK'
      <4>1. /\ request' \in [Request -> [at : Steps, event : 0 .. MaxEvents]]
            /\ \A q \in Request :
                 request'[q] = Idle \/ request'[q].event \in 1 .. emitted
            BY <2>11 DEF Finish, Typed, TypeOK
      <4>2. UNCHANGED <<log, emitted, priced, orderly, linked, attempt, row,
                        payments, trail>>
            BY <2>11 DEF Finish
      <4> HIDE DEF Idle, Steps
      <4> QED BY <4>1, <4>2, <3>1, <3>2 DEF Typed, TypeOK
    <3>4. LogShape' /\ StepFits'
          BY <2>11 DEF Finish, Typed, TypeOK, LogShape, StepFits
    <3> QED BY <3>3, <3>4 DEF Typed
  <2>12. CASE Reject(r)
        BY <2>12 DEF Reject, Failure, Marked, Typed, TypeOK, LogShape, StepFits
  <2> QED BY <2>2, <2>3, <2>4, <2>5, <2>6, <2>7, <2>8, <2>9, <2>10, <2>11,
             <2>12 DEF Handle
<1>5. ASSUME NEW r \in Request, StatementFails(r) \/ Stop(r)
      PROVE  Typed'
  <2>1. UNCHANGED <<log, emitted, priced, orderly, events, linked, attempt, row,
                    payments, trail, acked>>
        BY <1>5 DEF StatementFails, Stop, Outside, tables
  <2>2. failures' \in 0 .. MaxFailures
        BY <1>5 DEF StatementFails, Stop, Failed, CanFail, Typed, TypeOK
  <2>3. \/ request' = [request EXCEPT ![r].at = "fail"]
        \/ request' = [request EXCEPT ![r] = Idle]
        BY <1>5 DEF StatementFails, Stop, MoveTo, End
  <2>4. request[r] # Idle
        BY <1>5 DEF StatementFails, Stop, Idle
  <2>5. TypeOK'
        BY <2>1, <2>2, <2>3, <2>4 DEF Typed, TypeOK, Idle, Steps
  <2>6. StepFits'
        BY <2>1, <2>3 DEF Typed, TypeOK, StepFits, Idle
  <2> QED BY <2>1, <2>5, <2>6 DEF Typed, LogShape
<1>6. CASE UNCHANGED vars
      BY <1>6 DEF vars, Typed, TypeOK, LogShape, StepFits
<1> QED BY <1>1, <1>2, <1>3, <1>4, <1>5, <1>6 DEF Next

(* The tables, the log and the requests keep their types, however the       *)
(* deliveries interleave and fail.                                          *)
THEOREM TypeCorrect == Spec => []TypeOK
<1>1. Spec => []Typed
      BY TypedInit, TypedStep, PTL DEF Spec
<1>2. Typed => TypeOK
      BY DEF Typed
<1> QED BY <1>1, <1>2, PTL

-----------------------------------------------------------------------------
(* What a step never undoes: the log is appended to, a row of the event     *)
(* table stays, an event applied or audited stays so.                       *)

LogKept == emitted <= emitted' /\ \A e \in 1 .. emitted : log'[e] = log[e]

RowsKept ==
    /\ \A e \in Events : events[e] # "none" => events'[e] # "none"
    /\ trail \subseteq trail'
    /\ linked => linked'
    /\ attempt # "created" => attempt' # "created"
    /\ row.status # "none" => row'.status # "none"
    /\ \A p \in Payment : payments[p] # "none" => payments'[p] # "none"

(* The log only grows.                                                      *)
LEMMA LogStays == Typed /\ [Next]_vars => LogKept
<1> SUFFICES ASSUME Typed, [Next]_vars
             PROVE  LogKept
    OBVIOUS
<1> USE DEF LogKept
<1>0. emitted \in Nat /\ emitted <= MaxEvents
      BY Bounds DEF Typed, TypeOK
<1>1. CASE Emit
      BY <1>0, <1>1, Bounds DEF Emit, Typed, TypeOK, Events
<1>2. CASE log' = log /\ emitted' = emitted
      BY <1>0, <1>2
<1>3. Emit \/ (log' = log /\ emitted' = emitted)
  <2>1. ASSUME NEW r \in Request, Handle(r)
        PROVE  log' = log /\ emitted' = emitted
        BY <2>1 DEF Handle, Claim, LinkCustomer, CompleteAttempt, FindCustomer,
             FindPrice, SyncSubscription, SetStatus, FindSubscription,
             FindExponent, RecordTransaction, Audit, Finish, Reject, Outside
  <2> QED BY <2>1 DEF Next, vars, CreatePlanPrice, Deliver, StatementFails,
                      Stop, Outside
<1> QED BY <1>1, <1>2, <1>3

(* The rows only gain.                                                      *)
LEMMA RowsStay == Typed /\ [Next]_vars => RowsKept
<1> SUFFICES ASSUME Typed, [Next]_vars
             PROVE  RowsKept
    OBVIOUS
<1> USE DEF RowsKept
<1>1. CASE UNCHANGED <<events, tables>>
      BY <1>1 DEF tables
<1>2. ASSUME NEW r \in Request, Handle(r)
      PROVE  RowsKept
  <2>1. request[r].event \in Events
        BY <1>2, BusyEvent DEF Typed, Handle, At, Claim, LinkCustomer,
             CompleteAttempt, FindCustomer, FindPrice, SyncSubscription,
             SetStatus, FindSubscription, FindExponent, RecordTransaction,
             Audit, Finish, Reject
  <2> DEFINE e == request[r].event
  <2> USE <2>1 DEF Outside, tables, Typed, TypeOK
  <2>2. CASE Claim(r)
        BY <2>2 DEF Claim, Claimed
  <2>3. CASE LinkCustomer(r) \/ CompleteAttempt(r) \/ Audit(r)
        BY <2>3 DEF LinkCustomer, Linked, CompleteAttempt, Audit
  <2>4. CASE FindCustomer(r) \/ FindPrice(r) \/ FindSubscription(r)
               \/ FindExponent(r)
        BY <2>4 DEF FindCustomer, FindPrice, FindSubscription, FindExponent
  <2>5. CASE SyncSubscription(r)
    <3>1. log[e].status \in Status
          BY <2>5 DEF SyncSubscription, At, LogShape, StepFits, Idle
    <3> QED BY <2>5, <3>1, StatusAssumption DEF SyncSubscription, Synced
  <2>6. CASE SetStatus(r)
        BY <2>6 DEF SetStatus, InvoiceStatus, SubscriptionRow
  <2>7. CASE RecordTransaction(r)
        BY <2>7 DEF RecordTransaction
  <2>8. CASE Finish(r) \/ Reject(r)
    <3>1. \E s \in {"ignored", "processed", "failed"} : events' = Marked(e, s)
          BY <2>8 DEF Finish, Reject, Success, Failure
    <3>2. UNCHANGED tables
          BY <2>8 DEF Finish, Reject
    <3> QED BY <3>1, <3>2 DEF Marked
  <2> QED BY <1>2, <2>2, <2>3, <2>4, <2>5, <2>6, <2>7, <2>8 DEF Handle
<1>3. ASSUME NEW r \in Request, StatementFails(r) \/ Stop(r)
      PROVE  RowsKept
      BY <1>1, <1>3 DEF StatementFails, Stop
<1>4. ASSUME NEW r \in Request, NEW e \in Events, Deliver(r, e)
      PROVE  RowsKept
      BY <1>1, <1>4 DEF Deliver
<1>5. CASE Emit \/ (\E p \in Price : CreatePlanPrice(p)) \/ UNCHANGED vars
      BY <1>1, <1>5 DEF Emit, CreatePlanPrice, vars, tables
<1> QED BY <1>2, <1>3, <1>4, <1>5 DEF Next

(* What an event has left in the tables stays.                              *)
LEMMA AppliedStays ==
    ASSUME Typed, LogKept, RowsKept, NEW e \in 1 .. emitted, Applied(e)
    PROVE  Applied(e)'
<1>1. log'[e] = log[e]
      BY DEF LogKept
<1>2. log[e].kind \in {"paid", "failed"} => log[e].payment \in Payment
      BY DEF Typed, LogShape
<1>3. log[e].kind \in Kinds
  <2>1. e \in Events
        BY Bounds DEF Typed, TypeOK, Events
  <2> QED BY <2>1 DEF Typed, TypeOK, Content
<1> QED BY <1>1, <1>2, <1>3 DEF Applied, RowsKept, Kinds

(* What a request past its claim has done: its event has a row; its         *)
(* checkout has linked the customer; past the tables it has applied the     *)
(* event, past the audit it has recorded it.                                *)
Records ==
    /\ trail \subseteq 1 .. emitted
    /\ \A e \in Events : events[e] # "none" => e <= emitted

ProgressOf(r) ==
    LET at == request[r].at
        e  == request[r].event
    IN
    /\ at \notin {"idle", "claim"} => events[e] # "none"
    /\ at = "attempt" => linked
    /\ at = "audit" => Applied(e)
    /\ at = "finish" => e \in trail \/ log[e].kind = "other"

Progress == \A r \in Request : ProgressOf(r)

NoLoss == Records /\ Progress /\ SettledIsRecorded

(* The three hold at the start.                                             *)
LEMMA NoLossInit == Init => NoLoss
BY Bounds DEF Init, NoLoss, Records, Progress, ProgressOf, SettledIsRecorded,
              Idle, Events

(* A request that a step leaves alone has done what it had done.            *)
LEMMA OthersKeep ==
    ASSUME Typed, Records, LogKept, RowsKept,
           NEW q \in Request, ProgressOf(q), request'[q] = request[q]
    PROVE  ProgressOf(q)'
<1>1. CASE request[q].at = "idle"
      BY <1>1 DEF ProgressOf
<1>2. CASE request[q].at # "idle"
  <2>1. request[q].event \in 1 .. emitted /\ request[q].event \in Events
        BY <1>2, BusyEvent DEF Typed
  <2>2. PICK e \in 1 .. emitted : e = request[q].event
        BY <2>1
  <2>3. Applied(e) => Applied(e)'
        BY AppliedStays
  <2>4. log'[e] = log[e]
        BY DEF LogKept
  <2>5. (events[e] # "none" => events'[e] # "none") /\ trail \subseteq trail'
        BY <2>1, <2>2 DEF RowsKept
  <2>6. e = request'[q].event /\ request'[q].at = request[q].at
        BY <2>2
  <2>7. request[q].at = "audit" => Applied(e)'
        BY <2>2, <2>3 DEF ProgressOf
  <2> QED BY <2>2, <2>4, <2>5, <2>6, <2>7 DEF ProgressOf, RowsKept
<1> QED BY <1>1, <1>2

(* A step that records nothing, settles no row and answers settled events   *)
(* only loses none.                                                         *)
LEMMA SettledStay ==
    ASSUME Typed, NoLoss, LogKept, RowsKept, trail' = trail,
           \A e \in Events : events'[e] \in {"processed", "ignored"}
                             => events'[e] = events[e],
           \A e \in acked' : e \in acked \/ (e \in Events /\ Settled(e))
    PROVE  SettledIsRecorded'
<1> USE DEF NoLoss
<1>1. ASSUME NEW e \in trail' PROVE Applied(e)'
      BY <1>1, AppliedStays DEF Records, SettledIsRecorded
<1>2. ASSUME NEW e \in Events, events'[e] = "processed" PROVE e \in trail'
      BY <1>2 DEF SettledIsRecorded
<1>3. ASSUME NEW e \in Events, events'[e] = "ignored"
      PROVE  log'[e].kind = "other"
  <2>1. events[e] = "ignored"
        BY <1>3
  <2>2. e \in 1 .. emitted
        BY <2>1 DEF Records, Events
  <2> QED BY <2>1, <2>2 DEF SettledIsRecorded, LogKept
<1>4. ASSUME NEW e \in Events, e \in acked'
      PROVE  e \in trail' \/ log'[e].kind = "other"
  <2>1. e \in acked \/ Settled(e)
        BY <1>4
  <2>2. e \in trail \/ log[e].kind = "other"
        BY <2>1 DEF SettledIsRecorded, Settled
  <2>3. e \in 1 .. emitted
        BY <2>1 DEF Records, Settled, Events, Typed, TypeOK
  <2> QED BY <2>2, <2>3 DEF LogKept
<1> QED BY <1>1, <1>2, <1>3, <1>4 DEF SettledIsRecorded

(* Each action keeps the three.                                             *)
LEMMA NoLossStep == Typed /\ NoLoss /\ [Next]_vars => NoLoss'
<1> SUFFICES ASSUME Typed, NoLoss, [Next]_vars
             PROVE  NoLoss'
    OBVIOUS
<1>0. /\ LogKept /\ RowsKept
      /\ emitted \in Nat /\ emitted <= MaxEvents /\ emitted' \in Nat
      BY LogStays, RowsStay, TypedStep, Bounds DEF Typed, TypeOK
<1>1. ASSUME UNCHANGED <<events, tables, request, acked>>
      PROVE  NoLoss'
  <2>1. Records'
        BY <1>0, <1>1 DEF NoLoss, Records, LogKept, tables, Typed, TypeOK
  <2>2. Progress'
        BY <1>0, <1>1, OthersKeep DEF NoLoss, Progress
  <2>3. SettledIsRecorded'
        BY <1>0, <1>1, SettledStay DEF tables
  <2> QED BY <2>1, <2>2, <2>3 DEF NoLoss
<1>2. ASSUME NEW r \in Request, NEW e \in Events, Deliver(r, e)
      PROVE  NoLoss'
  <2>1. UNCHANGED <<log, emitted, events, tables>>
        BY <1>2 DEF Deliver
  <2>2. Records'
        BY <2>1 DEF NoLoss, Records, tables
  <2>3. Progress'
    <3>1. ProgressOf(r)'
      <4>1. request'[r] = request[r] \/ request'[r].at = "claim"
            BY <1>2 DEF Deliver, Typed, TypeOK
      <4>2. CASE request'[r] = request[r]
            BY <1>0, <4>2, OthersKeep DEF NoLoss, Progress
      <4>3. CASE request'[r].at = "claim"
            BY <4>3 DEF ProgressOf
      <4> QED BY <4>1, <4>2, <4>3
    <3>2. ASSUME NEW q \in Request \ {r} PROVE ProgressOf(q)'
      <4>1. request'[q] = request[q]
            BY <1>2 DEF Deliver, Typed, TypeOK
      <4> QED BY <1>0, <4>1, OthersKeep DEF NoLoss, Progress
    <3> QED BY <3>1, <3>2 DEF Progress
  <2>4. SettledIsRecorded'
    <3>1. \A n \in acked' : n \in acked \/ (n \in Events /\ Settled(n))
          BY <1>2 DEF Deliver, Answer, Duplicate, Settled
    <3> QED BY <1>0, <2>1, <3>1, SettledStay DEF tables
  <2> QED BY <2>2, <2>3, <2>4 DEF NoLoss
<1>3. ASSUME NEW r \in Request, Handle(r)
      PROVE  NoLoss'
  <2>1. /\ request[r].event \in 1 .. emitted
        /\ request[r].event \in Events
        /\ request[r].at # "idle"
        BY <1>3, BusyEvent DEF Typed, Handle, At, Claim, LinkCustomer,
             CompleteAttempt, FindCustomer, FindPrice, SyncSubscription,
             SetStatus, FindSubscription, FindExponent, RecordTransaction,
             Audit, Finish, Reject
  <2>2. PICK e \in 1 .. emitted : e = request[r].event /\ e \in Events
        BY <2>1
  <2>3. UNCHANGED <<log, emitted>> /\ log[e].kind \in Kinds
    <3>1. UNCHANGED <<log, emitted>>
          BY <1>3 DEF Handle, Claim, LinkCustomer, CompleteAttempt,
             FindCustomer, FindPrice, SyncSubscription, SetStatus,
             FindSubscription, FindExponent, RecordTransaction, Audit, Finish,
             Reject, Outside
    <3> QED BY <2>2, <3>1 DEF Typed, TypeOK, Content
  <2>4. \A q \in Request \ {r} : request'[q] = request[q]
        BY <1>3 DEF Typed, TypeOK, Handle, MoveTo, End, Claim, LinkCustomer,
             CompleteAttempt, FindCustomer, FindPrice, SyncSubscription,
             SetStatus, FindSubscription, FindExponent, RecordTransaction,
             Audit, Finish, Reject
  <2>5. ASSUME ProgressOf(r)' PROVE Progress'
        BY <1>0, <2>4, <2>5, OthersKeep DEF NoLoss, Progress
  <2>6. ASSUME UNCHANGED <<events, trail, acked>>, ProgressOf(r)'
        PROVE  NoLoss'
    <3>1. Records'
          BY <2>3, <2>6 DEF NoLoss, Records
    <3>2. SettledIsRecorded'
          BY <1>0, <2>6, SettledStay
    <3> QED BY <2>5, <2>6, <3>1, <3>2 DEF NoLoss
  <2>7. ProgressOf(r) /\ request[r] \in [at : Steps, event : 0 .. MaxEvents]
        BY DEF NoLoss, Progress, Typed, TypeOK
  <2>8. ASSUME NEW s \in Steps, MoveTo(r, s)
        PROVE  request'[r].at = s /\ request'[r].event = e
        BY <2>2, <2>8 DEF MoveTo, Typed, TypeOK
  <2>9. CASE Claim(r)
    <3>1. UNCHANGED <<trail, acked>> /\ events' = [events EXCEPT ![e] = "processing"]
          BY <2>2, <2>9 DEF Claim, Claimed, tables
    <3>2. events'[e] = "processing"
          BY <2>2, <3>1 DEF Typed, TypeOK
    <3>3. request'[r].event = e
          /\ request'[r].at \in {"link", "customer", "status", "finish"}
          /\ (request'[r].at = "finish" => log[e].kind = "other")
          BY <2>2, <2>3, <2>9 DEF Claim, MoveTo, Typed, TypeOK, Kinds
    <3>4. ProgressOf(r)'
          BY <2>3, <3>2, <3>3 DEF ProgressOf
    <3>5. Records'
      <4>1. \A n \in Events \ {e} : events'[n] = events[n]
            BY <3>1 DEF Typed, TypeOK
      <4>2. \A n \in Events : n = e => n <= emitted
            BY <1>0
      <4> QED BY <2>3, <3>1, <4>1, <4>2 DEF NoLoss, Records
    <3>6. SettledIsRecorded'
          BY <1>0, <3>1, <2>2, SettledStay DEF Typed, TypeOK
    <3> QED BY <2>5, <3>4, <3>5, <3>6 DEF NoLoss
  <2>10. CASE LinkCustomer(r)
    <3>1. MoveTo(r, "attempt") /\ UNCHANGED <<events, trail, acked>> /\ linked'
          BY <2>10 DEF LinkCustomer, Linked
    <3>2. request'[r].at = "attempt" /\ request'[r].event = e
          BY <2>8, <3>1 DEF Steps
    <3>3. events[e] # "none"
          BY <2>2, <2>7, <2>10 DEF ProgressOf, LinkCustomer, At
    <3> QED BY <2>6, <3>1, <3>2, <3>3 DEF ProgressOf
  <2>11. CASE CompleteAttempt(r)
    <3>1. MoveTo(r, "audit") /\ UNCHANGED <<events, trail, acked>>
          /\ linked' = linked /\ attempt' # "created"
          BY <2>11 DEF CompleteAttempt
    <3>2. request'[r].at = "audit" /\ request'[r].event = e
          BY <2>8, <3>1 DEF Steps
    <3>3. events[e] # "none" /\ linked /\ log[e].kind = "checkout"
          BY <2>2, <2>7, <2>11 DEF ProgressOf, CompleteAttempt, At, Typed, StepFits
    <3>4. Applied(e)'
          BY <2>3, <3>1, <3>3 DEF Applied
    <3> QED BY <2>6, <3>1, <3>2, <3>3, <3>4 DEF ProgressOf
  <2>12. CASE FindCustomer(r) \/ FindPrice(r) \/ SetStatus(r)
                \/ FindSubscription(r) \/ FindExponent(r)
    <3>1. UNCHANGED <<events, trail, acked>>
          BY <2>12 DEF FindCustomer, FindPrice, SetStatus, FindSubscription,
                       FindExponent, tables
    <3>2. PICK s \in {"price", "sync", "find", "transaction", "exponent", "fail"} :
             MoveTo(r, s)
          BY <2>12 DEF FindCustomer, FindPrice, SetStatus, FindSubscription,
                       FindExponent
    <3>3. request'[r].at = s /\ request'[r].event = e
          BY <2>8, <3>2 DEF Steps
    <3>4. events[e] # "none"
          BY <2>2, <2>7, <2>12 DEF ProgressOf, FindCustomer, FindPrice,
             SetStatus, FindSubscription, FindExponent, At
    <3> QED BY <2>6, <3>1, <3>3, <3>4 DEF ProgressOf
  <2>13. CASE SyncSubscription(r)
    <3>1. MoveTo(r, "audit") /\ UNCHANGED <<events, trail, acked>>
          /\ row' = Synced(e)
          BY <2>2, <2>13 DEF SyncSubscription
    <3>2. request'[r].at = "audit" /\ request'[r].event = e
          BY <2>8, <3>1 DEF Steps
    <3>3. events[e] # "none" /\ log[e].kind = "subscription"
          BY <2>2, <2>7, <2>13 DEF ProgressOf, SyncSubscription, At, Typed, StepFits
    <3>4. row'.status \in Status
          BY <3>1, <3>3 DEF Synced, Typed, LogShape
    <3>5. Applied(e)'
          BY <2>3, <3>3, <3>4, StatusAssumption DEF Applied
    <3> QED BY <2>6, <3>1, <3>2, <3>3, <3>5 DEF ProgressOf
  <2>14. CASE RecordTransaction(r)
    <3>1. MoveTo(r, "audit") /\ UNCHANGED <<events, trail, acked>>
          BY <2>14 DEF RecordTransaction
    <3>2. request'[r].at = "audit" /\ request'[r].event = e
          BY <2>8, <3>1 DEF Steps
    <3>3. events[e] # "none" /\ log[e].kind \in {"paid", "failed"}
          BY <2>2, <2>7, <2>14 DEF ProgressOf, RecordTransaction, At, Typed, StepFits
    <3>4. payments'[log[e].payment] # "none"
          BY <2>2, <2>14, <3>3 DEF RecordTransaction, Typed, TypeOK, LogShape
    <3>5. Applied(e)'
          BY <2>3, <3>3, <3>4 DEF Applied
    <3> QED BY <2>6, <3>1, <3>2, <3>3, <3>5 DEF ProgressOf
  <2>15. CASE Audit(r)
    <3>1. MoveTo(r, "finish") /\ UNCHANGED <<events, acked>>
          /\ trail' = trail \cup {e}
          BY <2>2, <2>15 DEF Audit
    <3>2. request'[r].at = "finish" /\ request'[r].event = e
          BY <2>8, <3>1 DEF Steps
    <3>3. events[e] # "none" /\ Applied(e)
          BY <2>2, <2>7, <2>15 DEF ProgressOf, Audit, At
    <3>4. ProgressOf(r)'
          BY <3>1, <3>2, <3>3 DEF ProgressOf
    <3>5. Records'
          BY <2>3, <3>1 DEF NoLoss, Records
    <3>6. \A n \in trail' : Applied(n)'
      <4>1. \A n \in trail' : n \in 1 .. emitted /\ Applied(n)
            BY <3>1, <3>3 DEF NoLoss, Records, SettledIsRecorded
      <4> QED BY <1>0, <4>1, AppliedStays
    <3>7. SettledIsRecorded'
          BY <2>3, <3>1, <3>6 DEF NoLoss, SettledIsRecorded
    <3> QED BY <2>5, <3>4, <3>5, <3>7 DEF NoLoss
  <2>16. CASE Finish(r)
    <3>1. events' = Success(e) /\ acked' \subseteq acked \cup {e}
          /\ UNCHANGED trail /\ request'[r] = Idle
          BY <2>2, <2>16 DEF Finish, End, Answer, tables, Typed, TypeOK
    <3>2. events[e] # "none" /\ (e \in trail \/ log[e].kind = "other")
          BY <2>2, <2>7, <2>16 DEF ProgressOf, Finish, At
    <3>3. /\ \A n \in Events \ {e} : events'[n] = events[n]
          /\ events'[e] = IF log[e].kind = "other" THEN "ignored" ELSE "processed"
          BY <2>2, <3>1, <3>2 DEF Success, Marked, Typed, TypeOK
    <3>4. ProgressOf(r)'
          BY <3>1 DEF ProgressOf, Idle
    <3>5. Records'
      <4>1. \A n \in Events : n = e => n <= emitted
            BY <1>0
      <4>2. \A n \in Events : events'[n] # "none" => n <= emitted
            BY <3>3, <4>1 DEF NoLoss, Records
      <4> QED BY <2>3, <3>1, <4>2 DEF NoLoss, Records
    <3>6. \A n \in trail' : Applied(n)'
          BY <1>0, <3>1, AppliedStays DEF NoLoss, Records, SettledIsRecorded
    <3>7. ASSUME NEW n \in Events
          PROVE  /\ events'[n] = "processed" => n \in trail'
                 /\ events'[n] = "ignored" => log'[n].kind = "other"
                 /\ n \in acked' => n \in trail' \/ log'[n].kind = "other"
      <4>1. CASE n = e
            BY <2>3, <3>1, <3>2, <3>3, <4>1
      <4>2. CASE n # e
            BY <2>3, <3>1, <3>3, <4>2 DEF NoLoss, SettledIsRecorded
      <4> QED BY <4>1, <4>2
    <3>8. SettledIsRecorded'
          BY <3>6, <3>7 DEF SettledIsRecorded
    <3> QED BY <2>5, <3>4, <3>5, <3>8 DEF NoLoss
  <2>17. CASE Reject(r)
    <3>1. events' = Failure(e) /\ UNCHANGED <<trail, acked>> /\ request'[r] = Idle
          BY <2>2, <2>17 DEF Reject, End, tables, Typed, TypeOK
    <3>2. /\ \A n \in Events \ {e} : events'[n] = events[n]
          /\ events'[e] \in {"none", "failed"}
          BY <2>2, <3>1 DEF Failure, Marked, Typed, TypeOK
    <3>3. ProgressOf(r)'
          BY <3>1 DEF ProgressOf, Idle
    <3>4. Records'
      <4>1. \A n \in Events : n = e => n <= emitted
            BY <1>0
      <4>2. \A n \in Events : events'[n] # "none" => n <= emitted
            BY <3>2, <4>1 DEF NoLoss, Records
      <4> QED BY <2>3, <3>1, <4>2 DEF NoLoss, Records
    <3>5. \A n \in Events : events'[n] \in {"processed", "ignored"}
                            => events'[n] = events[n]
          BY <3>2
    <3>6. SettledIsRecorded'
          BY <1>0, <3>1, <3>5, SettledStay
    <3> QED BY <2>5, <3>3, <3>4, <3>6 DEF NoLoss
  <2> QED BY <1>3, <2>9, <2>10, <2>11, <2>12, <2>13, <2>14, <2>15, <2>16,
             <2>17 DEF Handle
<1>4. ASSUME NEW r \in Request, StatementFails(r) \/ Stop(r)
      PROVE  NoLoss'
  <2>1. UNCHANGED <<log, emitted, events, trail, acked>>
        BY <1>4 DEF StatementFails, Stop, Outside, tables
  <2>2. \A q \in Request \ {r} : request'[q] = request[q]
        BY <1>4 DEF StatementFails, Stop, MoveTo, End, Typed, TypeOK
  <2>3. ProgressOf(r)'
    <3>1. CASE StatementFails(r)
      <4>1. request'[r].at = "fail" /\ request'[r].event = request[r].event
            BY <3>1 DEF StatementFails, MoveTo, Typed, TypeOK
      <4>2. events[request[r].event] # "none"
            BY <3>1 DEF StatementFails, NoLoss, Progress, ProgressOf
      <4> QED BY <2>1, <4>1, <4>2 DEF ProgressOf
    <3>2. CASE Stop(r)
      <4>1. request'[r] = Idle
            BY <3>2 DEF Stop, End, Typed, TypeOK
      <4> QED BY <4>1 DEF ProgressOf, Idle
    <3> QED BY <1>4, <3>1, <3>2
  <2>4. Progress'
        BY <1>0, <2>2, <2>3, OthersKeep DEF NoLoss, Progress
  <2>5. Records' /\ SettledIsRecorded'
        BY <1>0, <2>1, SettledStay DEF NoLoss, Records
  <2> QED BY <2>4, <2>5 DEF NoLoss
<1>5. CASE Emit \/ (\E p \in Price : CreatePlanPrice(p)) \/ UNCHANGED vars
      BY <1>1, <1>5 DEF Emit, CreatePlanPrice, vars, tables
<1> QED BY <1>2, <1>3, <1>4, <1>5 DEF Next

(* No event is lost: what the table calls processed, or the provider was    *)
(* told to forget, is in the tables and in the trail, however the           *)
(* deliveries overlap, fail, stop and repeat.                               *)
THEOREM NoEventLost == Spec => []SettledIsRecorded
<1>1. Spec => [](Typed /\ NoLoss)
      BY TypedInit, TypedStep, NoLossInit, NoLossStep, PTL DEF Spec
<1>2. NoLoss => SettledIsRecorded
      BY DEF NoLoss
<1> QED BY <1>1, <1>2, PTL

-----------------------------------------------------------------------------
(* What the subscription's row says.                                        *)

(* A step that writes the row does so for the event of a busy request.      *)
RowWritten ==
    \E r \in Request :
        LET e == request[r].event IN
        /\ request[r].at \in {"sync", "status"}
        /\ UNCHANGED <<log, emitted, events>>
        /\ row'.by = e
        /\ row'.status = IF log[e].kind = "subscription" THEN log[e].status
                         ELSE InvoiceStatus(e)

(* No other step writes the row.                                            *)
LEMMA RowKeptOrWritten ==
    Typed /\ [Next]_vars => UNCHANGED row \/ RowWritten
<1> SUFFICES ASSUME Typed, [Next]_vars
             PROVE  UNCHANGED row \/ RowWritten
    OBVIOUS
<1>1. ASSUME NEW r \in Request, SyncSubscription(r)
      PROVE  RowWritten
  <2>1. request[r].at = "sync" /\ log[request[r].event].kind = "subscription"
        BY <1>1 DEF SyncSubscription, At, Typed, StepFits
  <2>2. row' = Synced(request[r].event) /\ UNCHANGED <<log, emitted, events>>
        BY <1>1 DEF SyncSubscription, Outside
  <2> QED BY <2>1, <2>2 DEF RowWritten, Synced
<1>2. ASSUME NEW r \in Request, SetStatus(r)
      PROVE  UNCHANGED row \/ RowWritten
  <2>1. request[r].at = "status" /\ log[request[r].event].kind # "subscription"
        BY <1>2 DEF SetStatus, At, Typed, StepFits
  <2>2. UNCHANGED <<log, emitted, events>>
        BY <1>2 DEF SetStatus, Outside
  <2>3. \/ row' = row
        \/ row' = [row EXCEPT !.status = InvoiceStatus(request[r].event),
                              !.by = request[r].event]
        BY <1>2 DEF SetStatus
  <2> QED BY <2>1, <2>2, <2>3 DEF RowWritten, Typed, TypeOK, SubscriptionRow
<1>3. ASSUME NEW r \in Request, Handle(r)
      PROVE  UNCHANGED row \/ SyncSubscription(r) \/ SetStatus(r)
      BY <1>3 DEF Handle, Claim, LinkCustomer, CompleteAttempt, FindCustomer,
         FindPrice, FindSubscription, FindExponent, RecordTransaction, Audit,
         Finish, Reject, tables
<1> QED BY <1>1, <1>2, <1>3 DEF Next, vars, Emit, CreatePlanPrice, Deliver,
           StatementFails, Stop, tables

(* Each action keeps the row in agreement with its event.                   *)
LEMMA StatusStep ==
    ASSUME Typed, NoLoss, StatusHasItsEvent, [Next]_vars
    PROVE  StatusHasItsEvent'
<1>0. LogKept /\ RowsKept
      BY LogStays, RowsStay
<1>1. CASE UNCHANGED row
  <2>1. row.by \in 0 .. MaxEvents
        BY DEF Typed, TypeOK, SubscriptionRow
  <2>2. CASE row.by = 0
        BY <1>1, <2>2 DEF StatusHasItsEvent
  <2>3. CASE row.by # 0
    <3>1. row.by \in Events /\ events[row.by] # "none"
          BY <2>1, <2>3, Bounds DEF StatusHasItsEvent, Events
    <3>2. row.by \in 1 .. emitted
          BY <3>1 DEF NoLoss, Records, Events
    <3>3. log'[row.by] = log[row.by] /\ events'[row.by] # "none"
          BY <1>0, <3>1, <3>2 DEF LogKept, RowsKept
    <3> QED BY <1>1, <2>3, <3>3 DEF StatusHasItsEvent, InvoiceStatus
  <2> QED BY <2>2, <2>3
<1>2. CASE RowWritten
  <2>1. PICK r \in Request :
            LET e == request[r].event IN
            /\ request[r].at \in {"sync", "status"}
            /\ UNCHANGED <<log, emitted, events>>
            /\ row'.by = e
            /\ row'.status = IF log[e].kind = "subscription" THEN log[e].status
                             ELSE InvoiceStatus(e)
        BY <1>2 DEF RowWritten
  <2>2. events[request[r].event] # "none"
        BY <2>1 DEF NoLoss, Progress, ProgressOf
  <2> QED BY <2>1, <2>2 DEF StatusHasItsEvent, InvoiceStatus
<1> QED BY <1>1, <1>2, RowKeptOrWritten

(* Whatever the subscription's row says was said by one logged event.       *)
THEOREM StatusFromLog == Spec => []StatusHasItsEvent
<1>1. Init => StatusHasItsEvent
      BY DEF Init, StatusHasItsEvent
<1>2. Typed /\ NoLoss /\ StatusHasItsEvent /\ [Next]_vars => StatusHasItsEvent'
      BY StatusStep
<1> QED BY <1>1, <1>2, TypedInit, TypedStep, NoLossInit, NoLossStep, PTL DEF Spec

(* Once an event is settled and no request holds it, no step of any request *)
(* reopens it, holds it or writes the subscription for it.                  *)
THEOREM DoneForGood == Spec => DoneIsFinal
<1>1. Typed /\ [Next]_vars => DoneStep
  <2> SUFFICES ASSUME Typed, [Next]_vars, NEW e \in Events, DoneWith(e)
               PROVE  DoneWith(e)' /\ (row' # row => row'.by # e)
      BY DEF DoneStep
  <2>1. row' # row => row'.by # e
    <3>1. CASE RowWritten
          BY <3>1 DEF RowWritten, DoneWith
    <3> QED BY <3>1, RowKeptOrWritten
  <2>2. ASSUME NEW r \in Request, Handle(r)
        PROVE  DoneWith(e)'
    <3>1. /\ request[r].event \in Events /\ request[r].event # e
          BY <2>2, BusyEvent DEF DoneWith, Typed, Handle, At, Claim,
             LinkCustomer, CompleteAttempt, FindCustomer, FindPrice,
             SyncSubscription, SetStatus, FindSubscription, FindExponent,
             RecordTransaction, Audit, Finish, Reject
    <3>2. events'[e] = events[e]
          BY <2>2, <3>1 DEF Typed, TypeOK, Handle, Claim, Claimed,
             LinkCustomer, CompleteAttempt, FindCustomer, FindPrice,
             SyncSubscription, SetStatus, FindSubscription, FindExponent,
             RecordTransaction, Audit, Finish, Success, Reject, Failure, Marked
    <3>3. \A q \in Request : request'[q].event \in {request[q].event, 0}
          BY <2>2 DEF Typed, TypeOK, MoveTo, End, Idle, Handle, Claim,
             LinkCustomer, CompleteAttempt, FindCustomer, FindPrice,
             SyncSubscription, SetStatus, FindSubscription, FindExponent,
             RecordTransaction, Audit, Finish, Reject
    <3> QED BY <3>2, <3>3 DEF DoneWith, Settled, Events
  <2>3. ASSUME NEW r \in Request, NEW n \in Events, Deliver(r, n)
        PROVE  DoneWith(e)'
    <3>1. UNCHANGED events
          BY <2>3 DEF Deliver
    <3>2. CASE n = e
          BY <2>3, <3>1, <3>2 DEF Deliver, Duplicate, DoneWith, Settled
    <3>3. CASE n # e
      <4>1. \A q \in Request : request'[q].event \in {request[q].event, n}
            BY <2>3 DEF Deliver, Typed, TypeOK
      <4> QED BY <3>1, <3>3, <4>1 DEF DoneWith, Settled
    <3> QED BY <3>2, <3>3
  <2>4. ASSUME NEW r \in Request, StatementFails(r) \/ Stop(r)
        PROVE  DoneWith(e)'
    <3>1. \A q \in Request : request'[q].event \in {request[q].event, 0}
          BY <2>4 DEF StatementFails, Stop, MoveTo, End, Idle, Typed, TypeOK
    <3> QED BY <2>4, <3>1 DEF StatementFails, Stop, DoneWith, Settled, Events
  <2>5. CASE Emit \/ (\E p \in Price : CreatePlanPrice(p)) \/ UNCHANGED vars
    <3>1. UNCHANGED <<events, request>>
          BY <2>5 DEF Emit, CreatePlanPrice, vars
    <3> QED BY <2>1, <3>1 DEF DoneWith, Settled
  <2> QED BY <2>1, <2>2, <2>3, <2>4, <2>5 DEF Next
<1>2. Typed /\ Typed' /\ [Next]_vars => [DoneStep]_vars
      BY <1>1
<1> QED BY <1>2, TypedInit, TypedStep, PTL DEF Spec, DoneIsFinal

-----------------------------------------------------------------------------
(* Orderly deliveries.  As long as they come in order and one at a time,    *)
(* the answered events are the first ones, a settled event is answered      *)
(* before a later one is delivered, and the request in flight has written   *)
(* the row for its event by the time it looks past it.                      *)

SpokenBy == row.by # 0 => row.by \in 1 .. emitted /\ SpeaksOfStatus(row.by)

OneAtATime ==
    \A r, q \in Request : request[r] # Idle /\ request[q] # Idle => r = q

AnsweredInOrder ==
    /\ \A n \in acked : Settled(n)
    /\ \A n \in Events : Settled(n) =>
          /\ \A m \in 1 .. n - 1 : m \in acked
          /\ SpeaksOfStatus(n) => n <= row.by

WrittenBy(r) ==
    LET e == request[r].event IN
    SpeaksOfStatus(e) =>
        /\ request[r].at = "find" => row.by = e \/ row.status = "none"
        /\ request[r].at \in {"exponent", "transaction", "audit", "finish"}
             => row.by = e

InOrder(r) ==
    LET e == request[r].event IN
    /\ ~Settled(e)
    /\ \A m \in 1 .. e - 1 : m \in acked
    /\ WrittenBy(r)

OrderInv ==
    orderly => /\ OneAtATime
               /\ AnsweredInOrder
               /\ \A r \in Request : request[r] # Idle => InOrder(r)

(* The event a row was written by keeps its content.                        *)
LEMMA SpokenStep == Typed /\ SpokenBy /\ [Next]_vars => SpokenBy'
<1> SUFFICES ASSUME Typed, SpokenBy, [Next]_vars
             PROVE  SpokenBy'
    OBVIOUS
<1>0. LogKept /\ emitted \in Nat /\ emitted' \in Nat
      BY LogStays, TypedStep, Bounds DEF Typed, TypeOK
<1>1. CASE UNCHANGED row
      BY <1>0, <1>1 DEF SpokenBy, SpeaksOfStatus, LogKept
<1>2. CASE RowWritten
  <2>1. PICK r \in Request : /\ request[r].at \in {"sync", "status"}
                             /\ UNCHANGED <<log, emitted, events>>
                             /\ row'.by = request[r].event
        BY <1>2 DEF RowWritten
  <2>2. request[r].event \in 1 .. emitted
        BY <2>1, BusyEvent DEF Typed
  <2>3. SpeaksOfStatus(request[r].event)
        BY <2>1 DEF Typed, StepFits, SpeaksOfStatus
  <2> QED BY <2>1, <2>2, <2>3 DEF SpokenBy, SpeaksOfStatus
<1> QED BY <1>1, <1>2, RowKeptOrWritten

(* A request in flight has an event that was emitted.                       *)
LEMMA FlightEvent ==
    ASSUME TypeOK, NEW r \in Request, request[r] # Idle
    PROVE  request[r].event \in 1 .. emitted /\ request[r].event \in Events
BY Bounds DEF TypeOK, Events

(* The request in flight moves on, and perhaps writes the row.              *)
LEMMA MoveInOrder ==
    ASSUME Typed, OrderInv, NEW r \in Request, request[r] # Idle,
           NEW e \in Events, e = request[r].event,
           NEW s \in Steps, MoveTo(r, s),
           UNCHANGED <<log, emitted, acked, orderly>>,
           \A n \in Events : Settled(n)' => Settled(n),
           \A n \in Events : Settled(n) => Settled(n)',
           row'.by \in {row.by, e},
           orderly => WrittenBy(r)'
    PROVE  OrderInv'
<1> SUFFICES ASSUME orderly
             PROVE  /\ OneAtATime'
                    /\ AnsweredInOrder'
                    /\ \A q \in Request : request'[q] # Idle => InOrder(q)'
    BY DEF OrderInv
<1> USE DEF OrderInv
<1>1. e \in 1 .. emitted /\ e \in Events
      BY FlightEvent DEF Typed
<1>2. /\ \A q \in Request \ {r} : request'[q] = request[q]
      /\ request'[r].event = e /\ request'[r].at = s
      BY DEF MoveTo, Typed, TypeOK
<1>3. ~Settled(e) /\ \A m \in 1 .. e - 1 : m \in acked
      BY DEF InOrder
<1>4. acked \subseteq Events /\ \A n \in acked : Settled(n)
      BY Bounds DEF AnsweredInOrder, Typed, TypeOK, Events
<1>5. OneAtATime'
  <2>1. \A q \in Request : request'[q] # Idle => q = r
        BY <1>2 DEF OneAtATime
  <2> QED BY <2>1 DEF OneAtATime
<1>6. AnsweredInOrder'
  <2>1. ASSUME NEW n \in Events, Settled(n)'
        PROVE  /\ \A m \in 1 .. n - 1 : m \in acked
               /\ SpeaksOfStatus(n)' => n <= row'.by
    <3>1. Settled(n) /\ \A m \in 1 .. n - 1 : m \in acked
          BY <2>1 DEF AnsweredInOrder
    <3>2. n # e
          BY <1>3, <3>1
    <3>3. n < e
      <4>1. e < n => e \in acked
            BY <1>1, <3>1 DEF Events
      <4> QED BY <1>1, <1>3, <1>4, <3>2, <4>1 DEF Events
    <3>4. SpeaksOfStatus(n)' <=> SpeaksOfStatus(n)
          BY DEF SpeaksOfStatus
    <3>5. SpeaksOfStatus(n) => n <= row.by
          BY <3>1 DEF AnsweredInOrder
    <3>6. CASE row'.by = row.by
          BY <3>1, <3>4, <3>5, <3>6
    <3>7. CASE row'.by = e
          BY <1>1, <3>1, <3>3, <3>7 DEF Events
    <3> QED BY <3>6, <3>7
  <2>2. \A n \in acked' : Settled(n)'
        BY <1>4
  <2> QED BY <2>1, <2>2 DEF AnsweredInOrder
<1>7. ASSUME NEW q \in Request, request'[q] # Idle
      PROVE  InOrder(q)'
  <2>1. q = r
        BY <1>2, <1>7 DEF OneAtATime
  <2>2. ~(Settled(e)')
        BY <1>3
  <2>3. ~(Settled(request[r].event)')
        BY <1>2, <2>2 DEF Settled
  <2>4. \A m \in 1 .. request'[r].event - 1 : m \in acked'
        BY <1>2, <1>3
  <2> QED BY <2>1, <2>3, <2>4 DEF InOrder
<1> QED BY <1>5, <1>6, <1>7

(* The request in flight ends, whatever it did to the row of its event.     *)
LEMMA EndInOrder ==
    ASSUME Typed, OrderInv, NEW r \in Request, request[r] # Idle, End(r),
           NEW e \in Events, e = request[r].event,
           UNCHANGED <<log, emitted, row, orderly>>,
           \A n \in Events \ {e} : Settled(n)' <=> Settled(n),
           acked' \subseteq acked \cup {e},
           acked \subseteq acked',
           e \in acked' => Settled(e)',
           orderly /\ Settled(e)' /\ SpeaksOfStatus(e) => row.by = e
    PROVE  OrderInv'
<1> SUFFICES ASSUME orderly
             PROVE  /\ OneAtATime'
                    /\ AnsweredInOrder'
                    /\ \A q \in Request : request'[q] # Idle => InOrder(q)'
    BY DEF OrderInv
<1> USE DEF OrderInv
<1>1. e \in 1 .. emitted /\ e \in Events
      BY FlightEvent DEF Typed
<1>2. \A q \in Request : request'[q] = Idle
      BY DEF End, Typed, TypeOK, OneAtATime
<1>3. ~Settled(e) /\ \A m \in 1 .. e - 1 : m \in acked
      BY DEF InOrder
<1>4. acked \subseteq Events /\ \A n \in acked : Settled(n)
      BY Bounds DEF AnsweredInOrder, Typed, TypeOK, Events
<1>5. OneAtATime'
      BY <1>2 DEF OneAtATime
<1>6. AnsweredInOrder'
  <2>1. ASSUME NEW n \in Events, Settled(n)'
        PROVE  /\ \A m \in 1 .. n - 1 : m \in acked'
               /\ SpeaksOfStatus(n)' => n <= row'.by
    <3>1. SpeaksOfStatus(n)' <=> SpeaksOfStatus(n)
          BY DEF SpeaksOfStatus
    <3>2. CASE n = e
          BY <1>1, <1>3, <2>1, <3>1, <3>2 DEF Events
    <3>3. CASE n # e
      <4>1. Settled(n)
            BY <2>1, <3>3
      <4> QED BY <3>1, <4>1 DEF AnsweredInOrder
    <3> QED BY <3>2, <3>3
  <2>2. ASSUME NEW n \in acked'
        PROVE  Settled(n)'
    <3>1. CASE n = e
          BY <3>1
    <3>2. CASE n # e
          BY <1>4, <3>2
    <3> QED BY <3>1, <3>2
  <2> QED BY <2>1, <2>2 DEF AnsweredInOrder
<1>7. \A q \in Request : request'[q] # Idle => InOrder(q)'
      BY <1>2
<1> QED BY <1>5, <1>6, <1>7

(* The request in flight moves on and writes nothing of an event or the     *)
(* row: past the look-up of an invoice its event has written the row.       *)
LEMMA LookInOrder ==
    ASSUME Typed, OrderInv, orderly, NEW r \in Request, request[r] # Idle,
           NEW e \in Events, e = request[r].event,
           NEW s \in Steps \ {"find"}, MoveTo(r, s),
           UNCHANGED <<log, emitted, acked, orderly, events, row>>,
           s \in {"exponent", "transaction", "audit", "finish"}
             /\ SpeaksOfStatus(e) => row.by = e
    PROVE  OrderInv'
<1>1. request'[r].event = e /\ request'[r].at = s
      BY DEF MoveTo, Typed, TypeOK
<1>2. \A n \in Events : (Settled(n)' <=> Settled(n))
      BY DEF Settled
<1>3. WrittenBy(r)'
      BY <1>1 DEF WrittenBy, SpeaksOfStatus
<1> QED BY <1>2, <1>3, MoveInOrder

(* Each action of the handling keeps the order.                             *)
LEMMA HandleInOrder ==
    ASSUME Typed, NoLoss, OrderInv, orderly, NEW r \in Request, Handle(r)
    PROVE  OrderInv'
<1>1. request[r] # Idle
      BY DEF Handle, At, Claim, LinkCustomer, CompleteAttempt, FindCustomer,
         FindPrice, SyncSubscription, SetStatus, FindSubscription, FindExponent,
         RecordTransaction, Audit, Finish, Reject, Idle
<1>2. PICK e \in Events : e = request[r].event
      BY <1>1, FlightEvent DEF Typed
<1>3. ~Settled(e) /\ WrittenBy(r)
      BY <1>1, <1>2 DEF OrderInv, InOrder
<1>4. log[e].kind \in Kinds
      BY <1>2 DEF Typed, TypeOK, Content
<1>5. CASE Claim(r)
  <2>1. /\ UNCHANGED <<log, emitted, acked, orderly, row>>
        /\ events' = Claimed(e)
        BY <1>2, <1>5 DEF Claim, Outside, tables
  <2>2. PICK s \in {"link", "customer", "status", "finish"} :
               /\ MoveTo(r, s)
               /\ s = "finish" => ~SpeaksOfStatus(e)
        BY <1>2, <1>4, <1>5 DEF Claim, Kinds, SpeaksOfStatus
  <2>3. \A n \in Events : (Settled(n)' <=> Settled(n))
        BY <1>3, <2>1 DEF Settled, Claimed, Typed, TypeOK
  <2>4. request'[r].event = e /\ request'[r].at = s
        BY <1>2, <2>2 DEF MoveTo, Typed, TypeOK
  <2>5. WrittenBy(r)'
        BY <2>1, <2>2, <2>4 DEF WrittenBy, SpeaksOfStatus
  <2>6. s \in Steps
        BY DEF Steps
  <2> QED BY <1>1, <1>2, <2>1, <2>2, <2>3, <2>5, <2>6, MoveInOrder
<1>6. CASE LinkCustomer(r) \/ FindCustomer(r) \/ FindPrice(r)
  <2>1. PICK s \in {"attempt", "price", "sync", "fail"} : MoveTo(r, s)
        BY <1>6 DEF LinkCustomer, FindCustomer, FindPrice
  <2>2. UNCHANGED <<log, emitted, acked, orderly, events, row>>
        BY <1>6 DEF LinkCustomer, FindCustomer, FindPrice, Outside, tables
  <2>3. s \in Steps \ {"find"}
        BY DEF Steps
  <2> QED BY <1>1, <1>2, <2>1, <2>2, <2>3, LookInOrder
<1>7. CASE CompleteAttempt(r)
  <2>1. MoveTo(r, "audit")
        BY <1>7 DEF CompleteAttempt
  <2>2. UNCHANGED <<log, emitted, acked, orderly, events, row>>
        BY <1>7 DEF CompleteAttempt, Outside
  <2>3. ~SpeaksOfStatus(e)
        BY <1>2, <1>7 DEF CompleteAttempt, At, Typed, StepFits, SpeaksOfStatus
  <2>4. "audit" \in Steps \ {"find"}
        BY DEF Steps
  <2> QED BY <1>1, <1>2, <2>1, <2>2, <2>3, <2>4, LookInOrder
<1>8. CASE FindSubscription(r) \/ FindExponent(r) \/ RecordTransaction(r)
             \/ Audit(r)
  <2>1. PICK s \in {"exponent", "transaction", "audit", "finish", "fail"} :
               MoveTo(r, s)
        BY <1>8 DEF FindSubscription, FindExponent, RecordTransaction, Audit
  <2>2. UNCHANGED <<log, emitted, acked, orderly, events, row>>
        BY <1>8 DEF FindSubscription, FindExponent, RecordTransaction, Audit,
                    Outside, tables
  <2>3. s # "fail" /\ SpeaksOfStatus(e) => row.by = e
    <3>1. CASE FindSubscription(r)
      <4>1. s # "fail" => row.status # "none"
            BY <2>1, <3>1 DEF FindSubscription, MoveTo, Typed, TypeOK
      <4> QED BY <1>2, <1>3, <3>1, <4>1 DEF FindSubscription, At, WrittenBy
    <3>2. CASE FindExponent(r) \/ RecordTransaction(r) \/ Audit(r)
          BY <1>2, <1>3, <3>2 DEF FindExponent, RecordTransaction, Audit, At,
                                  WrittenBy
    <3> QED BY <1>8, <3>1, <3>2
  <2>4. s \in Steps \ {"find"}
        BY DEF Steps
  <2> QED BY <1>1, <1>2, <2>1, <2>2, <2>3, <2>4, LookInOrder
<1>9. CASE SyncSubscription(r) \/ SetStatus(r)
  <2>1. /\ UNCHANGED <<log, emitted, acked, orderly, events>>
        /\ \/ row'.by = e
           \/ SetStatus(r) /\ row' = row /\ row.status = "none"
    <3>1. CASE SyncSubscription(r)
          BY <1>2, <3>1 DEF SyncSubscription, Synced, Outside
    <3>2. CASE SetStatus(r)
      <4>1. CASE row.status = "none"
            BY <3>2, <4>1 DEF SetStatus, Outside
      <4>2. CASE row.status # "none"
        <5>1. row \in SubscriptionRow
              BY DEF Typed, TypeOK
        <5>2. row' = [row EXCEPT !.status = InvoiceStatus(e), !.by = e]
              BY <1>2, <3>2, <4>2 DEF SetStatus
        <5>3. row'.by = e
              BY <5>1, <5>2 DEF SubscriptionRow
        <5> QED BY <3>2, <5>3 DEF SetStatus, Outside
      <4> QED BY <4>1, <4>2
    <3> QED BY <1>9, <3>1, <3>2
  <2>2. PICK s \in {"audit", "find"} :
               MoveTo(r, s) /\ (SetStatus(r) => s = "find")
    <3>1. SyncSubscription(r) => MoveTo(r, "audit") /\ At(r, "sync")
          BY DEF SyncSubscription
    <3>2. SetStatus(r) => MoveTo(r, "find") /\ At(r, "status")
          BY DEF SetStatus
    <3> QED BY <1>9, <3>1, <3>2 DEF At
  <2>3. \A n \in Events : (Settled(n)' <=> Settled(n))
        BY <2>1 DEF Settled
  <2>4. request'[r].event = e /\ request'[r].at = s
        BY <1>2, <2>2 DEF MoveTo, Typed, TypeOK
  <2>5. WrittenBy(r)'
        BY <2>1, <2>2, <2>4 DEF WrittenBy, SpeaksOfStatus
  <2>6. s \in Steps
        BY DEF Steps
  <2>7. row'.by \in {row.by, e}
        BY <2>1
  <2> QED BY <1>1, <1>2, <2>1, <2>2, <2>3, <2>5, <2>6, <2>7, MoveInOrder
<1>10. CASE Finish(r)
  <2>1. /\ UNCHANGED <<log, emitted, row, orderly>> /\ End(r)
        /\ events' = Success(e) /\ Answer(e)
        BY <1>2, <1>10 DEF Finish, Outside, tables
  <2>2. events[e] # "none"
        BY <1>2, <1>10 DEF Finish, At, NoLoss, Progress, ProgressOf
  <2>3. /\ \A n \in Events \ {e} : events'[n] = events[n]
        /\ events'[e] \in {"ignored", "processed"}
        BY <2>1, <2>2 DEF Success, Marked, Typed, TypeOK
  <2>4. Settled(e)' /\ \A n \in Events \ {e} : (Settled(n)' <=> Settled(n))
        BY <2>3 DEF Settled
  <2>5. acked' \subseteq acked \cup {e} /\ acked \subseteq acked'
        BY <2>1 DEF Answer
  <2>6. SpeaksOfStatus(e) => row.by = e
        BY <1>2, <1>3, <1>10 DEF Finish, At, WrittenBy
  <2> QED BY <1>1, <1>2, <2>1, <2>4, <2>5, <2>6, EndInOrder
<1>11. CASE Reject(r)
  <2>1. /\ UNCHANGED <<log, emitted, row, orderly, acked>> /\ End(r)
        /\ events' = Failure(e)
        BY <1>2, <1>11 DEF Reject, Outside, tables
  <2>2. /\ \A n \in Events \ {e} : events'[n] = events[n]
        /\ events'[e] \in {"none", "failed"}
        BY <2>1 DEF Failure, Marked, Typed, TypeOK
  <2>3. ~(Settled(e)') /\ \A n \in Events \ {e} : (Settled(n)' <=> Settled(n))
        BY <2>2 DEF Settled
  <2>4. e \notin acked
        BY <1>3 DEF OrderInv, AnsweredInOrder
  <2> QED BY <1>1, <1>2, <2>1, <2>3, <2>4, EndInOrder
<1> QED BY <1>5, <1>6, <1>7, <1>8, <1>9, <1>10, <1>11 DEF Handle

(* A delivery in order keeps it: a duplicate is answered once more, another *)
(* becomes the only request.                                                *)
LEMMA DeliverInOrder ==
    ASSUME Typed, OrderInv, orderly', NEW r \in Request, NEW e \in Events,
           Deliver(r, e)
    PROVE  OrderInv'
<1>1. /\ orderly /\ InTurn(e)
      /\ UNCHANGED <<log, emitted, events, row>>
      BY DEF Deliver, tables
<1>2. OneAtATime /\ AnsweredInOrder
      BY <1>1 DEF OrderInv
<1>3. \A n \in Events : (Settled(n)' <=> Settled(n))
      BY <1>1 DEF Settled
<1>4. \A n \in Events : (SpeaksOfStatus(n)' <=> SpeaksOfStatus(n))
      BY <1>1 DEF SpeaksOfStatus
<1>5. acked \subseteq Events
      BY Bounds DEF Typed, TypeOK, Events
<1>6. ASSUME acked' = acked \/ (acked' = acked \cup {e} /\ Settled(e))
      PROVE  AnsweredInOrder'
  <2>1. \A n \in acked' : Settled(n)'
        BY <1>2, <1>3, <1>5, <1>6 DEF AnsweredInOrder
  <2>2. acked \subseteq acked'
        BY <1>6
  <2>3. ASSUME NEW n \in Events, Settled(n)'
        PROVE  /\ \A m \in 1 .. n - 1 : m \in acked'
               /\ SpeaksOfStatus(n)' => n <= row'.by
        BY <1>1, <1>2, <1>3, <1>4, <2>2, <2>3 DEF AnsweredInOrder
  <2> QED BY <2>1, <2>3 DEF AnsweredInOrder
<1>7. CASE Duplicate(e)
  <2>1. Settled(e) /\ Answer(e) /\ UNCHANGED request
        BY <1>7 DEF Deliver, Duplicate, Settled
  <2>2. AnsweredInOrder'
        BY <1>6, <2>1 DEF Answer
  <2>3. \A q \in Request : request'[q] = Idle
        BY <1>1, <2>1 DEF InTurn
  <2> QED BY <2>2, <2>3 DEF OrderInv, OneAtATime
<1>8. CASE ~Duplicate(e)
  <2>1. /\ request' = [request EXCEPT ![r] = [at |-> "claim", event |-> e]]
        /\ acked' = acked
        BY <1>8 DEF Deliver
  <2>2. /\ \A q \in Request \ {r} : request'[q] = Idle
        /\ request'[r].at = "claim" /\ request'[r].event = e
        BY <1>1, <2>1 DEF InTurn, Typed, TypeOK
  <2>3. ~(Settled(e)')
        BY <1>1, <1>8 DEF Settled, Duplicate
  <2>4. ~(Settled(request[r].event)')
        BY <2>2, <2>3 DEF Settled
  <2>5. \A m \in 1 .. request'[r].event - 1 : m \in acked'
        BY <1>1, <2>1, <2>2 DEF InTurn
  <2>6. WrittenBy(r)'
        BY <2>2 DEF WrittenBy
  <2>7. InOrder(r)'
        BY <2>4, <2>5, <2>6 DEF InOrder
  <2>8. AnsweredInOrder'
        BY <1>6, <2>1
  <2> QED BY <2>2, <2>7, <2>8 DEF OrderInv, OneAtATime
<1> QED BY <1>7, <1>8

(* Each action keeps the order.                                             *)
LEMMA OrderStep == Typed /\ NoLoss /\ OrderInv /\ [Next]_vars => OrderInv'
<1> SUFFICES ASSUME Typed, NoLoss, OrderInv, [Next]_vars, orderly'
             PROVE  OrderInv'
    BY DEF OrderInv
<1>1. ASSUME NEW r \in Request, NEW e \in Events, Deliver(r, e)
      PROVE  OrderInv'
      BY <1>1, DeliverInOrder
<1>2. ASSUME NEW r \in Request, Handle(r)
      PROVE  OrderInv'
  <2>1. UNCHANGED orderly
        BY <1>2 DEF Handle, Claim, LinkCustomer, CompleteAttempt, FindCustomer,
           FindPrice, SyncSubscription, SetStatus, FindSubscription,
           FindExponent, RecordTransaction, Audit, Finish, Reject, Outside
  <2> QED BY <1>2, <2>1, HandleInOrder
<1>3. ASSUME NEW r \in Request, StatementFails(r)
      PROVE  OrderInv'
  <2>1. /\ UNCHANGED <<log, emitted, acked, orderly, events, row>>
        /\ MoveTo(r, "fail") /\ request[r].at # "idle"
        BY <1>3 DEF StatementFails, Outside, tables
  <2>2. PICK e \in Events : e = request[r].event /\ request[r] # Idle
        BY <2>1, BusyEvent DEF Typed, Idle
  <2>3. "fail" \in Steps \ {"find"} /\ orderly
        BY <2>1 DEF Steps
  <2> QED BY <2>1, <2>2, <2>3, LookInOrder
<1>4. ASSUME NEW r \in Request, Stop(r)
      PROVE  OrderInv'
  <2>1. /\ UNCHANGED <<log, emitted, acked, orderly, events, row>>
        /\ End(r) /\ request[r] # Idle /\ orderly
        BY <1>4 DEF Stop, Outside, tables
  <2>2. PICK e \in Events : e = request[r].event
        BY <2>1, FlightEvent DEF Typed
  <2>3. ~Settled(e) /\ e \notin acked
        BY <2>1, <2>2 DEF OrderInv, InOrder, AnsweredInOrder
  <2>4. \A n \in Events : (Settled(n)' <=> Settled(n))
        BY <2>1 DEF Settled
  <2> QED BY <2>1, <2>2, <2>3, <2>4, EndInOrder
<1>5. CASE Emit
  <2>1. /\ UNCHANGED <<acked, events, row, request, orderly>>
        /\ orderly /\ emitted' = emitted + 1
        BY <1>5 DEF Emit, tables
  <2>2. LogKept
        BY LogStays
  <2>3. \A n \in Events : (Settled(n)' <=> Settled(n))
        BY <2>1 DEF Settled
  <2>4. \A n \in 1 .. emitted : (SpeaksOfStatus(n)' <=> SpeaksOfStatus(n))
        BY <2>2 DEF LogKept, SpeaksOfStatus
  <2>5. \A n \in Events : Settled(n) => n \in 1 .. emitted
        BY Bounds DEF NoLoss, Records, Settled, Events, Typed, TypeOK
  <2>6. AnsweredInOrder'
        BY <2>1, <2>3, <2>4, <2>5, Bounds
           DEF OrderInv, AnsweredInOrder, Typed, TypeOK, Events
  <2>7. ASSUME NEW q \in Request, request'[q] # Idle
        PROVE  InOrder(q)'
    <3>1. InOrder(q) /\ request'[q] = request[q] /\ request[q] # Idle
          BY <2>1, <2>7 DEF OrderInv
    <3>2. PICK e \in Events : e = request[q].event /\ e \in 1 .. emitted
          BY <3>1, FlightEvent DEF Typed
    <3>3. ~(Settled(e)') /\ \A m \in 1 .. e - 1 : m \in acked'
          BY <2>1, <2>3, <3>1, <3>2 DEF InOrder
    <3>4. WrittenBy(q)'
          BY <2>1, <2>4, <3>1, <3>2 DEF InOrder, WrittenBy, SpeaksOfStatus
    <3>5. ~(Settled(request[q].event)')
          BY <3>1, <3>2, <3>3 DEF Settled
    <3> QED BY <3>1, <3>2, <3>3, <3>4, <3>5 DEF InOrder
  <2>8. OneAtATime'
        BY <2>1 DEF OrderInv, OneAtATime
  <2> QED BY <2>6, <2>7, <2>8 DEF OrderInv
<1>6. CASE (\E p \in Price : CreatePlanPrice(p)) \/ UNCHANGED vars
  <2>1. UNCHANGED <<log, emitted, acked, events, row, request, orderly>>
        BY <1>6 DEF CreatePlanPrice, vars, tables
  <2> QED BY <2>1 DEF OrderInv, OneAtATime, AnsweredInOrder, InOrder,
                      WrittenBy, Settled, SpeaksOfStatus
<1> QED BY <1>1, <1>2, <1>3, <1>4, <1>5, <1>6 DEF Next

(* Orderly deliveries leave the subscription with the status of the last    *)
(* event that speaks of one, through every failure and every retry.         *)
THEOREM StatusFollowsLog == Spec => []FollowsLog
<1>1. Init => OrderInv /\ SpokenBy
      BY DEF Init, OrderInv, OneAtATime, AnsweredInOrder, Settled, SpokenBy
<1>2. Typed /\ NoLoss /\ OrderInv /\ SpokenBy /\ [Next]_vars
        => OrderInv' /\ SpokenBy'
      BY OrderStep, SpokenStep
<1>3. Typed /\ NoLoss /\ OrderInv /\ SpokenBy => FollowsLog
  <2> SUFFICES ASSUME Typed, NoLoss, OrderInv, SpokenBy, orderly,
                      NEW n \in acked, SpeaksOfStatus(n),
                      \A k \in n + 1 .. emitted : ~SpeaksOfStatus(k)
               PROVE  row.by = n
      BY DEF FollowsLog
  <2>1. n \in Events /\ n \in 1 .. emitted /\ emitted \in Nat
        BY Bounds DEF Typed, TypeOK, Events
  <2>2. n <= row.by
        BY <2>1 DEF OrderInv, AnsweredInOrder
  <2>3. row.by \in Nat
        BY Bounds DEF Typed, TypeOK, SubscriptionRow
  <2>4. row.by \in 1 .. emitted /\ SpeaksOfStatus(row.by)
        BY <2>1, <2>2, <2>3 DEF SpokenBy
  <2> QED BY <2>1, <2>2, <2>4
<1> QED BY <1>1, <1>2, <1>3, TypedInit, TypedStep, NoLossInit, NoLossStep, PTL
           DEF Spec

-----------------------------------------------------------------------------
(* The tables implement the inbox.                                          *)

(* The mapped variables, named.                                             *)
AbsHandling == [r \in Request |-> request[r].event]
AbsKnown == {e \in Events : events[e] # "none"}
AbsSettled == {e \in Events : Settled(e)}
AbsLeft == {e \in 1 .. emitted : Applied(e)}

(* Where a request is does not show, only its event.                        *)
LEMMA HandlingMoves ==
    ASSUME Typed, NEW r \in Request, NEW step, MoveTo(r, step)
    PROVE  AbsHandling' = AbsHandling
BY DEF AbsHandling, Typed, TypeOK, MoveTo

LEMMA HandlingEnds ==
    ASSUME Typed, NEW r \in Request, End(r)
    PROVE  AbsHandling' = [AbsHandling EXCEPT ![r] = 0]
BY DEF AbsHandling, Typed, TypeOK, End, Idle

(* The event table alone makes what is known and settled.                   *)
LEMMA EventsStand ==
    ASSUME UNCHANGED events
    PROVE  AbsKnown' = AbsKnown /\ AbsSettled' = AbsSettled
BY DEF AbsKnown, AbsSettled, Settled

LEMMA LeftStands ==
    ASSUME UNCHANGED <<log, emitted, linked, attempt, row, payments>>
    PROVE  AbsLeft' = AbsLeft
BY DEF AbsLeft, Applied

LEMMA LeftGrows ==
    ASSUME Typed, LogKept, RowsKept, emitted' \in Nat
    PROVE  AbsLeft \subseteq AbsLeft'
<1>1. ASSUME NEW e \in 1 .. emitted, Applied(e)
      PROVE  e \in 1 .. emitted' /\ Applied(e)'
  <2>1. Applied(e)'
        BY <1>1, AppliedStays
  <2> QED BY <2>1 DEF LogKept, Typed, TypeOK
<1> QED BY <1>1 DEF AbsLeft

(* A step that shows nothing.                                               *)
LEMMA QuietInbox ==
    ASSUME UNCHANGED <<log, emitted, events, linked, attempt, row, payments,
                       trail, acked>>,
           AbsHandling' = AbsHandling
    PROVE  UNCHANGED Inbox!vars
BY EventsStand, LeftStands
   DEF Inbox!vars, AbsHandling, AbsKnown, AbsSettled, AbsLeft

LEMMA EmitInbox ==
    ASSUME Typed, LogKept, RowsKept, Emit
    PROVE  Inbox!Happen
<1>1. /\ emitted < MaxEvents /\ emitted' = emitted + 1 /\ emitted \in Nat
      /\ UNCHANGED <<events, linked, attempt, row, payments, trail, acked,
                     request>>
      BY DEF Emit, tables, Typed, TypeOK
<1>2. \A e \in 1 .. emitted : log'[e] = log[e]
      BY DEF LogKept
<1>3. AbsLeft \subseteq AbsLeft' /\ AbsLeft' \subseteq AbsLeft \cup {emitted'}
  <2>1. ASSUME NEW e \in 1 .. emitted, Applied(e)'
        PROVE  Applied(e)
        BY <1>1, <1>2, <2>1 DEF Applied
  <2> QED BY <1>1, <2>1, LeftGrows DEF AbsLeft
<1>4. AbsKnown' = AbsKnown /\ AbsSettled' = AbsSettled
      BY <1>1, EventsStand
<1>5. AbsHandling' = AbsHandling
      BY <1>1 DEF AbsHandling
<1> QED BY <1>1, <1>2, <1>3, <1>4, <1>5 DEF Inbox!Happen, AbsHandling,
           AbsKnown, AbsSettled, AbsLeft

(* A delivery is answered again, or unanswered, or taken up.                *)
LEMMA DeliverInbox ==
    ASSUME Typed, NEW r \in Request, NEW e \in Events, Deliver(r, e)
    PROVE  Inbox!Next \/ UNCHANGED Inbox!vars
<1>1. /\ request[r] = Idle /\ e <= emitted
      /\ UNCHANGED <<log, emitted, events, linked, attempt, row, payments,
                     trail>>
      BY DEF Deliver, tables
<1>2. /\ AbsKnown' = AbsKnown /\ AbsSettled' = AbsSettled
      /\ AbsLeft' = AbsLeft
      BY <1>1, EventsStand, LeftStands
<1>3. e \in Inbox!Event
      BY DEF Inbox!Event, Events
<1>4. CASE Duplicate(e)
  <2>1. /\ request' = request
        /\ acked' = acked \/ acked' = acked \cup {e}
        BY <1>4 DEF Deliver, Answer
  <2>2. AbsHandling' = AbsHandling
        BY <2>1 DEF AbsHandling
  <2>3. CASE acked' = acked
        BY <1>1, <2>2, <2>3, QuietInbox
  <2>4. CASE acked' = acked \cup {e}
    <3>1. e \in AbsSettled
          BY <1>4 DEF AbsSettled, Settled, Duplicate
    <3>2. Inbox!AnswerAgain(e)
          BY <1>1, <1>2, <2>2, <2>4, <3>1 DEF Inbox!AnswerAgain, AbsHandling,
             AbsKnown, AbsSettled, AbsLeft
    <3> QED BY <1>3, <3>2 DEF Inbox!Next
  <2> QED BY <2>1, <2>3, <2>4
<1>5. CASE ~Duplicate(e)
  <2>1. /\ request' = [request EXCEPT ![r] = [at |-> "claim", event |-> e]]
        /\ acked' = acked
        BY <1>5 DEF Deliver
  <2>2. AbsHandling[r] = 0 /\ AbsHandling' = [AbsHandling EXCEPT ![r] = e]
    <3>1. AbsHandling[r] = 0
          BY <1>1 DEF AbsHandling, Idle
    <3>2. AbsHandling' = [AbsHandling EXCEPT ![r] = e]
          BY <2>1 DEF AbsHandling, Typed, TypeOK
    <3> QED BY <3>1, <3>2
  <2>3. e \notin AbsSettled
        BY <1>5 DEF AbsSettled, Settled, Duplicate
  <2>4. Inbox!Take(r, e)
        BY <1>1, <1>2, <2>1, <2>2, <2>3 DEF Inbox!Take, AbsHandling, AbsKnown,
           AbsSettled, AbsLeft
  <2> QED BY <1>3, <2>4 DEF Inbox!Next
<1> QED BY <1>4, <1>5

LEMMA ClaimInbox ==
    ASSUME Typed, NEW r \in Request, Claim(r)
    PROVE  Inbox!TakeIn(r)
<1>0. PICK e : e = request[r].event
      OBVIOUS
<1>1. e \in Events /\ e # 0 /\ request[r].at = "claim"
      BY <1>0, BusyEvent DEF Claim, At, Typed, Events
<1>2. /\ events' = [events EXCEPT ![e] = "processing"]
      /\ UNCHANGED <<log, emitted, linked, attempt, row, payments, trail, acked>>
      BY <1>0 DEF Claim, Claimed, Outside, tables
<1>3. AbsHandling' = AbsHandling /\ AbsHandling[r] = e
  <2>1. \E step : MoveTo(r, step)
        BY DEF Claim
  <2> QED BY <1>0, <2>1, HandlingMoves DEF AbsHandling
<1>4. AbsKnown' = AbsKnown \cup {e} /\ AbsSettled' = AbsSettled \ {e}
      BY <1>1, <1>2 DEF AbsKnown, AbsSettled, Settled, Typed, TypeOK
<1>5. AbsLeft' = AbsLeft
      BY <1>2, LeftStands
<1> QED BY <1>1, <1>2, <1>3, <1>4, <1>5 DEF Inbox!TakeIn, AbsHandling,
           AbsKnown, AbsSettled, AbsLeft

(* What the statements write to the subscription is the event's word.       *)
LEMMA ToldBySync ==
    ASSUME Typed, NEW r \in Request, SyncSubscription(r)
    PROVE  row' = Inbox!Told(request[r].event)
<1>1. log[request[r].event].kind = "subscription"
      BY DEF SyncSubscription, At, Typed, StepFits
<1> QED BY <1>1 DEF SyncSubscription, Synced, Inbox!Told

LEMMA ToldByInvoice ==
    ASSUME Typed, NEW r \in Request, SetStatus(r)
    PROVE  row' = row \/ row' = Inbox!Told(request[r].event)
<1> DEFINE e == request[r].event
<1>1. log[e].kind \in {"paid", "failed"}
      BY DEF SetStatus, At, Typed, StepFits
<1>2. CASE row.status = "none"
      BY <1>2 DEF SetStatus
<1>3. CASE row.status # "none"
  <2>1. row' = [row EXCEPT !.status = InvoiceStatus(e), !.by = e]
        BY <1>3 DEF SetStatus
  <2> QED BY <1>1, <1>3, <2>1 DEF InvoiceStatus, Inbox!Told
<1> QED BY <1>2, <1>3

LEMMA ApplyInbox ==
    ASSUME Typed, NoLoss, LogKept, RowsKept, NEW r \in Request,
           \/ LinkCustomer(r) \/ CompleteAttempt(r) \/ SyncSubscription(r)
           \/ SetStatus(r) \/ RecordTransaction(r)
    PROVE  Inbox!Apply(r)
<1>0. PICK e : e = request[r].event
      OBVIOUS
<1>1. /\ request[r].at \notin {"idle", "claim"}
      /\ UNCHANGED <<log, emitted, events, trail, acked>>
      /\ \E step : MoveTo(r, step)
      BY DEF LinkCustomer, CompleteAttempt, SyncSubscription, SetStatus,
         RecordTransaction, At, Outside
<1>2. AbsHandling[r] = e /\ AbsHandling' = AbsHandling
      BY <1>0, <1>1, HandlingMoves DEF AbsHandling
<1>3. e \in AbsKnown
      BY <1>0, <1>1, BusyEvent
         DEF Typed, NoLoss, Progress, ProgressOf, AbsKnown
<1>4. row' \in {row, Inbox!Told(e)}
  <2>1. LinkCustomer(r) \/ CompleteAttempt(r) \/ RecordTransaction(r)
          => row' = row
        BY DEF LinkCustomer, CompleteAttempt, RecordTransaction
  <2> QED BY <1>0, <2>1, ToldBySync, ToldByInvoice
<1>5. /\ AbsKnown' = AbsKnown /\ AbsSettled' = AbsSettled
      /\ AbsLeft \subseteq AbsLeft'
      BY <1>1, EventsStand, LeftGrows DEF Typed, TypeOK
<1> QED BY <1>1, <1>2, <1>3, <1>4, <1>5 DEF Inbox!Apply, AbsHandling,
           AbsKnown, AbsSettled, AbsLeft

LEMMA AuditInbox ==
    ASSUME Typed, NoLoss, NEW r \in Request, Audit(r)
    PROVE  Inbox!Report(r)
<1>0. PICK e : e = request[r].event
      OBVIOUS
<1>1. /\ request[r].at = "audit"
      /\ trail' = trail \cup {e}
      /\ UNCHANGED <<log, emitted, events, linked, attempt, row, payments, acked>>
      BY <1>0 DEF Audit, At, Outside
<1>2. AbsHandling[r] = e /\ AbsHandling' = AbsHandling
  <2>1. MoveTo(r, "finish")
        BY DEF Audit
  <2> QED BY <1>0, <2>1, HandlingMoves DEF AbsHandling
<1>3. e \in AbsLeft
  <2>1. Applied(request[r].event) /\ request[r].event \in 1 .. emitted
        BY <1>1, BusyEvent DEF Typed, NoLoss, Progress, ProgressOf
  <2>2. Applied(e) <=> Applied(request[r].event)
        BY <1>0
  <2> QED BY <1>0, <2>1, <2>2 DEF AbsLeft
<1>4. /\ AbsKnown' = AbsKnown /\ AbsSettled' = AbsSettled
      /\ AbsLeft' = AbsLeft
      BY <1>1, EventsStand, LeftStands
<1> QED BY <1>1, <1>2, <1>3, <1>4 DEF Inbox!Report, AbsHandling, AbsKnown,
           AbsSettled, AbsLeft

LEMMA FinishInbox ==
    ASSUME Typed, NoLoss, NEW r \in Request, Finish(r)
    PROVE  Inbox!Settle(r)
<1>0. PICK e : e = request[r].event
      OBVIOUS
<1>1. /\ request[r].at = "finish"
      /\ events' = Success(e)
      /\ acked' \in {acked, acked \cup {e}}
      /\ UNCHANGED <<log, emitted, linked, attempt, row, payments, trail>>
      BY <1>0 DEF Finish, At, Answer, Outside, tables
<1>2. /\ e \in Events /\ events[e] # "none"
      /\ e \in trail \/ log[e].kind = "other"
      BY <1>0, <1>1, BusyEvent DEF Typed, NoLoss, Progress, ProgressOf
<1>3. AbsHandling[r] = e /\ AbsHandling' = [AbsHandling EXCEPT ![r] = 0]
  <2>1. End(r)
        BY DEF Finish
  <2> QED BY <1>0, <2>1, HandlingEnds DEF AbsHandling
<1>4. \E s \in {"ignored", "processed"} : events' = [events EXCEPT ![e] = s]
  <2>1. \E s \in {"ignored", "processed"} : events' = Marked(e, s)
        BY <1>1 DEF Success
  <2> QED BY <1>2, <2>1 DEF Marked
<1>5. AbsKnown' = AbsKnown /\ AbsSettled' = AbsSettled \cup {e}
      BY <1>2, <1>4 DEF AbsKnown, AbsSettled, Settled, Typed, TypeOK
<1>6. e \in AbsKnown /\ AbsLeft' = AbsLeft
      BY <1>1, <1>2, LeftStands DEF AbsKnown
<1> QED BY <1>1, <1>2, <1>3, <1>5, <1>6 DEF Inbox!Settle, AbsHandling,
           AbsKnown, AbsSettled, AbsLeft

(* A failure reported or not ends the handling, and may unsettle the event. *)
LEMMA GiveUpInbox ==
    ASSUME Typed, NEW r \in Request, Reject(r) \/ Stop(r)
    PROVE  Inbox!GiveUp(r)
<1>0. PICK e : e = request[r].event
      OBVIOUS
<1>1. /\ request[r] # Idle
      /\ events' = events \/ events' = Failure(e)
      /\ UNCHANGED <<log, emitted, linked, attempt, row, payments, trail, acked>>
      BY <1>0 DEF Reject, Stop, At, Outside, tables, Idle
<1>2. e \in Events /\ e # 0
      BY <1>0, <1>1, Bounds DEF Typed, TypeOK, Events
<1>3. AbsHandling[r] = e /\ AbsHandling' = [AbsHandling EXCEPT ![r] = 0]
  <2>1. End(r)
        BY DEF Reject, Stop
  <2> QED BY <1>0, <2>1, HandlingEnds DEF AbsHandling
<1>4. AbsKnown' = AbsKnown /\ AbsSettled' \in {AbsSettled, AbsSettled \ {e}}
  <2>1. CASE events' = events
        BY <2>1, EventsStand
  <2>2. CASE events' = [events EXCEPT ![e] = "failed"] /\ events[e] # "none"
        BY <1>2, <2>2 DEF AbsKnown, AbsSettled, Settled, Typed, TypeOK
  <2>3. CASE events' = Failure(e)
    <3>1. CASE events[e] = "none"
          BY <1>2, <2>1, <2>3, <3>1 DEF Failure, Marked, Typed, TypeOK
    <3>2. CASE events[e] # "none"
          BY <1>2, <2>2, <2>3, <3>2 DEF Failure, Marked
    <3> QED BY <3>1, <3>2
  <2> QED BY <1>1, <2>1, <2>3
<1>5. AbsLeft' = AbsLeft
      BY <1>1, LeftStands
<1> QED BY <1>1, <1>2, <1>3, <1>4, <1>5 DEF Inbox!GiveUp, AbsHandling,
           AbsKnown, AbsSettled, AbsLeft

(* Every step is one of the inbox or leaves it alone.                       *)
LEMMA InboxStep == Typed /\ NoLoss /\ [Next]_vars => [Inbox!Next]_(Inbox!vars)
<1> SUFFICES ASSUME Typed, NoLoss, [Next]_vars
             PROVE  Inbox!Next \/ UNCHANGED Inbox!vars
    OBVIOUS
<1>0. LogKept /\ RowsKept
      BY LogStays, RowsStay
<1>1. CASE Emit
      BY <1>0, <1>1, EmitInbox DEF Inbox!Next
<1>2. CASE (\E p \in Price : CreatePlanPrice(p)) \/ UNCHANGED vars
  <2>1. UNCHANGED <<log, emitted, events, tables, acked, request>>
        BY <1>2 DEF CreatePlanPrice, vars, tables
  <2> QED BY <2>1, QuietInbox DEF tables, AbsHandling
<1>3. ASSUME NEW r \in Request, NEW e \in Events, Deliver(r, e)
      PROVE  Inbox!Next \/ UNCHANGED Inbox!vars
      BY <1>3, DeliverInbox
<1>4. ASSUME NEW r \in Request, Claim(r)
      PROVE  Inbox!Next
      BY <1>4, ClaimInbox DEF Inbox!Next
<1>5. ASSUME NEW r \in Request,
             \/ LinkCustomer(r) \/ CompleteAttempt(r) \/ SyncSubscription(r)
             \/ SetStatus(r) \/ RecordTransaction(r)
      PROVE  Inbox!Next
      BY <1>0, <1>5, ApplyInbox DEF Inbox!Next
<1>6. ASSUME NEW r \in Request,
             \/ FindCustomer(r) \/ FindPrice(r) \/ FindSubscription(r)
             \/ FindExponent(r) \/ StatementFails(r)
      PROVE  UNCHANGED Inbox!vars
  <2>1. /\ UNCHANGED <<log, emitted, events, tables, acked>>
        /\ \E step : MoveTo(r, step)
        BY <1>6 DEF FindCustomer, FindPrice, FindSubscription, FindExponent,
           StatementFails, Outside
  <2> QED BY <2>1, HandlingMoves, QuietInbox DEF tables
<1>7. ASSUME NEW r \in Request, Audit(r)
      PROVE  Inbox!Next
      BY <1>7, AuditInbox DEF Inbox!Next
<1>8. ASSUME NEW r \in Request, Finish(r)
      PROVE  Inbox!Next
      BY <1>8, FinishInbox DEF Inbox!Next
<1>9. ASSUME NEW r \in Request, Reject(r) \/ Stop(r)
      PROVE  Inbox!Next
      BY <1>9, GiveUpInbox DEF Inbox!Next
<1> QED BY <1>1, <1>2, <1>3, <1>4, <1>5, <1>6, <1>7, <1>8, <1>9
        DEF Next, Handle

LEMMA InboxInit == Init => Inbox!Init
<1> SUFFICES ASSUME Init
             PROVE  Inbox!Init
    OBVIOUS
<1>1. AbsHandling = [r \in Request |-> 0]
      BY DEF Init, AbsHandling, Idle
<1>2. AbsKnown = {} /\ AbsSettled = {} /\ AbsLeft = {}
      BY DEF Init, AbsKnown, AbsSettled, AbsLeft, Settled
<1> QED BY <1>1, <1>2 DEF Init, Inbox!Init, AbsHandling, AbsKnown, AbsSettled,
           AbsLeft

(* The webhook implements the inbox, for any number of deliveries at a      *)
(* time, of events and of failures.                                         *)
THEOREM Implementation == Spec => ImplementsInbox
BY InboxInit, InboxStep, TypedInit, TypedStep, NoLossInit, NoLossStep, PTL
   DEF Spec, ImplementsInbox, Inbox!Spec

=============================================================================
