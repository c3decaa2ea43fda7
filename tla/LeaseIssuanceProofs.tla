------------------------ MODULE LeaseIssuanceProofs ------------------------
(***************************************************************************)
(* Safety of lease issuance, for any number of accounts, codes,            *)
(* deployments, installations and concurrent requests, and any bound on    *)
(* the sequence numbers.                                                   *)
(***************************************************************************)
EXTENDS LeaseIssuance, TLAPS

USE SequenceBound, NoneIsNoValue

-----------------------------------------------------------------------------
(* The inductive invariant.                                                 *)

(* An active installation has an account.                                   *)
RowsComplete ==
    \A i \in Installation :
        installations[i].status = "active" => installations[i].account \in Account

(* What a request must hold by the time it reaches a statement.             *)
Holding(state) ==
    /\ state.at = "auditCode" => state.code \in Code
    /\ state.at \in {"insert", "entitlement"} => state.account \in Account
    /\ state.at \notin {"idle", "auditCode", "insert"}
          => state.installation \in Installation
    /\ state.at \in {"commit", "auditLease", "auditActivation"}
          => state.sequence \in Sequences

RequestsComplete == \A r \in Request : Holding(request[r])

Complete == TypeOK /\ RowsComplete /\ RequestsComplete

(* A request works on a row that exists: no row is ever deleted.            *)
RegisteredFirst ==
    \A r \in Request :
        request[r].at \notin {"idle", "auditCode", "insert"}
           => installations[request[r].installation].status # "none"

IInv ==
    /\ Complete
    /\ RegisteredFirst
    /\ SequenceHasOneOwner
    /\ ActiveLeaseIsCurrent

-----------------------------------------------------------------------------
(* Type correctness.                                                        *)

(* The initial state has all its parts.                                     *)
LEMMA InitComplete == Init => Complete
  BY DEF Init, Complete, TypeOK, RowsComplete, RequestsComplete, Holding,
     CodeRow, CodeStatus, InstallationRow, NoRow, RequestState, Idle,
     Sequences, LeaseStatus, Entitlement, AuditEvent

(* A request at rest is a request, and holds no number.                     *)
LEMMA IdleType == Idle \in RequestState /\ Holding(Idle)
  BY DEF Idle, RequestState, Entitlement, Holding

(* The row of an installation not yet there is a row.                       *)
LEMMA NoRowType == NoRow \in InstallationRow
  BY DEF NoRow, InstallationRow

(* A request that moves on changes no other request.                        *)
LEMMA ContinueEffect ==
  ASSUME request \in [Request -> RequestState], RequestsComplete,
         NEW r \in Request, NEW state \in RequestState, Holding(state),
         Continue(r, state)
  PROVE  /\ request' \in [Request -> RequestState]
         /\ RequestsComplete'
         /\ request'[r] = state
         /\ \A q \in Request \ {r} : request'[q] = request[q]
<1>1. /\ request' \in [Request -> RequestState]
      /\ request'[r] = state
      /\ \A q \in Request \ {r} : request'[q] = request[q]
  BY DEF Continue
<1>2. \A q \in Request : Holding(request'[q])
  BY <1>1 DEF RequestsComplete
<1>3. QED
  BY <1>1, <1>2 DEF RequestsComplete, Holding

(* A request that ends is at rest; the others are as before.                *)
LEMMA EndEffect ==
  ASSUME request \in [Request -> RequestState], RequestsComplete,
         NEW r \in Request, End(r)
  PROVE  /\ request' \in [Request -> RequestState]
         /\ RequestsComplete'
         /\ request'[r] = Idle
         /\ \A q \in Request \ {r} : request'[q] = request[q]
  BY ContinueEffect, IdleType DEF End

(* An action that moves a request and writes no table but audit_events.     *)
Unwritten == UNCHANGED <<codes, created, known, installations, leases,
                         entitlement>>

(* A step that writes no table but the trail keeps the parts.               *)
LEMMA RequestMoves ==
  ASSUME Complete, Unwritten,
         request' \in [Request -> RequestState], RequestsComplete',
         trail' \subseteq AuditEvent, credentials' \subseteq Installation,
         served' \subseteq Installation \X Sequences
  PROVE  Complete'
  BY DEF Complete, TypeOK, RowsComplete, Unwritten

(* A row of installations replaced by another row with its account.         *)
LEMMA RowMoves ==
  ASSUME TypeOK, RowsComplete, NEW i \in Installation,
         NEW row \in InstallationRow,
         row.status = "active" => row.account \in Account,
         installations' = [installations EXCEPT ![i] = row]
  PROVE  /\ installations' \in [Installation -> InstallationRow]
         /\ RowsComplete'
         /\ installations'[i] = row
         /\ \A j \in Installation \ {i} : installations'[j] = installations[j]
<1>1. /\ installations' \in [Installation -> InstallationRow]
      /\ installations'[i] = row
      /\ \A j \in Installation \ {i} : installations'[j] = installations[j]
  BY DEF TypeOK
<1>2. \A j \in Installation : installations'[j].status = "active"
                                 => installations'[j].account \in Account
  BY <1>1 DEF RowsComplete
<1>3. QED
  BY <1>1, <1>2 DEF RowsComplete

(* Every step keeps the parts.                                              *)
LEMMA NextComplete == Complete /\ [Next]_vars => Complete'
<1> SUFFICES ASSUME Complete, [Next]_vars
             PROVE  Complete'
  OBVIOUS
<1> USE DEF Complete
<1>0. /\ request \in [Request -> RequestState]
      /\ installations \in [Installation -> InstallationRow]
      /\ \A r \in Request : request[r] \in RequestState
      /\ \A r \in Request : Holding(request[r])
      /\ \A i \in Installation : installations[i] \in InstallationRow
  BY DEF TypeOK, RequestsComplete
<1>1. ASSUME NEW r \in Request, NEW c \in Code, NEW d \in Deployment,
             ConsumeCode(r, c, d)
      PROVE  Complete'
  <2> DEFINE state == [Idle EXCEPT !.at = "insert", !.op = "activate",
                                   !.account = codes[c].account,
                                   !.deployment = d]
  <2>1. codes[c].account \in Account
    BY DEF TypeOK, CodeRow
  <2>2. state \in RequestState /\ Holding(state)
    BY <2>1, IdleType DEF RequestState, Holding
  <2>3. Continue(r, state)
    BY <1>1 DEF ConsumeCode
  <2> HIDE DEF state
  <2>4. request' \in [Request -> RequestState] /\ RequestsComplete'
    BY <1>0, <2>2, <2>3, ContinueEffect
  <2>5. codes' \in [Code -> CodeRow]
    BY <1>1 DEF ConsumeCode, TypeOK, CodeRow, CodeStatus
  <2>6. QED
    BY <1>1, <2>4, <2>5 DEF ConsumeCode, TypeOK, RowsComplete
<1>2. ASSUME NEW r \in Request, InsertInstallation(r)
      PROVE  Complete'
  <2>1. PICK i \in Installation :
          /\ installations[i] = NoRow
          /\ installations' = [installations EXCEPT ![i] =
                 [NoRow EXCEPT !.status = "active",
                               !.account = request[r].account,
                               !.deployment = request[r].deployment]]
          /\ Continue(r, [request[r] EXCEPT !.at = "entitlement",
                                            !.installation = i])
    BY <1>2 DEF InsertInstallation
  <2> DEFINE row == [NoRow EXCEPT !.status = "active",
                                  !.account = request[r].account,
                                  !.deployment = request[r].deployment]
             state == [request[r] EXCEPT !.at = "entitlement",
                                         !.installation = i]
  <2>2. request[r].account \in Account
    BY <1>2, <1>0 DEF InsertInstallation, Holding
  <2>3. row \in InstallationRow /\ row.account \in Account
    BY <1>0, <2>2, NoRowType DEF InstallationRow, RequestState
  <2>4. state \in RequestState /\ Holding(state)
    BY <1>0, <2>2 DEF RequestState, Holding
  <2>5. installations' = [installations EXCEPT ![i] = row]
        /\ Continue(r, state)
    BY <2>1
  <2> HIDE DEF row, state
  <2>6. /\ installations' \in [Installation -> InstallationRow]
        /\ RowsComplete'
    BY <2>3, <2>5, RowMoves
  <2>7. request' \in [Request -> RequestState] /\ RequestsComplete'
    BY <1>0, <2>4, <2>5, ContinueEffect
  <2>8. QED
    BY <1>2, <2>6, <2>7 DEF InsertInstallation, TypeOK
<1>3. ASSUME NEW r \in Request,
             RejectInstallation(r) \/ RefuseInactive(r) \/ Fail(r)
      PROVE  Complete'
  <2>1. End(r) /\ Unwritten /\ UNCHANGED <<trail, credentials, served>>
    BY <1>3 DEF RejectInstallation, RefuseInactive, Fail, Unwritten
  <2>2. request' \in [Request -> RequestState] /\ RequestsComplete'
    BY <1>0, <2>1, EndEffect
  <2>3. QED
    BY <2>1, <2>2, RequestMoves DEF TypeOK
<1>4. ASSUME NEW r \in Request, NEW i \in Installation,
             NEW op \in {"renew", "download"}, LoadInstallation(r, i, op)
      PROVE  Complete'
  <2> DEFINE state == [Idle EXCEPT !.at = "entitlement", !.op = op,
                                   !.account = installations[i].account,
                                   !.installation = i]
  <2>1. installations[i].account \in Account
    BY <1>4 DEF LoadInstallation, RowsComplete
  <2>2. state \in RequestState /\ Holding(state)
    BY <2>1, IdleType DEF RequestState, Holding
  <2>3. Continue(r, state)
    BY <1>4 DEF LoadInstallation
  <2> HIDE DEF state
  <2>4. request' \in [Request -> RequestState] /\ RequestsComplete'
    BY <1>0, <2>2, <2>3, ContinueEffect
  <2>5. QED
    BY <1>4, <2>4, RequestMoves DEF LoadInstallation, Unwritten, TypeOK
<1>5. ASSUME NEW r \in Request, ReadEntitlement(r)
      PROVE  Complete'
  <2> DEFINE found == entitlement[request[r].account]
             state == [request[r] EXCEPT !.at = "allocate", !.seen = found]
  <2>1. found \in Entitlement /\ request[r].installation \in Installation
    BY <1>0, <1>5 DEF ReadEntitlement, Holding, TypeOK
  <2>2. state \in RequestState /\ Holding(state)
    BY <1>0, <2>1 DEF RequestState, Holding
  <2>3. End(r) \/ Continue(r, state)
    BY <1>5 DEF ReadEntitlement
  <2> HIDE DEF state
  <2>4. request' \in [Request -> RequestState] /\ RequestsComplete'
    BY <1>0, <2>2, <2>3, ContinueEffect, EndEffect
  <2>5. QED
    BY <1>5, <2>4, RequestMoves DEF ReadEntitlement, Unwritten, TypeOK
<1>6. ASSUME NEW r \in Request, AllocateSequence(r)
      PROVE  Complete'
  <2> DEFINE i == request[r].installation
             row == [installations[i] EXCEPT !.last = @ + 1]
             state == [request[r] EXCEPT
                         !.at = "commit",
                         !.sequence = installations[i].last + 1]
  <2>1. i \in Installation
    BY <1>0, <1>6 DEF AllocateSequence, Holding
  <2>2. installations[i].last \in 0 .. MaxSequence
        /\ installations[i].last < MaxSequence
        /\ installations[i].status = "active"
    BY <1>0, <1>6, <2>1 DEF AllocateSequence, MayNumber, InstallationRow
  <2>3. installations[i].last + 1 \in Sequences
        /\ installations[i].last + 1 \in 0 .. MaxSequence
    BY <2>2 DEF Sequences
  <2>4. /\ row \in InstallationRow
        /\ row.status = "active" => row.account \in Account
    BY <1>0, <2>1, <2>3 DEF InstallationRow, RowsComplete
  <2>5. state \in RequestState /\ Holding(state)
    BY <1>0, <2>1, <2>3 DEF RequestState, Holding
  <2>6. /\ installations' = [installations EXCEPT ![i] = row]
        /\ End(r) \/ Continue(r, state)
    BY <1>6 DEF AllocateSequence, Numbered
  <2> HIDE DEF row, state, i
  <2>7. /\ installations' \in [Installation -> InstallationRow]
        /\ RowsComplete'
    BY <2>1, <2>4, <2>6, RowMoves
  <2>8. request' \in [Request -> RequestState] /\ RequestsComplete'
    BY <1>0, <2>5, <2>6, ContinueEffect, EndEffect
  <2>9. QED
    BY <1>6, <2>7, <2>8 DEF AllocateSequence, TypeOK
<1>7. ASSUME NEW r \in Request, CommitLease(r)
      PROVE  Complete'
  <2> DEFINE i == request[r].installation
             s == request[r].sequence
             row == [installations[i] EXCEPT !.current = s]
             state == [request[r] EXCEPT !.at = "auditLease"]
  <2>1. i \in Installation /\ s \in Sequences /\ s \in 0 .. MaxSequence
    BY <1>0, <1>7 DEF CommitLease, Holding, Sequences
  <2>2. /\ row \in InstallationRow
        /\ row.status = "active" => row.account \in Account
    BY <1>0, <2>1 DEF InstallationRow, RowsComplete
  <2>3. state \in RequestState /\ Holding(state)
    BY <1>0, <2>1 DEF RequestState, Holding
  <2>4. /\ installations' = [installations EXCEPT ![i] = row]
        /\ Continue(r, state)
        /\ leases' = [leases EXCEPT ![i] =
                         [Superseded(i) EXCEPT ![s] = "active"]]
    BY <1>7 DEF CommitLease
  <2>5. [Superseded(i) EXCEPT ![s] = "active"]
           \in [Sequences -> LeaseStatus]
    BY <2>1 DEF Superseded, LeaseStatus, TypeOK
  <2> HIDE DEF row, state, i, s
  <2>6. /\ installations' \in [Installation -> InstallationRow]
        /\ RowsComplete'
    BY <2>1, <2>2, <2>4, RowMoves
  <2>7. request' \in [Request -> RequestState] /\ RequestsComplete'
    BY <1>0, <2>3, <2>4, ContinueEffect
  <2>8. leases' \in [Installation -> [Sequences -> LeaseStatus]]
    BY <2>1, <2>4, <2>5 DEF TypeOK
  <2>9. QED
    BY <1>7, <2>6, <2>7, <2>8 DEF CommitLease, TypeOK
<1>8. ASSUME NEW r \in Request, AuditLease(r)
      PROVE  Complete'
  <2> DEFINE state == [request[r] EXCEPT !.at = "auditActivation"]
  <2>1. /\ request[r].installation \in Installation
        /\ request[r].sequence \in Sequences
        /\ request[r].sequence \in 0 .. MaxSequence
    BY <1>0, <1>8 DEF AuditLease, Holding, Sequences
  <2>2. state \in RequestState /\ Holding(state)
    BY <1>0, <2>1 DEF RequestState, Holding
  <2>3. End(r) \/ Continue(r, state)
    BY <1>8 DEF AuditLease
  <2> HIDE DEF state
  <2>4. request' \in [Request -> RequestState] /\ RequestsComplete'
    BY <1>0, <2>2, <2>3, ContinueEffect, EndEffect
  <2>5. trail' \subseteq AuditEvent
    BY <1>8, <2>1 DEF AuditLease, Recorded, AuditEvent, TypeOK
  <2>6. served' \subseteq Installation \X Sequences
    BY <1>8, <2>1 DEF AuditLease, TypeOK
  <2>7. QED
    BY <1>8, <2>4, <2>5, <2>6, RequestMoves
       DEF AuditLease, Unwritten, TypeOK
<1>9. ASSUME NEW r \in Request, AuditActivation(r)
      PROVE  Complete'
  <2>1. /\ request[r].installation \in Installation
        /\ request[r].sequence \in Sequences
    BY <1>0, <1>9 DEF AuditActivation, Holding
  <2>2. request' \in [Request -> RequestState] /\ RequestsComplete'
    BY <1>0, <1>9, EndEffect DEF AuditActivation
  <2>3. trail' \subseteq AuditEvent
    BY <1>9, <2>1 DEF AuditActivation, Recorded, AuditEvent, TypeOK
  <2>4. /\ served' \subseteq Installation \X Sequences
        /\ credentials' \subseteq Installation
    BY <1>9, <2>1 DEF AuditActivation, TypeOK
  <2>5. QED
    BY <1>9, <2>2, <2>3, <2>4, RequestMoves DEF AuditActivation, Unwritten
<1>10. ASSUME NEW r \in Request, NEW i \in Installation,
              FindInstallation(r, i)
       PROVE  Complete'
  <2> DEFINE state == [Idle EXCEPT !.at = "revoke", !.op = "revoke",
                                   !.installation = i]
  <2>1. state \in RequestState /\ Holding(state)
    BY IdleType DEF RequestState, Holding
  <2>2. Continue(r, state)
    BY <1>10 DEF FindInstallation
  <2> HIDE DEF state
  <2>3. request' \in [Request -> RequestState] /\ RequestsComplete'
    BY <1>0, <2>1, <2>2, ContinueEffect
  <2>4. QED
    BY <1>10, <2>3, RequestMoves DEF FindInstallation, Unwritten, TypeOK
<1>11. ASSUME NEW r \in Request, RevokeInstallation(r)
       PROVE  Complete'
  <2> DEFINE i == request[r].installation
             row == [installations[i] EXCEPT !.status = "revoked"]
             state == [request[r] EXCEPT !.at = "auditRevocation"]
  <2>1. i \in Installation
    BY <1>0, <1>11 DEF RevokeInstallation, Holding
  <2>2. state \in RequestState /\ Holding(state)
    BY <1>0, <2>1 DEF RequestState, Holding
  <2>3. /\ installations' = [installations EXCEPT ![i] = row]
        /\ Continue(r, state)
        /\ leases' = [leases EXCEPT ![i] = RevokedLeases(i)]
    BY <1>11 DEF RevokeInstallation, RevokedRow
  <2>4. RevokedLeases(i) \in [Sequences -> LeaseStatus]
    BY <2>1 DEF RevokedLeases, LeaseStatus, TypeOK
  <2>5. /\ row \in InstallationRow
        /\ row.status = "active" => row.account \in Account
    BY <1>0, <2>1 DEF InstallationRow, RowsComplete
  <2> HIDE DEF row, state, i
  <2>6. /\ installations' \in [Installation -> InstallationRow]
        /\ RowsComplete'
    BY <2>1, <2>3, <2>5, RowMoves
  <2>7. request' \in [Request -> RequestState] /\ RequestsComplete'
    BY <1>0, <2>2, <2>3, ContinueEffect
  <2>8. leases' \in [Installation -> [Sequences -> LeaseStatus]]
    BY <2>1, <2>3, <2>4 DEF TypeOK
  <2>9. QED
    BY <1>11, <2>6, <2>7, <2>8 DEF RevokeInstallation, TypeOK
<1>12. ASSUME NEW r \in Request, AuditRevocation(r)
       PROVE  Complete'
  <2>1. request[r].installation \in Installation
    BY <1>0, <1>12 DEF AuditRevocation, Holding
  <2>2. request' \in [Request -> RequestState] /\ RequestsComplete'
    BY <1>0, <1>12, EndEffect DEF AuditRevocation
  <2>3. trail' \subseteq AuditEvent
    BY <1>12, <2>1 DEF AuditRevocation, Recorded, AuditEvent, TypeOK
  <2>4. QED
    BY <1>12, <2>2, <2>3, RequestMoves DEF AuditRevocation, Unwritten, TypeOK
<1>13. ASSUME NEW c \in Code, LapseCode(c)
       PROVE  Complete'
  <2>1. codes' \in [Code -> CodeRow]
    BY <1>13 DEF LapseCode, TypeOK, CodeRow, CodeStatus
  <2>2. QED
    BY <1>13, <2>1 DEF LapseCode, TypeOK, RowsComplete, RequestsComplete
<1>14. ASSUME NEW a \in Account, ChangeEntitlement(a)
       PROVE  Complete'
  BY <1>14 DEF ChangeEntitlement, TypeOK, RowsComplete, RequestsComplete
<1>15. CASE UNCHANGED vars
  BY <1>15 DEF vars, TypeOK, RowsComplete, RequestsComplete
<1>16. ASSUME NEW r \in Request, NEW c \in Code, CreateCode(r, c)
       PROVE  Complete'
  <2> DEFINE state == [Idle EXCEPT !.at = "auditCode", !.op = "create",
                                   !.code = c]
  <2>1. state \in RequestState /\ Holding(state)
    BY IdleType DEF RequestState, Holding
  <2>2. Continue(r, state)
    BY <1>16 DEF CreateCode
  <2> HIDE DEF state
  <2>3. request' \in [Request -> RequestState] /\ RequestsComplete'
    BY <1>0, <2>1, <2>2, ContinueEffect
  <2>4. codes' \in [Code -> CodeRow]
    BY <1>16 DEF CreateCode, TypeOK, CodeRow, CodeStatus
  <2>5. QED
    BY <1>16, <2>3, <2>4 DEF CreateCode, TypeOK, RowsComplete
<1>17. ASSUME NEW r \in Request, AuditCode(r)
       PROVE  Complete'
  <2>1. request[r].code \in Code
    BY <1>0, <1>17 DEF AuditCode, Holding
  <2>2. request' \in [Request -> RequestState] /\ RequestsComplete'
    BY <1>0, <1>17, EndEffect DEF AuditCode
  <2>3. created' \subseteq Code /\ known' \subseteq Code
    BY <1>17, <2>1 DEF AuditCode, TypeOK
  <2>4. QED
    BY <1>17, <2>2, <2>3 DEF AuditCode, TypeOK, RowsComplete
<1>18. QED
  <2> HIDE DEF Complete
  <2>1. QED
    BY <1>1, <1>2, <1>3, <1>4, <1>5, <1>6, <1>7, <1>8, <1>9, <1>10, <1>11,
       <1>12, <1>13, <1>14, <1>15, <1>16, <1>17 DEF Next, Issue

(* Every table and every request in flight keeps its type.                  *)
THEOREM TypeCorrect == Spec => []TypeOK
<1>1. Complete => TypeOK
  BY DEF Complete
<1>2. QED
  BY <1>1, InitComplete, NextComplete, PTL DEF Spec

-----------------------------------------------------------------------------
(* What the four actions that write installations or leases do, field by    *)
(* field, and that no other action writes them.                             *)

(* What the insertion of an installation does to tables and requests.       *)
LEMMA InsertEffect ==
  ASSUME Complete, NEW r \in Request, InsertInstallation(r)
  PROVE  \E i \in Installation :
           /\ installations[i] = NoRow
           /\ installations'[i].status = "active"
           /\ installations'[i].last = 0
           /\ installations'[i].current = 0
           /\ \A j \in Installation \ {i} : installations'[j] = installations[j]
           /\ leases' = leases
           /\ request'[r].at = "entitlement"
           /\ request'[r].installation = i
           /\ \A q \in Request \ {r} : request'[q] = request[q]
<1>1. PICK i \in Installation :
        /\ installations[i] = NoRow
        /\ installations' = [installations EXCEPT ![i] =
               [NoRow EXCEPT !.status = "active",
                             !.account = request[r].account,
                             !.deployment = request[r].deployment]]
        /\ Continue(r, [request[r] EXCEPT !.at = "entitlement",
                                          !.installation = i])
  BY DEF InsertInstallation
<1> DEFINE row == [NoRow EXCEPT !.status = "active",
                                !.account = request[r].account,
                                !.deployment = request[r].deployment]
<1>2. /\ row.status = "active"
      /\ row.last = 0
      /\ row.current = 0
  <2>1. NoRow.last = 0 /\ NoRow.current = 0
    BY DEF NoRow
  <2>2. QED
    BY <2>1, NoRowType DEF InstallationRow
<1>3. installations' = [installations EXCEPT ![i] = row]
  BY <1>1
<1> HIDE DEF row
<1>4. /\ installations'[i] = row
      /\ \A j \in Installation \ {i} : installations'[j] = installations[j]
  BY <1>3 DEF Complete, TypeOK
<1>5. /\ request'[r].at = "entitlement"
      /\ request'[r].installation = i
      /\ \A q \in Request \ {r} : request'[q] = request[q]
  BY <1>1 DEF Continue, Complete, TypeOK, RequestState
<1>6. QED
  BY <1>1, <1>2, <1>4, <1>5 DEF InsertInstallation

(* What taking a number does to tables and requests.                        *)
LEMMA AllocateEffect ==
  ASSUME Complete, NEW r \in Request, AllocateSequence(r),
         NEW i, i = request[r].installation
  PROVE  /\ i \in Installation
         /\ installations[i].status = "active"
         /\ installations'[i].status = "active"
         /\ installations[i].last \in Nat
         /\ installations[i].last < MaxSequence
         /\ installations'[i].last = installations[i].last + 1
         /\ installations'[i].current = installations[i].current
         /\ \A j \in Installation \ {i} : installations'[j] = installations[j]
         /\ leases' = leases
         /\ \/ request'[r] = Idle
            \/ /\ request'[r].at = "commit"
               /\ request'[r].installation = i
               /\ request'[r].sequence = installations[i].last + 1
         /\ \A q \in Request \ {r} : request'[q] = request[q]
<1>1. i \in Installation
  BY DEF AllocateSequence, Complete, RequestsComplete, Holding
<1>2. /\ installations[i] \in InstallationRow
      /\ installations' = [installations EXCEPT ![i] =
                             [installations[i] EXCEPT !.last = @ + 1]]
  BY <1>1 DEF AllocateSequence, Numbered, Complete, TypeOK
<1>3. /\ installations'[i] = [installations[i] EXCEPT !.last = @ + 1]
      /\ \A j \in Installation \ {i} : installations'[j] = installations[j]
  BY <1>1, <1>2 DEF Complete, TypeOK
<1>4. /\ installations[i].status = "active"
      /\ installations[i].last \in Nat
      /\ installations[i].last < MaxSequence
  BY <1>2 DEF AllocateSequence, MayNumber, InstallationRow
<1>5. /\ installations'[i].status = "active"
      /\ installations'[i].last = installations[i].last + 1
      /\ installations'[i].current = installations[i].current
  BY <1>2, <1>3, <1>4 DEF InstallationRow
<1>6. /\ \/ request'[r] = Idle
         \/ /\ request'[r].at = "commit"
            /\ request'[r].installation = i
            /\ request'[r].sequence = installations[i].last + 1
      /\ \A q \in Request \ {r} : request'[q] = request[q]
  <2> DEFINE state == [request[r] EXCEPT
                         !.at = "commit",
                         !.sequence = installations[i].last + 1]
  <2>1. Continue(r, state) \/ Continue(r, Idle)
    BY DEF AllocateSequence, End
  <2>2. /\ state.at = "commit"
        /\ state.installation = i
        /\ state.sequence = installations[i].last + 1
    BY DEF Complete, TypeOK, RequestState
  <2> HIDE DEF state
  <2>3. QED
    BY <2>1, <2>2 DEF Continue, Complete, TypeOK
<1>7. QED
  BY <1>1, <1>3, <1>4, <1>5, <1>6 DEF AllocateSequence

(* What the batch of issue does to tables and requests.                     *)
LEMMA CommitEffect ==
  ASSUME Complete, NEW r \in Request, CommitLease(r),
         NEW i, i = request[r].installation,
         NEW s, s = request[r].sequence
  PROVE  /\ i \in Installation
         /\ s \in Sequences
         /\ Holds(r, i, s)
         /\ leases[i][s] = "none"
         /\ leases'[i][s] = "active"
         /\ \A n \in Sequences \ {s} : leases'[i][n] =
              IF leases[i][n] = "active" THEN "superseded" ELSE leases[i][n]
         /\ \A j \in Installation \ {i} : leases'[j] = leases[j]
         /\ installations'[i].status = installations[i].status
         /\ installations'[i].last = installations[i].last
         /\ installations'[i].current = s
         /\ \A j \in Installation \ {i} : installations'[j] = installations[j]
         /\ request'[r].at = "auditLease"
         /\ request'[r].installation = i
         /\ request'[r].sequence = s
         /\ \A q \in Request \ {r} : request'[q] = request[q]
<1>1. i \in Installation /\ s \in Sequences
  BY DEF CommitLease, Complete, RequestsComplete, Holding
<1>2. /\ installations[i] \in InstallationRow
      /\ installations' = [installations EXCEPT ![i] =
                             [installations[i] EXCEPT !.current = s]]
  BY <1>1 DEF CommitLease, Complete, TypeOK
<1>3. /\ installations'[i] = [installations[i] EXCEPT !.current = s]
      /\ \A j \in Installation \ {i} : installations'[j] = installations[j]
  BY <1>1, <1>2 DEF Complete, TypeOK
<1>4. /\ installations'[i].status = installations[i].status
      /\ installations'[i].last = installations[i].last
      /\ installations'[i].current = s
  BY <1>2, <1>3 DEF InstallationRow
<1>5. /\ leases[i][s] = "none"
      /\ leases' = [leases EXCEPT ![i] =
                      [Superseded(i) EXCEPT ![s] = "active"]]
  BY DEF CommitLease, Insertable
<1>6. /\ leases'[i] = [Superseded(i) EXCEPT ![s] = "active"]
      /\ \A j \in Installation \ {i} : leases'[j] = leases[j]
  BY <1>1, <1>5 DEF Complete, TypeOK
<1>7. /\ leases'[i][s] = "active"
      /\ \A n \in Sequences \ {s} : leases'[i][n] =
           IF leases[i][n] = "active" THEN "superseded" ELSE leases[i][n]
  BY <1>1, <1>6 DEF Superseded
<1>8. /\ request'[r].at = "auditLease"
      /\ request'[r].installation = i
      /\ request'[r].sequence = s
      /\ \A q \in Request \ {r} : request'[q] = request[q]
  BY DEF CommitLease, Continue, Complete, TypeOK, RequestState
<1>9. Holds(r, i, s)
  BY DEF CommitLease, Holds
<1>10. QED
  BY <1>1, <1>3, <1>4, <1>5, <1>6, <1>7, <1>8, <1>9

(* What the batch of a revocation does to tables and requests.              *)
LEMMA RevokeEffect ==
  ASSUME Complete, NEW r \in Request, RevokeInstallation(r),
         NEW i, i = request[r].installation
  PROVE  /\ i \in Installation
         /\ installations'[i].status = "revoked"
         /\ installations'[i].last = installations[i].last
         /\ installations'[i].current = installations[i].current
         /\ \A j \in Installation \ {i} : installations'[j] = installations[j]
         /\ \A n \in Sequences : leases'[i][n] =
              IF leases[i][n] = "active" THEN "revoked" ELSE leases[i][n]
         /\ \A j \in Installation \ {i} : leases'[j] = leases[j]
         /\ request'[r].at = "auditRevocation"
         /\ request'[r].installation = i
         /\ \A q \in Request \ {r} : request'[q] = request[q]
<1>1. i \in Installation
  BY DEF RevokeInstallation, Complete, RequestsComplete, Holding
<1>2. /\ installations[i] \in InstallationRow
      /\ installations' = [installations EXCEPT ![i] =
                             [installations[i] EXCEPT !.status = "revoked"]]
  BY <1>1 DEF RevokeInstallation, RevokedRow, Complete, TypeOK
<1>3. /\ installations'[i] = [installations[i] EXCEPT !.status = "revoked"]
      /\ \A j \in Installation \ {i} : installations'[j] = installations[j]
  BY <1>1, <1>2 DEF Complete, TypeOK
<1>4. /\ installations'[i].status = "revoked"
      /\ installations'[i].last = installations[i].last
      /\ installations'[i].current = installations[i].current
  BY <1>2, <1>3 DEF InstallationRow
<1>5. /\ leases'[i] = RevokedLeases(i)
      /\ \A j \in Installation \ {i} : leases'[j] = leases[j]
  BY <1>1 DEF RevokeInstallation, Complete, TypeOK
<1>6. \A n \in Sequences : leases'[i][n] =
        IF leases[i][n] = "active" THEN "revoked" ELSE leases[i][n]
  BY <1>5 DEF RevokedLeases
<1>7. /\ request'[r].at = "auditRevocation"
      /\ request'[r].installation = i
      /\ \A q \in Request \ {r} : request'[q] = request[q]
  BY DEF RevokeInstallation, Continue, Complete, TypeOK, RequestState
<1>8. QED
  BY <1>1, <1>3, <1>4, <1>5, <1>6, <1>7

(* A request that neither reaches the batch of a lease nor takes up an      *)
(* installation that does not exist.                                        *)
QuietMove(q) ==
    \/ request'[q] = request[q]
    \/ request'[q].at \in {"idle", "auditCode", "insert"}
    \/ /\ request'[q].at # "commit"
       /\ \/ installations[request'[q].installation].status # "none"
          \/ /\ request[q].at \notin {"idle", "auditCode", "insert"}
             /\ request'[q].installation = request[q].installation

Quiet ==
    /\ UNCHANGED <<installations, leases>>
    /\ \A q \in Request : QuietMove(q)

(* A request that goes on without a number disturbs no lease.               *)
LEMMA ContinueQuiet ==
  ASSUME Complete, NEW r \in Request, NEW state, Continue(r, state),
         \/ state.at \in {"idle", "auditCode", "insert"}
         \/ /\ state.at # "commit"
            /\ \/ installations[state.installation].status # "none"
               \/ /\ request[r].at \notin {"idle", "auditCode", "insert"}
                  /\ state.installation = request[r].installation
  PROVE  \A q \in Request : QuietMove(q)
<1>1. /\ request'[r] = state
      /\ \A q \in Request \ {r} : request'[q] = request[q]
  BY DEF Continue, Complete, TypeOK
<1>2. QED
  BY <1>1 DEF QuietMove

(* A request that ends disturbs no lease.                                   *)
LEMMA EndQuiet ==
  ASSUME Complete, NEW r \in Request, End(r)
  PROVE  \A q \in Request : QuietMove(q)
<1>1. Idle.at = "idle"
  BY DEF Idle
<1>2. QED
  BY <1>1, ContinueQuiet DEF End

(* Every step is one of four that write leases, or disturbs none.           *)
LEMMA StepKinds ==
  ASSUME Complete, [Next]_vars
  PROVE  \/ Quiet
         \/ \E r \in Request : \/ InsertInstallation(r)
                               \/ AllocateSequence(r)
                               \/ CommitLease(r)
                               \/ RevokeInstallation(r)
<1>1. ASSUME NEW r \in Request, NEW c \in Code, NEW d \in Deployment,
             ConsumeCode(r, c, d)
      PROVE  Quiet
  <2> DEFINE state == [Idle EXCEPT !.at = "insert", !.op = "activate",
                                   !.account = codes[c].account,
                                   !.deployment = d]
  <2>1. state.at = "insert"
    BY IdleType DEF RequestState
  <2>2. Continue(r, state)
    BY <1>1 DEF ConsumeCode
  <2> HIDE DEF state
  <2>3. QED
    BY <1>1, <2>1, <2>2, ContinueQuiet DEF ConsumeCode, Quiet
<1>2. ASSUME NEW r \in Request,
             \/ RejectInstallation(r) \/ RefuseInactive(r) \/ Fail(r)
             \/ AuditActivation(r) \/ AuditRevocation(r)
      PROVE  Quiet
  BY <1>2, EndQuiet DEF RejectInstallation, RefuseInactive, Fail,
     AuditActivation, AuditRevocation, Quiet
<1>3. ASSUME NEW r \in Request, NEW i \in Installation,
             NEW op \in {"renew", "download"}, LoadInstallation(r, i, op)
      PROVE  Quiet
  <2> DEFINE state == [Idle EXCEPT !.at = "entitlement", !.op = op,
                                   !.account = installations[i].account,
                                   !.installation = i]
  <2>1. state.at = "entitlement" /\ state.installation = i
    BY IdleType DEF RequestState
  <2>2. Continue(r, state) /\ installations[i].status # "none"
    BY <1>3 DEF LoadInstallation
  <2> HIDE DEF state
  <2>3. QED
    BY <1>3, <2>1, <2>2, ContinueQuiet DEF LoadInstallation, Quiet
<1>4. ASSUME NEW r \in Request, ReadEntitlement(r)
      PROVE  Quiet
  <2> DEFINE state == [request[r] EXCEPT
                         !.at = "allocate",
                         !.seen = entitlement[request[r].account]]
  <2>1. /\ state.at = "allocate"
        /\ state.installation = request[r].installation
        /\ request[r].at = "entitlement"
    BY <1>4 DEF ReadEntitlement, Complete, TypeOK, RequestState
  <2>2. Continue(r, state) \/ End(r)
    BY <1>4 DEF ReadEntitlement
  <2> HIDE DEF state
  <2>3. QED
    BY <1>4, <2>1, <2>2, ContinueQuiet, EndQuiet DEF ReadEntitlement, Quiet
<1>5. ASSUME NEW r \in Request, AuditLease(r)
      PROVE  Quiet
  <2> DEFINE state == [request[r] EXCEPT !.at = "auditActivation"]
  <2>1. /\ state.at = "auditActivation"
        /\ state.installation = request[r].installation
        /\ request[r].at = "auditLease"
    BY <1>5 DEF AuditLease, Complete, TypeOK, RequestState
  <2>2. Continue(r, state) \/ End(r)
    BY <1>5 DEF AuditLease
  <2> HIDE DEF state
  <2>3. QED
    BY <1>5, <2>1, <2>2, ContinueQuiet, EndQuiet DEF AuditLease, Quiet
<1>6. ASSUME NEW r \in Request, NEW i \in Installation,
             FindInstallation(r, i)
      PROVE  Quiet
  <2> DEFINE state == [Idle EXCEPT !.at = "revoke", !.op = "revoke",
                                   !.installation = i]
  <2>1. state.at = "revoke" /\ state.installation = i
    BY IdleType DEF RequestState
  <2>2. Continue(r, state) /\ installations[i].status # "none"
    BY <1>6 DEF FindInstallation
  <2> HIDE DEF state
  <2>3. QED
    BY <1>6, <2>1, <2>2, ContinueQuiet DEF FindInstallation, Quiet
<1>7. ASSUME \/ \E c \in Code : LapseCode(c)
             \/ \E a \in Account : ChangeEntitlement(a)
             \/ UNCHANGED vars
      PROVE  Quiet
  BY <1>7 DEF LapseCode, ChangeEntitlement, vars, Quiet, QuietMove
<1>8. ASSUME NEW r \in Request, NEW c \in Code, CreateCode(r, c)
      PROVE  Quiet
  <2> DEFINE state == [Idle EXCEPT !.at = "auditCode", !.op = "create",
                                   !.code = c]
  <2>1. state.at = "auditCode"
    BY IdleType DEF RequestState
  <2>2. Continue(r, state)
    BY <1>8 DEF CreateCode
  <2> HIDE DEF state
  <2>3. QED
    BY <1>8, <2>1, <2>2, ContinueQuiet DEF CreateCode, Quiet
<1>9. ASSUME NEW r \in Request, AuditCode(r)
      PROVE  Quiet
  BY <1>9, EndQuiet DEF AuditCode, Quiet
<1>10. QED
  BY <1>1, <1>2, <1>3, <1>4, <1>5, <1>6, <1>7, <1>8, <1>9 DEF Next, Issue

-----------------------------------------------------------------------------
(* The numbering of leases.                                                 *)

(* The invariant holds at the start.                                        *)
LEMMA InitIInv == Init => IInv
<1> SUFFICES ASSUME Init PROVE IInv
  OBVIOUS
<1>1. Complete
  BY InitComplete
<1>2. /\ \A r \in Request : request[r].at = "idle"
      /\ \A i \in Installation, n \in Sequences : leases[i][n] = "none"
  BY DEF Init, Idle
<1>3. QED
  BY <1>1, <1>2 DEF IInv, RegisteredFirst, SequenceHasOneOwner, Holds,
     ActiveLeaseIsCurrent

(* Every step keeps the invariant.                                          *)
LEMMA NextIInv == IInv /\ [Next]_vars => IInv'
<1> SUFFICES ASSUME IInv, [Next]_vars
             PROVE  IInv'
  OBVIOUS
<1>1. Complete /\ Complete'
  BY NextComplete DEF IInv
<1>2. CASE Quiet
  <2>1. RegisteredFirst'
    BY <1>2 DEF IInv, RegisteredFirst, Quiet, QuietMove
  <2>2. \A q \in Request : request'[q].at = "commit" => request'[q] = request[q]
    BY <1>2 DEF Quiet, QuietMove
  <2>3. \A q \in Request, i \in Installation, n \in Sequences :
           Holds(q, i, n)' => Holds(q, i, n)
    BY <2>2 DEF Holds
  <2>4. SequenceHasOneOwner' /\ ActiveLeaseIsCurrent'
    BY <1>2, <2>3 DEF IInv, SequenceHasOneOwner, ActiveLeaseIsCurrent, Quiet
  <2>5. QED
    BY <1>1, <2>1, <2>4 DEF IInv
<1>3. ASSUME NEW r \in Request, InsertInstallation(r)
      PROVE  IInv'
  <2>1. PICK i \in Installation :
           /\ installations[i] = NoRow
           /\ installations'[i].status = "active"
           /\ installations'[i].last = 0
           /\ installations'[i].current = 0
           /\ \A j \in Installation \ {i} : installations'[j] = installations[j]
           /\ leases' = leases
           /\ request'[r].at = "entitlement"
           /\ request'[r].installation = i
           /\ \A q \in Request \ {r} : request'[q] = request[q]
    BY <1>1, <1>3, InsertEffect
  <2>2. /\ installations[i].status = "none"
        /\ installations[i].last = 0
        /\ installations[i].current = 0
    BY <2>1 DEF NoRow
  <2>3. RegisteredFirst'
    BY <1>1, <2>1, <2>2 DEF IInv, RegisteredFirst, Complete, RequestsComplete,
       Holding
  <2>4. /\ \A q \in Request, j \in Installation, n \in Sequences :
             Holds(q, j, n)' => Holds(q, j, n)
        /\ \A j \in Installation :
             /\ installations'[j].last = installations[j].last
             /\ installations'[j].current = installations[j].current
    BY <2>1, <2>2 DEF Holds
  <2>5. SequenceHasOneOwner' /\ ActiveLeaseIsCurrent'
    BY <2>1, <2>4 DEF IInv, SequenceHasOneOwner, ActiveLeaseIsCurrent
  <2>6. QED
    BY <1>1, <2>3, <2>5 DEF IInv
<1>4. ASSUME NEW r \in Request, AllocateSequence(r)
      PROVE  IInv'
  <2> DEFINE i == request[r].installation
             s == installations[i].last + 1
  <2>1. /\ i \in Installation
        /\ installations[i].status = "active"
        /\ installations'[i].status = "active"
        /\ installations[i].last \in Nat
        /\ installations[i].last < MaxSequence
        /\ installations'[i].last = s
        /\ installations'[i].current = installations[i].current
        /\ \A j \in Installation \ {i} : installations'[j] = installations[j]
        /\ leases' = leases
        /\ \/ request'[r].at = "idle"
           \/ /\ request'[r].at = "commit"
              /\ request'[r].installation = i
              /\ request'[r].sequence = s
        /\ \A q \in Request \ {r} : request'[q] = request[q]
    BY <1>1, <1>4, AllocateEffect DEF Idle
  <2>2. s > installations[i].last /\ s \in Nat
    BY <2>1
  <2> HIDE DEF s
  <2>3. RegisteredFirst'
    BY <1>1, <2>1 DEF IInv, RegisteredFirst, Complete, RequestsComplete,
       Holding
  <2>4. ActiveLeaseIsCurrent'
    BY <2>1 DEF IInv, ActiveLeaseIsCurrent
  <2>5. /\ \A q \in Request \ {r}, j \in Installation, n \in Sequences :
             Holds(q, j, n)' => Holds(q, j, n)
        /\ \A j \in Installation, n \in Sequences :
             Holds(r, j, n)' => j = i /\ n = s
    BY <2>1 DEF Holds
  <2>6. \A n \in Sequences, q \in Request :
           (leases[i][n] # "none" \/ Holds(q, i, n)) => n # s
    BY <2>1, <2>2 DEF IInv, SequenceHasOneOwner, Sequences
  <2>7. \A j \in Installation, n \in Sequences :
           n <= installations[j].last => n <= installations'[j].last
    BY <2>1, <2>2 DEF Sequences
  <2>8. SequenceHasOneOwner'
    <3> SUFFICES ASSUME NEW j \in Installation, NEW n \in Sequences
                 PROVE  /\ leases'[j][n] # "none" => n <= installations'[j].last
                        /\ \A q \in Request : Holds(q, j, n)' =>
                             /\ leases'[j][n] = "none"
                             /\ n <= installations'[j].last
                             /\ \A p \in Request \ {q} : ~Holds(p, j, n)'
      BY DEF SequenceHasOneOwner
    <3>1. leases'[j][n] # "none" => n <= installations'[j].last
      BY <2>1, <2>7 DEF IInv, SequenceHasOneOwner
    <3>2. ASSUME NEW q \in Request \ {r}, Holds(q, j, n)'
          PROVE  /\ leases'[j][n] = "none"
                 /\ n <= installations'[j].last
                 /\ \A p \in Request \ {q} : ~Holds(p, j, n)'
      BY <2>1, <2>5, <2>6, <2>7, <3>2 DEF IInv, SequenceHasOneOwner
    <3>3. ASSUME Holds(r, j, n)'
          PROVE  /\ leases'[j][n] = "none"
                 /\ n <= installations'[j].last
                 /\ \A p \in Request \ {r} : ~Holds(p, j, n)'
      <4>1. j = i /\ n = s
        BY <2>5, <3>3
      <4>2. n <= installations'[j].last
        BY <2>1, <2>2, <4>1
      <4>3. QED
        BY <2>1, <2>5, <2>6, <4>1, <4>2
    <3>4. QED
      BY <3>1, <3>2, <3>3
  <2>9. QED
    BY <1>1, <2>3, <2>4, <2>8 DEF IInv
<1>5. ASSUME NEW r \in Request, CommitLease(r)
      PROVE  IInv'
  <2>0. PICK i, s : i = request[r].installation /\ s = request[r].sequence
    OBVIOUS
  <2>1. /\ i \in Installation
        /\ s \in Sequences
        /\ Holds(r, i, s)
        /\ leases[i][s] = "none"
        /\ leases'[i][s] = "active"
        /\ \A n \in Sequences \ {s} : leases'[i][n] =
             IF leases[i][n] = "active" THEN "superseded" ELSE leases[i][n]
        /\ \A j \in Installation \ {i} : leases'[j] = leases[j]
        /\ installations'[i].status = installations[i].status
        /\ installations'[i].last = installations[i].last
        /\ installations'[i].current = s
        /\ \A j \in Installation \ {i} : installations'[j] = installations[j]
        /\ request'[r].at = "auditLease"
        /\ request'[r].installation = i
        /\ \A q \in Request \ {r} : request'[q] = request[q]
    BY <1>1, <1>5, <2>0, CommitEffect
  <2>2. RegisteredFirst'
    BY <1>1, <1>5, <2>0, <2>1 DEF IInv, RegisteredFirst, CommitLease, Complete,
       RequestsComplete, Holding
  <2>3. /\ \A q \in Request, j \in Installation, n \in Sequences :
             Holds(q, j, n)' => Holds(q, j, n) /\ q # r
        /\ \A q \in Request \ {r} : ~Holds(q, i, s)
        /\ s <= installations[i].last
    BY <2>1 DEF IInv, SequenceHasOneOwner, Holds
  <2>4. \A j \in Installation, n \in Sequences :
           /\ leases[j][n] = "none" /\ ~(j = i /\ n = s)
                 => leases'[j][n] = "none"
           /\ leases'[j][n] # "none" => n <= installations[j].last
    <3> SUFFICES ASSUME NEW j \in Installation, NEW n \in Sequences
                 PROVE  /\ leases[j][n] = "none" /\ ~(j = i /\ n = s)
                              => leases'[j][n] = "none"
                        /\ leases'[j][n] # "none" => n <= installations[j].last
      OBVIOUS
    <3>1. leases[j][n] # "none" => n <= installations[j].last
      BY DEF IInv, SequenceHasOneOwner
    <3>2. QED
      BY <2>1, <2>3, <3>1
  <2>5. \A j \in Installation : installations'[j].last = installations[j].last
    BY <2>1
  <2>6. SequenceHasOneOwner'
    BY <2>3, <2>4, <2>5 DEF IInv, SequenceHasOneOwner
  <2>7. ActiveLeaseIsCurrent'
    BY <2>1 DEF IInv, ActiveLeaseIsCurrent
  <2>8. QED
    BY <1>1, <2>2, <2>6, <2>7 DEF IInv
<1>6. ASSUME NEW r \in Request, RevokeInstallation(r)
      PROVE  IInv'
  <2> DEFINE i == request[r].installation
  <2>1. /\ i \in Installation
        /\ installations'[i].status = "revoked"
        /\ installations'[i].last = installations[i].last
        /\ installations'[i].current = installations[i].current
        /\ \A j \in Installation \ {i} : installations'[j] = installations[j]
        /\ \A n \in Sequences : leases'[i][n] =
             IF leases[i][n] = "active" THEN "revoked" ELSE leases[i][n]
        /\ \A j \in Installation \ {i} : leases'[j] = leases[j]
        /\ request'[r].at = "auditRevocation"
        /\ request'[r].installation = i
        /\ \A q \in Request \ {r} : request'[q] = request[q]
    BY <1>1, <1>6, RevokeEffect
  <2> HIDE DEF i
  <2>2. RegisteredFirst'
    BY <1>1, <2>1 DEF IInv, RegisteredFirst, Complete, RequestsComplete,
       Holding
  <2>3. /\ \A q \in Request, j \in Installation, n \in Sequences :
             Holds(q, j, n)' => Holds(q, j, n)
        /\ \A j \in Installation, n \in Sequences :
             /\ leases'[j][n] = "none" <=> leases[j][n] = "none"
             /\ leases'[j][n] = "active" => leases[j][n] = "active"
             /\ installations'[j].last = installations[j].last
             /\ installations'[j].current = installations[j].current
    BY <2>1 DEF Holds
  <2>4. SequenceHasOneOwner' /\ ActiveLeaseIsCurrent'
    BY <2>3 DEF IInv, SequenceHasOneOwner, ActiveLeaseIsCurrent
  <2>5. QED
    BY <1>1, <2>2, <2>4 DEF IInv
<1>7. QED
  BY <1>1, <1>2, <1>3, <1>4, <1>5, <1>6, StepKinds

(* The invariant holds of every reachable state.                            *)
LEMMA Invariance == Spec => []IInv
  BY InitIInv, NextIInv, PTL DEF Spec

(* However many activations, renewals and downloads race, a sequence number *)
(* is owned once: the unique index over (installation_id, sequence) never   *)
(* rejects the batch of issue.                                              *)
THEOREM Numbering == Spec => []SequenceHasOneOwner
<1>1. IInv => SequenceHasOneOwner
  BY DEF IInv
<1>2. QED
  BY <1>1, Invariance, PTL

(* No interleaving leaves two active leases, or an active lease other than  *)
(* the one current_lease_id names.                                          *)
THEOREM OneActiveLease == Spec => []ActiveLeaseIsCurrent
<1>1. IInv => ActiveLeaseIsCurrent
  BY DEF IInv
<1>2. QED
  BY <1>1, Invariance, PTL

-----------------------------------------------------------------------------
(* What a step may never do.                                                *)

(* Every step keeps to the life cycle of a lease.                           *)
LEMMA LeaseStepHolds == IInv /\ [Next]_vars => LeaseStep
<1> SUFFICES ASSUME IInv, [Next]_vars
             PROVE  LeaseStep
  OBVIOUS
<1>1. Complete
  BY DEF IInv
<1>2. CASE leases' = leases
  BY <1>2 DEF LeaseStep
<1>3. ASSUME NEW r \in Request, CommitLease(r)
      PROVE  LeaseStep
  <2>0. PICK i, s : i = request[r].installation /\ s = request[r].sequence
    OBVIOUS
  <2>1. /\ i \in Installation
        /\ leases[i][s] = "none"
        /\ leases'[i][s] = "active"
        /\ \A n \in Sequences \ {s} : leases'[i][n] =
             IF leases[i][n] = "active" THEN "superseded" ELSE leases[i][n]
        /\ \A j \in Installation \ {i} : leases'[j] = leases[j]
    BY <1>1, <1>3, <2>0, CommitEffect
  <2>2. QED
    BY <2>1 DEF LeaseStep
<1>4. ASSUME NEW r \in Request, RevokeInstallation(r)
      PROVE  LeaseStep
  <2>0. PICK i : i = request[r].installation
    OBVIOUS
  <2>1. /\ i \in Installation
        /\ \A n \in Sequences : leases'[i][n] =
             IF leases[i][n] = "active" THEN "revoked" ELSE leases[i][n]
        /\ \A j \in Installation \ {i} : leases'[j] = leases[j]
    BY <1>1, <1>4, <2>0, RevokeEffect
  <2>2. QED
    BY <2>1 DEF LeaseStep
<1>5. QED
  BY <1>1, <1>2, <1>3, <1>4, StepKinds
     DEF Quiet, InsertInstallation, AllocateSequence

(* A superseded or revoked lease keeps its status and no lease row is lost, *)
(* whatever batches of issue and of revocation run in which order.          *)
THEOREM Lifecycle == Spec => LeaseLifecycle
<1>1. IInv /\ [Next]_vars => [LeaseStep]_vars
  BY LeaseStepHolds
<1>2. QED
  BY <1>1, Invariance, PTL DEF Spec, LeaseLifecycle

(* No step gives a drained installation a lease.                            *)
LEMMA DrainedStepHolds == IInv /\ [Next]_vars => DrainedStep
<1> SUFFICES ASSUME IInv, [Next]_vars, NEW k \in Installation, Drained(k)
             PROVE  /\ Drained(k)'
                    /\ \A n \in Sequences : leases'[k][n] # leases[k][n]
                                               => leases'[k][n] = "revoked"
  BY DEF DrainedStep
<1>1. Complete
  BY DEF IInv
<1>2. CASE Quiet
  BY <1>2 DEF Quiet, QuietMove, Drained
<1>3. ASSUME NEW r \in Request, InsertInstallation(r)
      PROVE  Drained(k)' /\ leases' = leases
  <2>1. PICK i \in Installation :
           /\ installations[i] = NoRow
           /\ \A j \in Installation \ {i} : installations'[j] = installations[j]
           /\ leases' = leases
           /\ request'[r].at = "entitlement"
           /\ \A q \in Request \ {r} : request'[q] = request[q]
    BY <1>1, <1>3, InsertEffect
  <2>2. k # i
    BY <2>1 DEF Drained, NoRow
  <2>3. QED
    BY <2>1, <2>2 DEF Drained
<1>4. ASSUME NEW r \in Request, AllocateSequence(r)
      PROVE  Drained(k)' /\ leases' = leases
  <2>0. PICK i : i = request[r].installation
    OBVIOUS
  <2>1. /\ installations[i].status = "active"
        /\ \A j \in Installation \ {i} : installations'[j] = installations[j]
        /\ leases' = leases
        /\ \/ request'[r].at = "idle"
           \/ request'[r].at = "commit" /\ request'[r].installation = i
        /\ \A q \in Request \ {r} : request'[q] = request[q]
    BY <1>1, <1>4, <2>0, AllocateEffect DEF Idle
  <2>2. k # i
    BY <2>1 DEF Drained
  <2>3. QED
    BY <2>1, <2>2 DEF Drained
<1>5. ASSUME NEW r \in Request, CommitLease(r)
      PROVE  Drained(k)' /\ leases'[k] = leases[k]
  <2>0. PICK i, s : i = request[r].installation /\ s = request[r].sequence
    OBVIOUS
  <2>1. /\ Holds(r, i, s)
        /\ \A j \in Installation \ {i} : leases'[j] = leases[j]
        /\ \A j \in Installation \ {i} : installations'[j] = installations[j]
        /\ request'[r].at = "auditLease"
        /\ \A q \in Request \ {r} : request'[q] = request[q]
    BY <1>1, <1>5, <2>0, CommitEffect
  <2>2. k # i
    BY <2>1 DEF Drained, Holds
  <2>3. QED
    BY <2>1, <2>2 DEF Drained
<1>6. ASSUME NEW r \in Request, RevokeInstallation(r)
      PROVE  /\ Drained(k)'
             /\ \A n \in Sequences : leases'[k][n] # leases[k][n]
                                        => leases'[k][n] = "revoked"
  <2>0. PICK i : i = request[r].installation
    OBVIOUS
  <2>1. /\ i \in Installation
        /\ installations'[i].status = "revoked"
        /\ \A j \in Installation \ {i} : installations'[j] = installations[j]
        /\ \A n \in Sequences : leases'[i][n] =
             IF leases[i][n] = "active" THEN "revoked" ELSE leases[i][n]
        /\ \A j \in Installation \ {i} : leases'[j] = leases[j]
        /\ request'[r].at = "auditRevocation"
        /\ \A q \in Request \ {r} : request'[q] = request[q]
    BY <1>1, <1>6, <2>0, RevokeEffect
  <2>2. QED
    BY <2>1 DEF Drained
<1>7. QED
  BY <1>1, <1>2, <1>3, <1>4, <1>5, <1>6, StepKinds DEF Quiet

(* Once an installation is revoked and no request holds a number of it, no  *)
(* lease of it is ever inserted or made active again.                       *)
THEOREM RevocationIsFinal == Spec => DrainedIsFinal
<1>1. IInv /\ [Next]_vars => [DrainedStep]_vars
  BY DrainedStepHolds
<1>2. QED
  BY <1>1, Invariance, PTL DEF Spec, DrainedIsFinal

-----------------------------------------------------------------------------
(* The audit trail and the answers.                                         *)

Recording == {"auditLease", "auditActivation", "auditRevocation"}

(* What a request that is about to record something has already done.       *)
EffectsPrecedeRecords ==
    \A r \in Request :
        LET i == request[r].installation
            s == request[r].sequence
        IN
        /\ request[r].at \in {"auditLease", "auditActivation"}
              => leases[i][s] # "none" /\ installations[i].current # 0
        /\ request[r].at = "auditActivation"
              => <<"lease.issued", i, s>> \in trail
        /\ request[r].at = "auditRevocation"
              => installations[i].status = "revoked"

RecordsInv == EffectsPrecedeRecords /\ LeasesRecorded /\ EventsHappened

(* What has been done is not undone.                                        *)
Kept ==
    \A i \in Installation :
        /\ installations[i].status = "revoked"
              => installations'[i].status = "revoked"
        /\ installations[i].current # 0 => installations'[i].current # 0
        /\ \A n \in Sequences : leases[i][n] # "none" => leases'[i][n] # "none"

(* No step takes back a row or an audit event.                              *)
LEMMA NextKept == IInv /\ [Next]_vars => Kept
<1> SUFFICES ASSUME IInv, [Next]_vars
             PROVE  Kept
  OBVIOUS
<1>1. Complete
  BY DEF IInv
<1>2. CASE Quiet
  BY <1>2 DEF Quiet, Kept
<1>3. ASSUME NEW r \in Request, InsertInstallation(r)
      PROVE  Kept
  <2>1. PICK i \in Installation :
           /\ installations[i] = NoRow
           /\ \A j \in Installation \ {i} : installations'[j] = installations[j]
           /\ leases' = leases
    BY <1>1, <1>3, InsertEffect
  <2>2. installations[i].status = "none" /\ installations[i].current = 0
    BY <2>1 DEF NoRow
  <2>3. QED
    BY <2>1, <2>2 DEF Kept
<1>4. ASSUME NEW r \in Request, AllocateSequence(r)
      PROVE  Kept
  <2>0. PICK i : i = request[r].installation
    OBVIOUS
  <2>1. /\ installations[i].status = "active"
        /\ installations'[i].current = installations[i].current
        /\ \A j \in Installation \ {i} : installations'[j] = installations[j]
        /\ leases' = leases
    BY <1>1, <1>4, <2>0, AllocateEffect
  <2>2. QED
    BY <2>1 DEF Kept
<1>5. ASSUME NEW r \in Request, CommitLease(r)
      PROVE  Kept
  <2>0. PICK i, s : i = request[r].installation /\ s = request[r].sequence
    OBVIOUS
  <2>1. /\ i \in Installation
        /\ s \in Sequences
        /\ leases'[i][s] = "active"
        /\ \A n \in Sequences \ {s} : leases'[i][n] =
             IF leases[i][n] = "active" THEN "superseded" ELSE leases[i][n]
        /\ \A j \in Installation \ {i} : leases'[j] = leases[j]
        /\ installations'[i].status = installations[i].status
        /\ installations'[i].current = s
        /\ \A j \in Installation \ {i} : installations'[j] = installations[j]
    BY <1>1, <1>5, <2>0, CommitEffect
  <2>2. s # 0
    BY <2>1 DEF Sequences
  <2>3. QED
    BY <2>1, <2>2 DEF Kept
<1>6. ASSUME NEW r \in Request, RevokeInstallation(r)
      PROVE  Kept
  <2>0. PICK i : i = request[r].installation
    OBVIOUS
  <2>1. /\ i \in Installation
        /\ installations'[i].status = "revoked"
        /\ installations'[i].current = installations[i].current
        /\ \A j \in Installation \ {i} : installations'[j] = installations[j]
        /\ \A n \in Sequences : leases'[i][n] =
             IF leases[i][n] = "active" THEN "revoked" ELSE leases[i][n]
        /\ \A j \in Installation \ {i} : leases'[j] = leases[j]
    BY <1>1, <1>6, <2>0, RevokeEffect
  <2>2. QED
    BY <2>1 DEF Kept
<1>7. QED
  BY <1>1, <1>2, <1>3, <1>4, <1>5, <1>6, StepKinds

(* Only a batch takes a request to a record, and only a record writes the   *)
(* trail or answers.                                                        *)
RecordMove(q) ==
    \/ request'[q] = request[q]
    \/ request'[q].at \notin Recording
    \/ CommitLease(q)
    \/ RevokeInstallation(q)

Unrecorded ==
    /\ UNCHANGED <<trail, credentials, served>>
    /\ \A q \in Request : RecordMove(q)

(* A request that goes on records nothing.                                  *)
LEMMA ContinueUnrecorded ==
  ASSUME Complete, NEW r \in Request, NEW state, Continue(r, state),
         state.at \notin Recording \/ CommitLease(r) \/ RevokeInstallation(r),
         UNCHANGED <<trail, credentials, served>>
  PROVE  Unrecorded
<1>1. /\ request'[r] = state
      /\ \A q \in Request \ {r} : request'[q] = request[q]
  BY DEF Continue, Complete, TypeOK
<1>2. QED
  BY <1>1 DEF RecordMove, Unrecorded

(* A request that ends records nothing.                                     *)
LEMMA EndUnrecorded ==
  ASSUME Complete, NEW r \in Request, End(r),
         UNCHANGED <<trail, credentials, served>>
  PROVE  Unrecorded
<1>1. Idle.at \notin Recording
  BY DEF Idle, Recording
<1>2. QED
  BY <1>1, ContinueUnrecorded DEF End

(* Every step writes one of three audit events, or records nothing.         *)
LEMMA RecordKinds ==
  ASSUME Complete, [Next]_vars
  PROVE  \/ Unrecorded
         \/ \E r \in Request : \/ AuditLease(r)
                               \/ AuditActivation(r)
                               \/ AuditRevocation(r)
<1>1. ASSUME NEW r \in Request, NEW c \in Code, NEW d \in Deployment,
             ConsumeCode(r, c, d)
      PROVE  Unrecorded
  <2> DEFINE state == [Idle EXCEPT !.at = "insert", !.op = "activate",
                                   !.account = codes[c].account,
                                   !.deployment = d]
  <2>1. state.at = "insert"
    BY IdleType DEF RequestState
  <2>2. Continue(r, state)
    BY <1>1 DEF ConsumeCode
  <2> HIDE DEF state
  <2>3. QED
    BY <1>1, <2>1, <2>2, ContinueUnrecorded DEF ConsumeCode, Recording
<1>2. ASSUME NEW r \in Request, InsertInstallation(r)
      PROVE  Unrecorded
  <2>1. /\ request'[r].at = "entitlement"
        /\ \A q \in Request \ {r} : request'[q] = request[q]
    BY <1>2, InsertEffect
  <2>2. QED
    BY <1>2, <2>1 DEF InsertInstallation, Unrecorded, RecordMove, Recording
<1>3. ASSUME NEW r \in Request,
             RejectInstallation(r) \/ RefuseInactive(r) \/ Fail(r)
      PROVE  Unrecorded
  BY <1>3, EndUnrecorded DEF RejectInstallation, RefuseInactive, Fail
<1>4. ASSUME NEW r \in Request, NEW i \in Installation,
             NEW op \in {"renew", "download"}, LoadInstallation(r, i, op)
      PROVE  Unrecorded
  <2> DEFINE state == [Idle EXCEPT !.at = "entitlement", !.op = op,
                                   !.account = installations[i].account,
                                   !.installation = i]
  <2>1. state.at = "entitlement"
    BY IdleType DEF RequestState
  <2>2. Continue(r, state)
    BY <1>4 DEF LoadInstallation
  <2> HIDE DEF state
  <2>3. QED
    BY <1>4, <2>1, <2>2, ContinueUnrecorded DEF LoadInstallation, Recording
<1>5. ASSUME NEW r \in Request, ReadEntitlement(r)
      PROVE  Unrecorded
  <2> DEFINE state == [request[r] EXCEPT
                         !.at = "allocate",
                         !.seen = entitlement[request[r].account]]
  <2>1. state.at = "allocate"
    BY DEF Complete, TypeOK, RequestState
  <2>2. Continue(r, state) \/ End(r)
    BY <1>5 DEF ReadEntitlement
  <2> HIDE DEF state
  <2>3. QED
    BY <1>5, <2>1, <2>2, ContinueUnrecorded, EndUnrecorded
       DEF ReadEntitlement, Recording
<1>6. ASSUME NEW r \in Request, AllocateSequence(r)
      PROVE  Unrecorded
  <2>0. PICK i : i = request[r].installation
    OBVIOUS
  <2>1. /\ request'[r].at \in {"idle", "commit"}
        /\ \A q \in Request \ {r} : request'[q] = request[q]
    BY <1>6, <2>0, AllocateEffect DEF Idle
  <2>2. QED
    BY <1>6, <2>1 DEF AllocateSequence, Unrecorded, RecordMove, Recording
<1>7. ASSUME NEW r \in Request, CommitLease(r)
      PROVE  Unrecorded
  BY <1>7, ContinueUnrecorded DEF CommitLease
<1>8. ASSUME NEW r \in Request, NEW i \in Installation,
             FindInstallation(r, i)
      PROVE  Unrecorded
  <2> DEFINE state == [Idle EXCEPT !.at = "revoke", !.op = "revoke",
                                   !.installation = i]
  <2>1. state.at = "revoke"
    BY IdleType DEF RequestState
  <2>2. Continue(r, state)
    BY <1>8 DEF FindInstallation
  <2> HIDE DEF state
  <2>3. QED
    BY <1>8, <2>1, <2>2, ContinueUnrecorded DEF FindInstallation, Recording
<1>9. ASSUME NEW r \in Request, RevokeInstallation(r)
      PROVE  Unrecorded
  BY <1>9, ContinueUnrecorded DEF RevokeInstallation
<1>10. ASSUME \/ \E c \in Code : LapseCode(c)
              \/ \E a \in Account : ChangeEntitlement(a)
              \/ UNCHANGED vars
       PROVE  Unrecorded
  BY <1>10 DEF LapseCode, ChangeEntitlement, vars, Unrecorded, RecordMove
<1>11. ASSUME NEW r \in Request, NEW c \in Code, CreateCode(r, c)
       PROVE  Unrecorded
  <2> DEFINE state == [Idle EXCEPT !.at = "auditCode", !.op = "create",
                                   !.code = c]
  <2>1. state.at = "auditCode"
    BY IdleType DEF RequestState
  <2>2. Continue(r, state)
    BY <1>11 DEF CreateCode
  <2> HIDE DEF state
  <2>3. QED
    BY <1>11, <2>1, <2>2, ContinueUnrecorded DEF CreateCode, Recording
<1>12. ASSUME NEW r \in Request, AuditCode(r)
       PROVE  Unrecorded
  BY <1>12, EndUnrecorded DEF AuditCode
<1>13. QED
  BY <1>1, <1>2, <1>3, <1>4, <1>5, <1>6, <1>7, <1>8, <1>9, <1>10, <1>11,
     <1>12 DEF Next, Issue

(* What was recorded or served before a step is still backed after it, and  *)
(* so is what a request that does not move is about to record.              *)
LEMMA RecordsKept ==
  ASSUME IInv, RecordsInv, Kept, trail \subseteq trail'
  PROVE  /\ \A t \in served : /\ leases'[t[1]][t[2]] # "none"
                              /\ <<"lease.issued", t[1], t[2]>> \in trail'
         /\ \A i \in credentials :
              /\ <<"installation.activated", i, 0>> \in trail'
              /\ installations'[i].current # 0
         /\ \A e \in trail :
              /\ e[1] = "lease.issued" => leases'[e[2]][e[3]] # "none"
              /\ e[1] = "installation.activated"
                    => installations'[e[2]].current # 0
              /\ e[1] = "installation.revoked"
                    => installations'[e[2]].status = "revoked"
<1>1. /\ served \subseteq Installation \X Sequences
      /\ credentials \subseteq Installation
      /\ trail \subseteq AuditEvent
  BY DEF IInv, Complete, TypeOK
<1>2. \A t \in served : t[1] \in Installation /\ t[2] \in Sequences
  BY <1>1
<1>3. \A e \in trail : /\ e[2] \in Installation
                       /\ e[1] = "lease.issued" => e[3] \in Sequences
  BY <1>1 DEF AuditEvent
<1>4. QED
  BY <1>1, <1>2, <1>3 DEF RecordsInv, LeasesRecorded, EventsHappened, Kept

(* Every step keeps what served and reported leases rest on.                *)
LEMMA NextRecords == IInv /\ RecordsInv /\ [Next]_vars => RecordsInv'
<1> SUFFICES ASSUME IInv, RecordsInv, [Next]_vars
             PROVE  RecordsInv'
  OBVIOUS
<1>1. Complete /\ Kept
  BY NextKept DEF IInv
<1>2. \A q \in Request :
         /\ request[q].at \notin {"idle", "auditCode", "insert"}
               => request[q].installation \in Installation
         /\ request[q].at \in {"auditLease", "auditActivation"}
               => request[q].sequence \in Sequences
  BY <1>1 DEF Complete, RequestsComplete, Holding
(* A request that stays where it is has what it had.                        *)
<1>3. ASSUME NEW q \in Request, request'[q] = request[q],
             trail \subseteq trail'
      PROVE  LET i == request'[q].installation
                 s == request'[q].sequence
             IN
             /\ request'[q].at \in {"auditLease", "auditActivation"}
                   => leases'[i][s] # "none" /\ installations'[i].current # 0
             /\ request'[q].at = "auditActivation"
                   => <<"lease.issued", i, s>> \in trail'
             /\ request'[q].at = "auditRevocation"
                   => installations'[i].status = "revoked"
  BY <1>1, <1>2, <1>3 DEF RecordsInv, EffectsPrecedeRecords, Kept
<1>4. CASE Unrecorded
  <2>1. LeasesRecorded' /\ EventsHappened'
    BY <1>1, <1>4, RecordsKept DEF Unrecorded, LeasesRecorded, EventsHappened
  <2>2. ASSUME NEW q \in Request
        PROVE  LET i == request'[q].installation
                   s == request'[q].sequence
               IN
               /\ request'[q].at \in {"auditLease", "auditActivation"}
                     => leases'[i][s] # "none" /\ installations'[i].current # 0
               /\ request'[q].at = "auditActivation"
                     => <<"lease.issued", i, s>> \in trail'
               /\ request'[q].at = "auditRevocation"
                     => installations'[i].status = "revoked"
    <3>1. CASE request'[q] = request[q]
      BY <1>3, <1>4, <3>1 DEF Unrecorded
    <3>2. CASE request'[q].at \notin Recording
      BY <3>2 DEF Recording
    <3>3. CASE CommitLease(q)
      <4>0. PICK i, s : i = request[q].installation /\ s = request[q].sequence
        OBVIOUS
      <4>1. /\ s \in Sequences
            /\ leases'[i][s] = "active"
            /\ installations'[i].current = s
            /\ request'[q].at = "auditLease"
            /\ request'[q].installation = i
            /\ request'[q].sequence = s
        BY <1>1, <3>3, <4>0, CommitEffect
      <4>2. QED
        BY <4>1 DEF Sequences
    <3>4. CASE RevokeInstallation(q)
      <4>0. PICK i : i = request[q].installation
        OBVIOUS
      <4>1. /\ installations'[i].status = "revoked"
            /\ request'[q].at = "auditRevocation"
            /\ request'[q].installation = i
        BY <1>1, <3>4, <4>0, RevokeEffect
      <4>2. QED
        BY <4>1
    <3>5. QED
      BY <1>4, <3>1, <3>2, <3>3, <3>4 DEF Unrecorded, RecordMove
  <2>3. QED
    BY <2>1, <2>2 DEF RecordsInv, EffectsPrecedeRecords
<1>5. ASSUME NEW r \in Request, AuditLease(r)
      PROVE  RecordsInv'
  <2> DEFINE i == request[r].installation
             s == request[r].sequence
             state == [request[r] EXCEPT !.at = "auditActivation"]
  <2>1. /\ i \in Installation
        /\ s \in Sequences
        /\ leases[i][s] # "none"
        /\ installations[i].current # 0
    BY <1>2, <1>5 DEF AuditLease, RecordsInv, EffectsPrecedeRecords
  <2>2. /\ leases'[i][s] # "none"
        /\ installations'[i].current # 0
    BY <1>1, <2>1 DEF Kept
  <2>3. /\ trail' = trail \cup {<<"lease.issued", i, s>>}
        /\ served' \subseteq served \cup {<<i, s>>}
        /\ credentials' = credentials
    BY <1>5 DEF AuditLease, Recorded
  <2>4. /\ state.at = "auditActivation"
        /\ state.installation = i
        /\ state.sequence = s
        /\ Idle.at = "idle"
    BY <1>1 DEF Complete, TypeOK, RequestState, Idle
  <2>5. Continue(r, state) \/ Continue(r, Idle)
    BY <1>5 DEF AuditLease, End
  <2> HIDE DEF state, i, s
  <2>6. /\ request'[r].at = "idle"
           \/ /\ request'[r].at = "auditActivation"
              /\ request'[r].installation = i
              /\ request'[r].sequence = s
        /\ \A q \in Request \ {r} : request'[q] = request[q]
    BY <1>1, <2>4, <2>5 DEF Continue, Complete, TypeOK
  <2>7. EffectsPrecedeRecords'
    BY <1>3, <2>2, <2>3, <2>6 DEF EffectsPrecedeRecords
  <2>8. LeasesRecorded' /\ EventsHappened'
    BY <1>1, <2>2, <2>3, RecordsKept DEF LeasesRecorded, EventsHappened
  <2>9. QED
    BY <2>7, <2>8 DEF RecordsInv
<1>6. ASSUME NEW r \in Request, AuditActivation(r)
      PROVE  RecordsInv'
  <2> DEFINE i == request[r].installation
             s == request[r].sequence
  <2>1. /\ i \in Installation
        /\ s \in Sequences
        /\ leases[i][s] # "none"
        /\ installations[i].current # 0
        /\ <<"lease.issued", i, s>> \in trail
    BY <1>2, <1>6 DEF AuditActivation, RecordsInv, EffectsPrecedeRecords
  <2>2. /\ leases'[i][s] # "none"
        /\ installations'[i].current # 0
    BY <1>1, <2>1 DEF Kept
  <2>3. /\ trail' = trail \cup {<<"installation.activated", i, 0>>}
        /\ served' \subseteq served \cup {<<i, s>>}
        /\ credentials' \subseteq credentials \cup {i}
    BY <1>6 DEF AuditActivation, Recorded
  <2>4. /\ request'[r].at = "idle"
        /\ \A q \in Request \ {r} : request'[q] = request[q]
    BY <1>1, <1>6 DEF AuditActivation, End, Continue, Idle, Complete, TypeOK
  <2> HIDE DEF i, s
  <2>5. EffectsPrecedeRecords'
    BY <1>3, <2>3, <2>4 DEF EffectsPrecedeRecords
  <2>6. LeasesRecorded' /\ EventsHappened'
    BY <1>1, <2>1, <2>2, <2>3, RecordsKept DEF LeasesRecorded, EventsHappened
  <2>7. QED
    BY <2>5, <2>6 DEF RecordsInv
<1>7. ASSUME NEW r \in Request, AuditRevocation(r)
      PROVE  RecordsInv'
  <2> DEFINE i == request[r].installation
  <2>1. i \in Installation /\ installations[i].status = "revoked"
    BY <1>2, <1>7 DEF AuditRevocation, RecordsInv, EffectsPrecedeRecords
  <2>2. installations'[i].status = "revoked"
    BY <1>1, <2>1 DEF Kept
  <2>3. /\ trail' = trail \cup {<<"installation.revoked", i, 0>>}
        /\ UNCHANGED <<credentials, served>>
    BY <1>7 DEF AuditRevocation, Recorded
  <2>4. /\ request'[r].at = "idle"
        /\ \A q \in Request \ {r} : request'[q] = request[q]
    BY <1>1, <1>7 DEF AuditRevocation, End, Continue, Idle, Complete, TypeOK
  <2> HIDE DEF i
  <2>5. EffectsPrecedeRecords'
    BY <1>3, <2>3, <2>4 DEF EffectsPrecedeRecords
  <2>6. LeasesRecorded' /\ EventsHappened'
    BY <1>1, <2>2, <2>3, RecordsKept DEF LeasesRecorded, EventsHappened
  <2>7. QED
    BY <2>5, <2>6 DEF RecordsInv
<1>8. QED
  BY <1>1, <1>4, <1>5, <1>6, <1>7, RecordKinds

(* What served and reported leases rest on holds always.                    *)
LEMMA RecordsInvariance == Spec => []RecordsInv
<1>1. Init => RecordsInv
  BY DEF Init, RecordsInv, EffectsPrecedeRecords, LeasesRecorded,
     EventsHappened, Idle
<1>2. QED
  BY <1>1, Invariance, NextRecords, PTL DEF Spec

(* A code that a request is about to report has a row.                      *)
CodesInv ==
    /\ \A r \in Request :
         request[r].at = "auditCode" => codes[request[r].code].status # "none"
    /\ CodesRecorded
    /\ CodesCreated

(* A step leaves each request as it was, or where it reports no code.       *)
Uncoded ==
    /\ UNCHANGED <<codes, created, known>>
    /\ \A q \in Request :
         request'[q] = request[q] \/ request'[q].at # "auditCode"

(* A request that goes on without a code.                                   *)
LEMMA ContinueUncoded ==
  ASSUME Complete, NEW r \in Request, NEW state, Continue(r, state),
         state.at # "auditCode", UNCHANGED <<codes, created, known>>
  PROVE  Uncoded
<1>1. /\ request'[r] = state
      /\ \A q \in Request \ {r} : request'[q] = request[q]
  BY DEF Continue, Complete, TypeOK
<1>2. QED
  BY <1>1 DEF Uncoded

(* Every step is one of four that write codes, or touches none.             *)
LEMMA CodeKinds ==
  ASSUME Complete, [Next]_vars
  PROVE  \/ Uncoded
         \/ \E c \in Code : LapseCode(c)
         \/ \E r \in Request :
              \/ \E c \in Code : CreateCode(r, c)
              \/ AuditCode(r)
              \/ \E c \in Code, d \in Deployment : ConsumeCode(r, c, d)
<1>0. Idle.at # "auditCode"
  BY DEF Idle
<1>1. ASSUME NEW r \in Request,
             \/ RejectInstallation(r) \/ RefuseInactive(r) \/ Fail(r)
             \/ AuditActivation(r) \/ AuditRevocation(r)
      PROVE  Uncoded
  <2>1. Continue(r, Idle) /\ UNCHANGED <<codes, created, known>>
    BY <1>1 DEF RejectInstallation, RefuseInactive, Fail, AuditActivation,
                AuditRevocation, End
  <2>2. QED
    BY <1>0, <2>1, ContinueUncoded
<1>2. ASSUME NEW r \in Request, InsertInstallation(r)
      PROVE  Uncoded
  <2>1. PICK i \in Installation :
          Continue(r, [request[r] EXCEPT !.at = "entitlement",
                                         !.installation = i])
    BY <1>2 DEF InsertInstallation
  <2> DEFINE state == [request[r] EXCEPT !.at = "entitlement",
                                         !.installation = i]
  <2>2. state.at # "auditCode"
    BY DEF Complete, TypeOK, RequestState
  <2>3. Continue(r, state) /\ UNCHANGED <<codes, created, known>>
    BY <1>2, <2>1 DEF InsertInstallation
  <2> HIDE DEF state
  <2>4. QED
    BY <2>2, <2>3, ContinueUncoded
<1>3. ASSUME NEW r \in Request, NEW i \in Installation,
             NEW op \in {"renew", "download"},
             LoadInstallation(r, i, op) \/ FindInstallation(r, i)
      PROVE  Uncoded
  <2>1. \/ Continue(r, [Idle EXCEPT !.at = "entitlement", !.op = op,
                                    !.account = installations[i].account,
                                    !.installation = i])
        \/ Continue(r, [Idle EXCEPT !.at = "revoke", !.op = "revoke",
                                    !.installation = i])
    BY <1>3 DEF LoadInstallation, FindInstallation
  <2>2. PICK state : Continue(r, state) /\ state.at # "auditCode"
    <3>1. [Idle EXCEPT !.at = "entitlement", !.op = op,
                       !.account = installations[i].account,
                       !.installation = i].at # "auditCode"
      BY DEF Idle
    <3>2. [Idle EXCEPT !.at = "revoke", !.op = "revoke",
                       !.installation = i].at # "auditCode"
      BY DEF Idle
    <3>3. QED
      BY <2>1, <3>1, <3>2
  <2>3. UNCHANGED <<codes, created, known>>
    BY <1>3 DEF LoadInstallation, FindInstallation
  <2>4. QED
    BY <2>2, <2>3, ContinueUncoded
<1>4. ASSUME NEW r \in Request, ReadEntitlement(r) \/ AuditLease(r)
      PROVE  Uncoded
  <2> DEFINE found == [request[r] EXCEPT
                         !.at = "allocate",
                         !.seen = entitlement[request[r].account]]
             audited == [request[r] EXCEPT !.at = "auditActivation"]
  <2>1. found.at # "auditCode" /\ audited.at # "auditCode"
    BY DEF Complete, TypeOK, RequestState
  <2>2. Continue(r, found) \/ Continue(r, audited) \/ Continue(r, Idle)
    BY <1>4 DEF ReadEntitlement, AuditLease, End
  <2>3. UNCHANGED <<codes, created, known>>
    BY <1>4 DEF ReadEntitlement, AuditLease
  <2> HIDE DEF found, audited
  <2>4. QED
    BY <1>0, <2>1, <2>2, <2>3, ContinueUncoded
<1>5. ASSUME NEW r \in Request, AllocateSequence(r)
      PROVE  Uncoded
  <2> DEFINE state == [request[r] EXCEPT
               !.at = "commit",
               !.sequence = installations[request[r].installation].last + 1]
  <2>1. state.at # "auditCode"
    BY DEF Complete, TypeOK, RequestState
  <2>2. Continue(r, state) \/ Continue(r, Idle)
    BY <1>5 DEF AllocateSequence, End
  <2>3. UNCHANGED <<codes, created, known>>
    BY <1>5 DEF AllocateSequence
  <2> HIDE DEF state
  <2>4. QED
    BY <1>0, <2>1, <2>2, <2>3, ContinueUncoded
<1>6. ASSUME NEW r \in Request, CommitLease(r) \/ RevokeInstallation(r)
      PROVE  Uncoded
  <2> DEFINE committed == [request[r] EXCEPT !.at = "auditLease"]
             revoked == [request[r] EXCEPT !.at = "auditRevocation"]
  <2>1. committed.at # "auditCode" /\ revoked.at # "auditCode"
    BY DEF Complete, TypeOK, RequestState
  <2>2. Continue(r, committed) \/ Continue(r, revoked)
    BY <1>6 DEF CommitLease, RevokeInstallation
  <2>3. UNCHANGED <<codes, created, known>>
    BY <1>6 DEF CommitLease, RevokeInstallation
  <2> HIDE DEF committed, revoked
  <2>4. QED
    BY <2>1, <2>2, <2>3, ContinueUncoded
<1>7. ASSUME (\E a \in Account : ChangeEntitlement(a)) \/ UNCHANGED vars
      PROVE  Uncoded
  BY <1>7 DEF ChangeEntitlement, vars, Uncoded
<1>8. QED
  BY <1>1, <1>2, <1>3, <1>4, <1>5, <1>6, <1>7 DEF Next, Issue

(* Each of the steps that write codes keeps what their records rest on.     *)
LEMMA CodesStep == Complete /\ CodesInv /\ [Next]_vars => CodesInv'
<1> SUFFICES ASSUME Complete, CodesInv, [Next]_vars
             PROVE  CodesInv'
  OBVIOUS
<1> USE DEF CodesInv, CodesRecorded, CodesCreated
<1>0. /\ codes \in [Code -> CodeRow]
      /\ request \in [Request -> RequestState]
      /\ created \subseteq Code /\ known \subseteq Code
      /\ \A r \in Request : request[r].at = "auditCode"
                               => request[r].code \in Code
  BY DEF Complete, TypeOK, RequestsComplete, Holding
<1>1. CASE Uncoded
  BY <1>1 DEF Uncoded
<1>2. ASSUME NEW c \in Code, LapseCode(c)
      PROVE  CodesInv'
  <2>1. /\ codes[c].status = "unused" /\ codes'[c].status = "lapsed"
        /\ \A k \in Code \ {c} : codes'[k] = codes[k]
        /\ UNCHANGED <<created, known, request>>
    BY <1>0, <1>2 DEF LapseCode, CodeRow
  <2>2. QED
    BY <1>0, <2>1
<1>3. ASSUME NEW r \in Request, NEW c \in Code, CreateCode(r, c)
      PROVE  CodesInv'
  <2>1. /\ codes[c].status = "none" /\ codes'[c].status = "unused"
        /\ \A k \in Code \ {c} : codes'[k] = codes[k]
        /\ UNCHANGED <<created, known>>
    BY <1>0, <1>3 DEF CreateCode, CodeRow
  <2>2. /\ request'[r].code = c
        /\ \A q \in Request \ {r} : request'[q] = request[q]
    <3> DEFINE state == [Idle EXCEPT !.at = "auditCode", !.op = "create",
                                     !.code = c]
    <3>1. state.code = c
      BY DEF Idle
    <3>2. Continue(r, state)
      BY <1>3 DEF CreateCode
    <3> HIDE DEF state
    <3>3. QED
      BY <1>0, <3>1, <3>2 DEF Continue
  <2>3. QED
    BY <1>0, <2>1, <2>2
<1>4. ASSUME NEW r \in Request, AuditCode(r)
      PROVE  CodesInv'
  <2>1. PICK c \in Code : c = request[r].code
    BY <1>0, <1>4 DEF AuditCode
  <2>2. /\ codes[c].status # "none" /\ UNCHANGED codes
        /\ created' = created \cup {c}
        /\ known' \in {known, known \cup {c}}
    BY <1>4, <2>1 DEF AuditCode
  <2>3. /\ request'[r] = Idle
        /\ \A q \in Request \ {r} : request'[q] = request[q]
    BY <1>0, <1>4 DEF AuditCode, End, Continue
  <2>4. QED
    BY <1>0, <2>2, <2>3 DEF Idle
<1>5. ASSUME NEW r \in Request, NEW c \in Code, NEW d \in Deployment,
             ConsumeCode(r, c, d)
      PROVE  CodesInv'
  <2>1. /\ c \in known /\ codes'[c].status = "used"
        /\ \A k \in Code \ {c} : codes'[k] = codes[k]
        /\ UNCHANGED <<created, known>>
    BY <1>0, <1>5 DEF ConsumeCode, CodeRow
  <2>2. /\ request'[r].at # "auditCode"
        /\ \A q \in Request \ {r} : request'[q] = request[q]
    <3> DEFINE state == [Idle EXCEPT !.at = "insert", !.op = "activate",
                                     !.account = codes[c].account,
                                     !.deployment = d]
    <3>1. state.at # "auditCode"
      BY DEF Idle
    <3>2. Continue(r, state)
      BY <1>5 DEF ConsumeCode
    <3> HIDE DEF state
    <3>3. QED
      BY <1>0, <3>1, <3>2 DEF Continue
  <2>3. QED
    BY <1>0, <2>1, <2>2
<1>6. QED
  BY <1>1, <1>2, <1>3, <1>4, <1>5, CodeKinds

(* What the records of codes rest on holds always.                          *)
LEMMA CodesInvariance == Spec => []CodesInv
<1>1. Init => CodesInv
  BY DEF Init, CodesInv, CodesRecorded, CodesCreated, Idle
<1>2. QED
  BY <1>1, InitComplete, NextComplete, CodesStep, PTL DEF Spec

(* Every code, token and credential that left the service has its row and   *)
(* its audit events, whatever failed on the way.                            *)
THEOREM Served == Spec => []ServedIsRecorded
<1>1. RecordsInv /\ CodesInv => ServedIsRecorded
  BY DEF RecordsInv, CodesInv, ServedIsRecorded
<1>2. QED
  BY <1>1, RecordsInvariance, CodesInvariance, PTL

(* The audit trail says only what was done, wherever requests are stopped.  *)
THEOREM Trail == Spec => []TrailIsTrue
<1>1. RecordsInv /\ CodesInv => TrailIsTrue
  BY DEF RecordsInv, CodesInv, TrailIsTrue
<1>2. QED
  BY <1>1, RecordsInvariance, CodesInvariance, PTL

-----------------------------------------------------------------------------
(* The tables implement the ledger.                                         *)

(* The initial state is an initial state of the ledger.                     *)
LEMMA LedgerInit == Init => Ledger!Init
  BY DEF Init, Ledger!Init, NoRow, LedgerState, LedgerLicense, Sequences,
     Ledger!Number

(* The mapped variables, named.                                             *)
AbsState == [i \in Installation |-> LedgerState(installations[i].status)]
AbsTaken == [i \in Installation |-> installations[i].last]
AbsLicense == [i \in Installation |->
                 [n \in Sequences |-> LedgerLicense(leases[i][n])]]

(* How the ledger sees the status of an installation.                       *)
LEMMA LedgerStates ==
  /\ LedgerState("none") = "absent"
  /\ LedgerState("active") = "open"
  /\ LedgerState("revoked") = "closed"
  BY DEF LedgerState

(* An insertion is the ledger's registration.                               *)
LEMMA LedgerRegister ==
  ASSUME IInv, NEW r \in Request, InsertInstallation(r)
  PROVE  \E i \in Installation : Ledger!Register(i)
<1>1. PICK i \in Installation :
        /\ installations[i] = NoRow
        /\ installations'[i].status = "active"
        /\ installations'[i].last = 0
        /\ \A j \in Installation \ {i} : installations'[j] = installations[j]
        /\ leases' = leases
  BY InsertEffect DEF IInv
<1>2. installations[i].status = "none" /\ installations[i].last = 0
  BY <1>1 DEF NoRow
<1>3. /\ AbsState[i] = "absent"
      /\ AbsState' = [AbsState EXCEPT ![i] = "open"]
      /\ AbsTaken' = AbsTaken
      /\ AbsLicense' = AbsLicense
  <2>1. AbsState[i] = "absent"
    BY <1>2, LedgerStates DEF AbsState
  <2>2. AbsState' = [AbsState EXCEPT ![i] = "open"]
    BY <1>1, LedgerStates DEF AbsState
  <2>3. AbsTaken' = AbsTaken
    BY <1>1, <1>2 DEF AbsTaken
  <2>4. QED
    BY <1>1, <2>1, <2>2, <2>3 DEF AbsLicense
<1>4. QED
  BY <1>3 DEF Ledger!Register, AbsState, AbsTaken, AbsLicense

(* Taking a number is the ledger's.                                         *)
LEMMA LedgerTake ==
  ASSUME IInv, NEW r \in Request, AllocateSequence(r)
  PROVE  \E i \in Installation : Ledger!Take(i)
<1>0. PICK i : i = request[r].installation
  OBVIOUS
<1>1. /\ i \in Installation
      /\ installations[i].status = "active"
      /\ installations'[i].status = "active"
      /\ installations[i].last < MaxSequence
      /\ installations'[i].last = installations[i].last + 1
      /\ \A j \in Installation \ {i} : installations'[j] = installations[j]
      /\ leases' = leases
  BY <1>0, AllocateEffect DEF IInv
<1>2. /\ AbsState[i] = "open"
      /\ AbsTaken[i] < MaxSequence
      /\ AbsTaken' = [AbsTaken EXCEPT ![i] = AbsTaken[i] + 1]
      /\ AbsState' = AbsState
      /\ AbsLicense' = AbsLicense
  <2>1. AbsState[i] = "open"
    BY <1>1, LedgerStates DEF AbsState
  <2>2. AbsState' = AbsState
    BY <1>1 DEF AbsState
  <2>3. /\ AbsTaken[i] < MaxSequence
        /\ AbsTaken' = [AbsTaken EXCEPT ![i] = AbsTaken[i] + 1]
    BY <1>1 DEF AbsTaken
  <2>4. QED
    BY <1>1, <2>1, <2>2, <2>3 DEF AbsLicense
<1>3. QED
  BY <1>1, <1>2 DEF Ledger!Take, AbsState, AbsTaken, AbsLicense

(* A committed lease is the ledger's issue.                                 *)
LEMMA LedgerIssue ==
  ASSUME IInv, NEW r \in Request, CommitLease(r)
  PROVE  \E i \in Installation, n \in Ledger!Number : Ledger!Issue(i, n)
<1>0. PICK i, s : i = request[r].installation /\ s = request[r].sequence
  OBVIOUS
<1>1. /\ i \in Installation
      /\ s \in Sequences
      /\ Holds(r, i, s)
      /\ leases[i][s] = "none"
      /\ leases'[i][s] = "active"
      /\ \A n \in Sequences \ {s} : leases'[i][n] =
           IF leases[i][n] = "active" THEN "superseded" ELSE leases[i][n]
      /\ \A j \in Installation \ {i} : leases'[j] = leases[j]
      /\ installations'[i].status = installations[i].status
      /\ installations'[i].last = installations[i].last
      /\ \A j \in Installation \ {i} : installations'[j] = installations[j]
  BY <1>0, CommitEffect DEF IInv
<1>2. s <= AbsTaken[i]
  BY <1>1 DEF IInv, SequenceHasOneOwner, AbsTaken
<1>3. AbsLicense[i][s] = "unissued"
  BY <1>1 DEF AbsLicense, LedgerLicense
<1>4. AbsState' = AbsState /\ AbsTaken' = AbsTaken
  BY <1>1 DEF AbsState, AbsTaken
<1>5. \A n \in Sequences : leases[i][n] \in LeaseStatus
  BY <1>1 DEF IInv, Complete, TypeOK
<1>6. \A n \in Sequences : LedgerLicense(leases'[i][n]) =
         IF n = s THEN "valid"
         ELSE IF LedgerLicense(leases[i][n]) = "valid" THEN "void"
         ELSE LedgerLicense(leases[i][n])
  BY <1>1, <1>5 DEF LedgerLicense, LeaseStatus
<1> DEFINE voided == [n \in Sequences |->
                        IF AbsLicense[i][n] = "valid" THEN "void"
                        ELSE AbsLicense[i][n]]
<1>7. AbsLicense'[i] = [voided EXCEPT ![s] = "valid"]
  BY <1>1, <1>6 DEF AbsLicense
<1>8. AbsLicense' = [AbsLicense EXCEPT ![i] = [voided EXCEPT ![s] = "valid"]]
  BY <1>1, <1>7 DEF AbsLicense
<1>9. s \in Ledger!Number
  BY <1>1 DEF Ledger!Number, Sequences
<1>10. QED
  BY <1>1, <1>2, <1>3, <1>4, <1>8, <1>9 DEF Ledger!Issue, Ledger!Voided,
     Ledger!Number, Sequences, AbsState, AbsTaken, AbsLicense

(* A revocation is the ledger's close.                                      *)
LEMMA LedgerClose ==
  ASSUME IInv, NEW r \in Request, RevokeInstallation(r)
  PROVE  \E i \in Installation : Ledger!Close(i)
<1>0. PICK i : i = request[r].installation
  OBVIOUS
<1>1. /\ i \in Installation
      /\ installations'[i].status = "revoked"
      /\ installations'[i].last = installations[i].last
      /\ \A j \in Installation \ {i} : installations'[j] = installations[j]
      /\ \A n \in Sequences : leases'[i][n] =
           IF leases[i][n] = "active" THEN "revoked" ELSE leases[i][n]
      /\ \A j \in Installation \ {i} : leases'[j] = leases[j]
  BY <1>0, RevokeEffect DEF IInv
<1>2. installations[i].status \in {"active", "revoked"}
  BY <1>0, <1>1 DEF RevokeInstallation, IInv, RegisteredFirst, Complete,
     TypeOK, InstallationRow
<1>3. /\ AbsState[i] # "absent"
      /\ AbsState' = [AbsState EXCEPT ![i] = "closed"]
      /\ AbsTaken' = AbsTaken
  <2>1. AbsState[i] # "absent"
    BY <1>1, <1>2, LedgerStates DEF AbsState
  <2>2. AbsState' = [AbsState EXCEPT ![i] = "closed"]
    BY <1>1, LedgerStates DEF AbsState
  <2>3. AbsTaken' = AbsTaken
    BY <1>1 DEF AbsTaken
  <2>4. QED
    BY <2>1, <2>2, <2>3
<1>4. \A n \in Sequences : leases[i][n] \in LeaseStatus
  BY <1>1 DEF IInv, Complete, TypeOK
<1>5. \A n \in Sequences : LedgerLicense(leases'[i][n]) =
         IF LedgerLicense(leases[i][n]) = "valid" THEN "void"
         ELSE LedgerLicense(leases[i][n])
  BY <1>1, <1>4 DEF LedgerLicense, LeaseStatus
<1> DEFINE voided == [n \in Sequences |->
                        IF AbsLicense[i][n] = "valid" THEN "void"
                        ELSE AbsLicense[i][n]]
<1>6. AbsLicense' = [AbsLicense EXCEPT ![i] = voided]
  BY <1>1, <1>5 DEF AbsLicense
<1>7. QED
  BY <1>1, <1>3, <1>6 DEF Ledger!Close, Ledger!Voided, Ledger!Number,
     Sequences, AbsState, AbsTaken, AbsLicense

(* Every step of the requests is a step of the ledger or leaves it alone.   *)
LEMMA LedgerStep == IInv /\ [Next]_vars => [Ledger!Next]_(Ledger!vars)
<1> SUFFICES ASSUME IInv, [Next]_vars
             PROVE  [Ledger!Next]_(Ledger!vars)
  OBVIOUS
<1>1. CASE Quiet
  BY <1>1 DEF Quiet, Ledger!vars
<1>2. ASSUME NEW r \in Request,
             \/ InsertInstallation(r) \/ AllocateSequence(r)
             \/ CommitLease(r) \/ RevokeInstallation(r)
      PROVE  Ledger!Next
  BY <1>2, LedgerRegister, LedgerTake, LedgerIssue, LedgerClose
     DEF Ledger!Next
<1>3. QED
  BY <1>1, <1>2, StepKinds DEF IInv

(* Lease issuance implements the ledger of numbered licenses.               *)
THEOREM Implementation == Spec => ImplementsLedger
  BY LedgerInit, LedgerStep, Invariance, PTL
     DEF Spec, ImplementsLedger, Ledger!Spec

=============================================================================
