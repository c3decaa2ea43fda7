----------------------- MODULE ActivationCodesProofs -----------------------
(***************************************************************************)
(* A code activates once: the count behind OneInstallationPerCode of       *)
(* LeaseIssuance, for any finite numbers of codes, installations and       *)
(* requests, and any number of accounts and deployments.                   *)
(***************************************************************************)
EXTENDS LeaseIssuanceProofs, FiniteSetTheorems

(* What an account has: installations, requests about to insert one, and    *)
(* codes of its own that were used.                                         *)
Registered(a) == {i \in Installation : installations[i].account = a}

Inserting(a) == {r \in Request : /\ request[r].at = "insert"
                                 /\ request[r].account = a}

UsedOf(a) == {c \in Code : codes[c].status = "used" /\ codes[c].account = a}

Covered(a) == Cardinality(Registered(a)) + Cardinality(Inserting(a))
                <= Cardinality(UsedOf(a))

(* The three sets are finite.                                               *)
LEMMA PartiesFinite ==
  ASSUME NEW a
  PROVE  /\ IsFiniteSet(Registered(a)) /\ Cardinality(Registered(a)) \in Nat
         /\ IsFiniteSet(Inserting(a)) /\ Cardinality(Inserting(a)) \in Nat
         /\ IsFiniteSet(UsedOf(a)) /\ Cardinality(UsedOf(a)) \in Nat
<1>1. /\ Registered(a) \in SUBSET Installation
      /\ Inserting(a) \in SUBSET Request
      /\ UsedOf(a) \in SUBSET Code
  BY DEF Registered, Inserting, UsedOf
<1>2. IsFiniteSet(Code) /\ IsFiniteSet(Installation) /\ IsFiniteSet(Request)
  BY FiniteParties
<1>3. IsFiniteSet(Registered(a)) /\ IsFiniteSet(Inserting(a))
        /\ IsFiniteSet(UsedOf(a))
  BY <1>1, <1>2, FS_Subset
<1>4. QED
  BY <1>3, FS_CardinalityType

(* They are finite in the next state too.                                   *)
LEMMA PartiesFiniteNext ==
  ASSUME NEW a
  PROVE  /\ IsFiniteSet(Registered(a)') /\ Cardinality(Registered(a)') \in Nat
         /\ IsFiniteSet(Inserting(a)') /\ Cardinality(Inserting(a)') \in Nat
         /\ IsFiniteSet(UsedOf(a)') /\ Cardinality(UsedOf(a)') \in Nat
<1>1. /\ Registered(a)' \in SUBSET Installation
      /\ Inserting(a)' \in SUBSET Request
      /\ UsedOf(a)' \in SUBSET Code
  BY DEF Registered, Inserting, UsedOf
<1>2. IsFiniteSet(Code) /\ IsFiniteSet(Installation) /\ IsFiniteSet(Request)
  BY FiniteParties
<1>3. IsFiniteSet(Registered(a)') /\ IsFiniteSet(Inserting(a)')
        /\ IsFiniteSet(UsedOf(a)')
  BY <1>1, <1>2, FS_Subset
<1>4. QED
  BY <1>3, FS_CardinalityType

(* A step that adds no installation and no insertion to an account and      *)
(* takes no used code from it.                                              *)
Idling(a) ==
    /\ Registered(a)' \subseteq Registered(a)
    /\ Inserting(a)' \subseteq Inserting(a)
    /\ UsedOf(a) \subseteq UsedOf(a)'

(* Such a step keeps the count.                                             *)
LEMMA IdlingCovered ==
  ASSUME NEW a, Covered(a), Idling(a)
  PROVE  Covered(a)'
<1>1. Cardinality(Registered(a)') <= Cardinality(Registered(a))
  <2>1. Registered(a)' \in SUBSET Registered(a)
    BY DEF Idling
  <2>2. QED
    BY <2>1, PartiesFinite, FS_Subset
<1>2. Cardinality(Inserting(a)') <= Cardinality(Inserting(a))
  <2>1. Inserting(a)' \in SUBSET Inserting(a)
    BY DEF Idling
  <2>2. QED
    BY <2>1, PartiesFinite, FS_Subset
<1>3. Cardinality(UsedOf(a)) <= Cardinality(UsedOf(a)')
  <2>1. UsedOf(a) \in SUBSET (UsedOf(a)')
    BY DEF Idling
  <2>2. QED
    BY <2>1, PartiesFiniteNext, FS_Subset
<1>4. /\ Cardinality(Registered(a)) \in Nat
      /\ Cardinality(Inserting(a)) \in Nat
      /\ Cardinality(UsedOf(a)) \in Nat
      /\ Cardinality(Registered(a)') \in Nat
      /\ Cardinality(Inserting(a)') \in Nat
      /\ Cardinality(UsedOf(a)') \in Nat
  BY PartiesFinite, PartiesFiniteNext
<1>5. QED
  BY <1>1, <1>2, <1>3, <1>4 DEF Covered

(* A step that leaves every other request alone, and this one with nothing  *)
(* to insert, inserts for no account.                                       *)
LEMMA NoneInserting ==
  ASSUME Complete, NEW r \in Request, NEW state, Continue(r, state),
         state.at # "insert", NEW a
  PROVE  Inserting(a)' \subseteq Inserting(a)
<1>1. /\ request'[r] = state
      /\ \A q \in Request \ {r} : request'[q] = request[q]
  BY DEF Continue, Complete, TypeOK
<1>2. ASSUME NEW q \in Inserting(a)'
      PROVE  q \in Inserting(a)
  BY <1>1 DEF Inserting
<1>3. QED
  BY <1>2

(* A request that ends inserts nothing.                                     *)
LEMMA EndInserting ==
  ASSUME Complete, NEW r \in Request, End(r), NEW a
  PROVE  Inserting(a)' \subseteq Inserting(a)
<1>1. Idle.at # "insert"
  BY DEF Idle
<1>2. QED
  BY <1>1, NoneInserting DEF End

(* A row of installations that changes keeps its account.                   *)
LEMMA AccountsKept ==
  ASSUME Complete, NEW a,
         \A i \in Installation : installations'[i].account
                                   = installations[i].account
  PROVE  Registered(a)' \subseteq Registered(a)
BY DEF Registered

-----------------------------------------------------------------------------
(* The two steps that count, and the others.                                *)

(* A code is used for the request that took it: one more of each.           *)
LEMMA ConsumeCovered ==
  ASSUME Complete, NEW r \in Request, NEW c \in Code, NEW d \in Deployment,
         ConsumeCode(r, c, d), NEW a, Covered(a)
  PROVE  Covered(a)'
<1>1. /\ request[r].at = "idle" /\ codes[c].status = "unused"
      /\ UNCHANGED installations
  BY DEF ConsumeCode, Usable, Idle
<1>2. /\ request'[r].at = "insert"
      /\ request'[r].account = codes[c].account
      /\ \A q \in Request \ {r} : request'[q] = request[q]
  <2> DEFINE state == [Idle EXCEPT !.at = "insert", !.op = "activate",
                                   !.account = codes[c].account,
                                   !.deployment = d]
  <2>1. Continue(r, state)
    BY DEF ConsumeCode
  <2>2. state.at = "insert" /\ state.account = codes[c].account
    BY DEF Idle
  <2> HIDE DEF state
  <2>3. QED
    BY <2>1, <2>2 DEF Continue, Complete, TypeOK
<1>3. /\ codes'[c].status = "used" /\ codes'[c].account = codes[c].account
      /\ \A k \in Code \ {c} : codes'[k] = codes[k]
  BY DEF ConsumeCode, Complete, TypeOK, CodeRow
<1>4. Registered(a)' = Registered(a)
  BY <1>1 DEF Registered
<1>5. CASE codes[c].account = a
  <2>1. Inserting(a)' = Inserting(a) \cup {r} /\ r \notin Inserting(a)
    BY <1>1, <1>2, <1>5 DEF Inserting
  <2>2. UsedOf(a)' = UsedOf(a) \cup {c} /\ c \notin UsedOf(a)
    BY <1>1, <1>3, <1>5 DEF UsedOf
  <2>3. Cardinality(Inserting(a)') = Cardinality(Inserting(a)) + 1
    BY <2>1, PartiesFinite, FS_AddElement
  <2>4. Cardinality(UsedOf(a)') = Cardinality(UsedOf(a)) + 1
    BY <2>2, PartiesFinite, FS_AddElement
  <2>5. /\ Cardinality(Registered(a)) \in Nat
        /\ Cardinality(Inserting(a)) \in Nat
        /\ Cardinality(UsedOf(a)) \in Nat
    BY PartiesFinite
  <2>6. Cardinality(Registered(a)') = Cardinality(Registered(a))
    BY <1>4
  <2>7. QED
    BY <2>3, <2>4, <2>5, <2>6 DEF Covered
<1>6. CASE codes[c].account # a
  <2>1. Inserting(a)' = Inserting(a)
    BY <1>1, <1>2, <1>6 DEF Inserting
  <2>2. UsedOf(a)' = UsedOf(a)
    BY <1>1, <1>3, <1>6 DEF UsedOf
  <2>3. QED
    BY <1>4, <2>1, <2>2, IdlingCovered DEF Idling
<1>7. QED
  BY <1>5, <1>6

(* An insertion becomes an installation: one less, one more.                *)
LEMMA InsertCovered ==
  ASSUME Complete, NEW r \in Request, InsertInstallation(r),
         NEW a \in Account, Covered(a)
  PROVE  Covered(a)'
<1>1. request[r].at = "insert" /\ UNCHANGED codes
  BY DEF InsertInstallation
<1>2. PICK i \in Installation :
        /\ installations[i] = NoRow
        /\ installations' = [installations EXCEPT ![i] =
              [NoRow EXCEPT !.status = "active",
                            !.account = request[r].account,
                            !.deployment = request[r].deployment]]
        /\ Continue(r, [request[r] EXCEPT !.at = "entitlement",
                                          !.installation = i])
  BY DEF InsertInstallation
<1>3. /\ installations[i].account = None
      /\ installations'[i].account = request[r].account
      /\ \A j \in Installation \ {i} : installations'[j] = installations[j]
  BY <1>2 DEF NoRow, Complete, TypeOK
<1>4. /\ request'[r].at = "entitlement"
      /\ \A q \in Request \ {r} : request'[q] = request[q]
  <2>1. request[r] \in RequestState
    BY DEF Complete, TypeOK
  <2>2. [request[r] EXCEPT !.at = "entitlement", !.installation = i].at
          = "entitlement"
    BY <2>1 DEF RequestState
  <2>3. QED
    BY <1>2, <2>2 DEF Continue, Complete, TypeOK
<1>5. UsedOf(a)' = UsedOf(a)
  BY <1>1 DEF UsedOf
<1>6. None # a
  BY NoneIsNoValue
<1>7. CASE request[r].account = a
  <2>1. Registered(a)' = Registered(a) \cup {i} /\ i \notin Registered(a)
    BY <1>3, <1>6, <1>7 DEF Registered
  <2>2. Inserting(a)' = Inserting(a) \ {r} /\ r \in Inserting(a)
    BY <1>1, <1>4, <1>7 DEF Inserting
  <2>3. Cardinality(Registered(a)') = Cardinality(Registered(a)) + 1
    BY <2>1, PartiesFinite, FS_AddElement
  <2>4. Cardinality(Inserting(a)') = Cardinality(Inserting(a)) - 1
    BY <2>2, PartiesFinite, FS_RemoveElement
  <2>5. /\ Cardinality(Registered(a)) \in Nat
        /\ Cardinality(Inserting(a)) \in Nat
        /\ Cardinality(UsedOf(a)) \in Nat
    BY PartiesFinite
  <2>6. Cardinality(UsedOf(a)') = Cardinality(UsedOf(a))
    BY <1>5
  <2>7. QED
    BY <2>3, <2>4, <2>5, <2>6 DEF Covered
<1>8. CASE request[r].account # a
  <2>1. Registered(a)' = Registered(a)
    BY <1>3, <1>6, <1>8 DEF Registered
  <2>2. Inserting(a)' = Inserting(a)
    BY <1>1, <1>4, <1>8 DEF Inserting
  <2>3. QED
    BY <1>5, <2>1, <2>2, IdlingCovered DEF Idling
<1>9. QED
  BY <1>7, <1>8

(* No other step of a request, nor of the clock or the entitlement, counts. *)
LEMMA OtherSteps ==
  ASSUME Complete, [Next]_vars, NEW a,
         ~\E r \in Request : InsertInstallation(r),
         ~\E r \in Request, c \in Code, d \in Deployment : ConsumeCode(r, c, d)
  PROVE  Idling(a)
<1>1. CASE \E c \in Code : LapseCode(c)
  <2>1. PICK c \in Code : LapseCode(c)
    BY <1>1
  <2>2. /\ UNCHANGED <<installations, request>>
        /\ codes[c].status # "used"
        /\ \A k \in Code \ {c} : codes'[k] = codes[k]
    BY <2>1 DEF LapseCode, Complete, TypeOK
  <2>3. UsedOf(a) \subseteq UsedOf(a)'
    BY <2>2 DEF UsedOf
  <2>4. Registered(a)' = Registered(a) /\ Inserting(a)' = Inserting(a)
    BY <2>2 DEF Registered, Inserting
  <2>5. QED
    BY <2>3, <2>4 DEF Idling
<1>2. CASE (\E b \in Account : ChangeEntitlement(b)) \/ UNCHANGED vars
  BY <1>2 DEF ChangeEntitlement, vars, Idling, Registered, Inserting, UsedOf
<1>3. ASSUME NEW r \in Request, NEW state, Continue(r, state),
             state.at # "insert", UNCHANGED codes,
             \A i \in Installation : installations'[i].account
                                       = installations[i].account
      PROVE  Idling(a)
  <2>1. UsedOf(a)' = UsedOf(a)
    BY <1>3 DEF UsedOf
  <2>2. Registered(a)' \subseteq Registered(a)
    BY <1>3, AccountsKept
  <2>3. Inserting(a)' \subseteq Inserting(a)
    BY <1>3, NoneInserting
  <2>4. QED
    BY <2>1, <2>2, <2>3 DEF Idling
<1>4. Idle.at # "insert"
  BY DEF Idle
<1>5. ASSUME NEW r \in Request,
             \/ RejectInstallation(r) \/ RefuseInactive(r) \/ Fail(r)
             \/ AuditActivation(r) \/ AuditRevocation(r)
      PROVE  Idling(a)
  <2>1. /\ Continue(r, Idle) /\ UNCHANGED <<codes, installations>>
    BY <1>5 DEF RejectInstallation, RefuseInactive, Fail, AuditActivation,
                AuditRevocation, End
  <2>2. QED
    BY <1>3, <1>4, <2>1
<1>6. ASSUME NEW r \in Request, NEW i \in Installation,
             NEW op \in {"renew", "download"}, LoadInstallation(r, i, op)
      PROVE  Idling(a)
  <2> DEFINE state == [Idle EXCEPT !.at = "entitlement", !.op = op,
                                   !.account = installations[i].account,
                                   !.installation = i]
  <2>1. state.at # "insert"
    BY DEF Idle
  <2>2. Continue(r, state) /\ UNCHANGED <<codes, installations>>
    BY <1>6 DEF LoadInstallation
  <2> HIDE DEF state
  <2>3. QED
    BY <1>3, <2>1, <2>2
<1>7. ASSUME NEW r \in Request, NEW i \in Installation, FindInstallation(r, i)
      PROVE  Idling(a)
  <2> DEFINE state == [Idle EXCEPT !.at = "revoke", !.op = "revoke",
                                   !.installation = i]
  <2>1. state.at # "insert"
    BY DEF Idle
  <2>2. Continue(r, state) /\ UNCHANGED <<codes, installations>>
    BY <1>7 DEF FindInstallation
  <2> HIDE DEF state
  <2>3. QED
    BY <1>3, <2>1, <2>2
<1>8. ASSUME NEW r \in Request, ReadEntitlement(r)
      PROVE  Idling(a)
  <2> DEFINE state == [request[r] EXCEPT
                         !.at = "allocate",
                         !.seen = entitlement[request[r].account]]
  <2>1. state.at # "insert"
    BY DEF Complete, TypeOK, RequestState
  <2>2. Continue(r, state) \/ Continue(r, Idle)
    BY <1>8 DEF ReadEntitlement, End
  <2>3. UNCHANGED <<codes, installations>>
    BY <1>8 DEF ReadEntitlement
  <2> HIDE DEF state
  <2>4. QED
    BY <1>3, <1>4, <2>1, <2>2, <2>3
<1>9. ASSUME NEW r \in Request, AllocateSequence(r)
      PROVE  Idling(a)
  <2> DEFINE i == request[r].installation
  <2> DEFINE state == [request[r] EXCEPT
                         !.at = "commit", !.sequence = installations[i].last + 1]
  <2>1. state.at # "insert"
    BY DEF Complete, TypeOK, RequestState
  <2>2. Continue(r, state) \/ Continue(r, Idle)
    BY <1>9 DEF AllocateSequence, End
  <2>3. UNCHANGED codes /\ installations' = Numbered(i)
    BY <1>9 DEF AllocateSequence
  <2>4. \A j \in Installation : installations'[j].account
                                  = installations[j].account
    BY <2>3 DEF Numbered, Complete, TypeOK, InstallationRow
  <2> HIDE DEF state, i
  <2>5. QED
    BY <1>3, <1>4, <2>1, <2>2, <2>3, <2>4
<1>10. ASSUME NEW r \in Request, CommitLease(r)
       PROVE  Idling(a)
  <2> DEFINE i == request[r].installation
  <2> DEFINE state == [request[r] EXCEPT !.at = "auditLease"]
  <2>1. state.at # "insert"
    BY DEF Complete, TypeOK, RequestState
  <2>2. /\ Continue(r, state) /\ UNCHANGED codes
        /\ installations' = [installations EXCEPT ![i].current
                                                    = request[r].sequence]
    BY <1>10 DEF CommitLease
  <2>3. \A j \in Installation : installations'[j].account
                                  = installations[j].account
    BY <2>2 DEF Complete, TypeOK, InstallationRow
  <2> HIDE DEF state, i
  <2>4. QED
    BY <1>3, <2>1, <2>2, <2>3
<1>11. ASSUME NEW r \in Request, AuditLease(r)
       PROVE  Idling(a)
  <2> DEFINE state == [request[r] EXCEPT !.at = "auditActivation"]
  <2>1. state.at # "insert"
    BY DEF Complete, TypeOK, RequestState
  <2>2. Continue(r, state) \/ Continue(r, Idle)
    BY <1>11 DEF AuditLease, End
  <2>3. UNCHANGED <<codes, installations>>
    BY <1>11 DEF AuditLease
  <2> HIDE DEF state
  <2>4. QED
    BY <1>3, <1>4, <2>1, <2>2, <2>3
<1>12. ASSUME NEW r \in Request, RevokeInstallation(r)
       PROVE  Idling(a)
  <2> DEFINE i == request[r].installation
  <2> DEFINE state == [request[r] EXCEPT !.at = "auditRevocation"]
  <2>1. state.at # "insert"
    BY DEF Complete, TypeOK, RequestState
  <2>2. /\ Continue(r, state) /\ UNCHANGED codes
        /\ installations' = RevokedRow(i)
    BY <1>12 DEF RevokeInstallation
  <2>3. \A j \in Installation : installations'[j].account
                                  = installations[j].account
    BY <2>2 DEF RevokedRow, Complete, TypeOK, InstallationRow
  <2> HIDE DEF state, i
  <2>4. QED
    BY <1>3, <2>1, <2>2, <2>3
<1>13. ASSUME NEW r \in Request, NEW c \in Code, CreateCode(r, c)
       PROVE  Idling(a)
  <2> DEFINE state == [Idle EXCEPT !.at = "auditCode", !.op = "create",
                                   !.code = c]
  <2>1. state.at # "insert"
    BY DEF Idle
  <2>2. Continue(r, state) /\ UNCHANGED installations
    BY <1>13 DEF CreateCode
  <2> HIDE DEF state
  <2>3. Inserting(a)' \subseteq Inserting(a)
    BY <2>1, <2>2, NoneInserting
  <2>4. /\ codes[c].status # "used"
        /\ \A k \in Code \ {c} : codes'[k] = codes[k]
    BY <1>13 DEF CreateCode, Complete, TypeOK
  <2>5. UsedOf(a) \subseteq UsedOf(a)'
    BY <2>4 DEF UsedOf
  <2>6. Registered(a)' = Registered(a)
    BY <2>2 DEF Registered
  <2>7. QED
    BY <2>3, <2>5, <2>6 DEF Idling
<1>14. ASSUME NEW r \in Request, AuditCode(r)
       PROVE  Idling(a)
  <2>1. Continue(r, Idle) /\ UNCHANGED <<codes, installations>>
    BY <1>14 DEF AuditCode, End
  <2>2. QED
    BY <1>3, <1>4, <2>1
<1>15. QED
  BY <1>1, <1>2, <1>5, <1>6, <1>7, <1>8, <1>9, <1>10, <1>11, <1>12, <1>13,
     <1>14 DEF Next, Issue

(* The count of an account is kept by every step.                           *)
LEMMA CoveredStep ==
  Complete /\ OneInstallationPerCode /\ [Next]_vars => OneInstallationPerCode'
<1> SUFFICES ASSUME Complete, [Next]_vars, NEW a \in Account, Covered(a)
             PROVE  Covered(a)'
  BY DEF OneInstallationPerCode, Covered, Registered, Inserting, UsedOf
<1>1. CASE \E r \in Request : InsertInstallation(r)
  BY <1>1, InsertCovered
<1>2. CASE \E r \in Request, c \in Code, d \in Deployment : ConsumeCode(r, c, d)
  BY <1>2, ConsumeCovered
<1>3. QED
  BY <1>1, <1>2, OtherSteps, IdlingCovered

(* An account never has more installations, registered or about to be, than *)
(* codes of its own that were used, whoever races for them.                 *)
THEOREM OnceEach == Spec => []OneInstallationPerCode
<1>1. Init => OneInstallationPerCode
  <2> SUFFICES ASSUME Init, NEW a \in Account
               PROVE  Covered(a)
    BY DEF OneInstallationPerCode, Covered, Registered, Inserting, UsedOf
  <2>1. Registered(a) = {}
    BY NoneIsNoValue DEF Init, Registered, NoRow
  <2>2. Inserting(a) = {}
    BY DEF Init, Inserting, Idle
  <2>3. Cardinality(UsedOf(a)) \in Nat
    BY PartiesFinite
  <2>4. QED
    BY <2>1, <2>2, <2>3, FS_EmptySet DEF Covered
<1>2. QED
  BY <1>1, InitComplete, NextComplete, CoveredStep, PTL DEF Spec

=============================================================================
