--------------------------- MODULE LeaseIssuance ---------------------------
(***************************************************************************)
(* Activation of installations and issuance of license leases              *)
(* (src/src/licensing.rs), with the owner's revocation                     *)
(* (src/src/operations.rs) and the routes that reach them                  *)
(* (src/src/routes.rs).                                                    *)
(*                                                                         *)
(* Every handler is a sequence of database statements with an await        *)
(* between them.  A statement, or a batch (one transaction), is one        *)
(* action; between two actions of a request any other request may run.     *)
(* What a request has read or been given so far is its record in           *)
(* "request".  An early return that has written nothing leaves no trace    *)
(* and is no action.                                                       *)
(***************************************************************************)
EXTENDS Integers, FiniteSets

CONSTANTS
    Account,        \* customer accounts
    Code,           \* activation codes
    Deployment,     \* the (tenant_id, deployment_id) pairs
    Installation,   \* identifiers of installations
    Request,        \* requests that may be in flight together
    None,           \* stands for no value
    MaxSequence     \* bound: lease sequence numbers per installation

ASSUME SequenceBound == MaxSequence \in Nat \ {0}

ASSUME NoneIsNoValue ==
    None \notin Account \cup Code \cup Deployment \cup Installation

ASSUME FiniteParties ==
    IsFiniteSet(Code) /\ IsFiniteSet(Installation) /\ IsFiniteSet(Request)

VARIABLES
    codes,          \* table activation_codes
    created,        \* codes reported in table audit_events
    known,          \* codes whose text was answered to the customer
    installations,  \* table installations
    leases,         \* table leases, by installation and sequence
    entitlement,    \* what current_entitlement finds for an account
    request,        \* the requests in flight
    trail,          \* table audit_events, of licensing and revocation
    credentials,    \* installations whose credential reached the customer
    served          \* <<installation, sequence>> of the tokens handed out

vars == <<codes, created, known, installations, leases, entitlement, request,
          trail, credentials, served>>

Sequences == 1 .. MaxSequence

CodeStatus == {"none", "unused", "used", "lapsed"}
LeaseStatus == {"none", "active", "superseded", "revoked"}

(* "open": a row that counts, with time left; "ended": a row that counts   *)
(* by its status while its period is over; "none": no row counts.          *)
Entitlement == {"none", "open", "ended"}

(* The account is that of the row, once there is one.                       *)
CodeRow == [status : CodeStatus, account : Account]

InstallationRow ==
    [status     : {"none", "active", "revoked"},
     account    : Account \cup {None},
     deployment : Deployment \cup {None},
     last       : 0 .. MaxSequence,     \* last_lease_sequence
     current    : 0 .. MaxSequence]     \* sequence of current_lease_id, or 0

NoRow == [status |-> "none", account |-> None, deployment |-> None,
          last |-> 0, current |-> 0]

RequestState ==
    [at           : {"idle", "auditCode", "insert", "entitlement", "allocate",
                     "commit", "auditLease", "auditActivation", "revoke",
                     "auditRevocation"},
     op           : {"none", "create", "activate", "renew", "download",
                     "revoke"},
     code         : Code \cup {None},
     account      : Account \cup {None},
     deployment   : Deployment \cup {None},
     installation : Installation \cup {None},
     seen         : Entitlement,
     sequence     : 0 .. MaxSequence]

Idle == [at |-> "idle", op |-> "none", code |-> None, account |-> None,
         deployment |-> None, installation |-> None, seen |-> "none",
         sequence |-> 0]

(* The events of a lease name it; the others are about the installation.    *)
AuditEvent ==
    ({"lease.issued"} \X Installation \X Sequences)
    \cup ({"installation.activated", "installation.revoked"}
             \X Installation \X {0})

TypeOK ==
    /\ codes \in [Code -> CodeRow]
    /\ created \subseteq Code
    /\ known \subseteq Code
    /\ installations \in [Installation -> InstallationRow]
    /\ leases \in [Installation -> [Sequences -> LeaseStatus]]
    /\ entitlement \in [Account -> Entitlement]
    /\ request \in [Request -> RequestState]
    /\ trail \subseteq AuditEvent
    /\ credentials \subseteq Installation
    /\ served \subseteq Installation \X Sequences

Init ==
    /\ codes \in [Code -> [status : {"none"}, account : Account]]
    /\ created = {}
    /\ known = {}
    /\ installations = [i \in Installation |-> NoRow]
    /\ leases = [i \in Installation |-> [n \in Sequences |-> "none"]]
    /\ entitlement \in [Account -> Entitlement]
    /\ request = [r \in Request |-> Idle]
    /\ trail = {}
    /\ credentials = {}
    /\ served = {}

-----------------------------------------------------------------------------
(* A request moves on with what it now holds, or ends.                      *)

Continue(r, state) == request' = [request EXCEPT ![r] = state]

End(r) == Continue(r, Idle)

-----------------------------------------------------------------------------
(* The statements, one operator for each condition and each new table.      *)
(* Those named Faulty are not used by the specification: they are mistakes  *)
(* the properties below are checked to detect.                              *)

(* UPDATE activation_codes ... WHERE used_at IS NULL AND ...                *)
FaultyUsable(c) == codes[c].status # "lapsed"
Usable(c) == codes[c].status = "unused"

(* UPDATE installations SET last_lease_sequence ... WHERE status = 'active' *)
FaultyMayNumber(i) == installations[i].status # "none"
MayNumber(i) == installations[i].status = "active"

FaultyNotNumbered(i) == installations
Numbered(i) == [installations EXCEPT ![i].last = @ + 1]

(* UPDATE leases SET status = 'superseded' WHERE ... AND status = 'active'  *)
FaultySupersededAll(i) ==
    [n \in Sequences |-> IF leases[i][n] = "none" THEN "none"
                         ELSE "superseded"]
FaultySupersededNone(i) == leases[i]
Superseded(i) ==
    [n \in Sequences |-> IF leases[i][n] = "active" THEN "superseded"
                         ELSE leases[i][n]]

(* UNIQUE (installation_id, sequence), met by INSERT INTO leases.           *)
Insertable(i, s) == leases[i][s] = "none"

(* UPDATE installations SET status = 'revoked', whatever the status.        *)
FaultyRevokedRow(i) == installations
RevokedRow(i) == [installations EXCEPT ![i].status = "revoked"]

(* UPDATE leases SET status = 'revoked' WHERE ... AND status = 'active'     *)
FaultyRevokedLeases(i) == leases[i]
RevokedLeases(i) ==
    [n \in Sequences |-> IF leases[i][n] = "active" THEN "revoked"
                         ELSE leases[i][n]]

(* INSERT INTO audit_events                                                 *)
FaultySwapped(action, i, s) == trail \cup {<<i, action, s>>}
FaultyRecorded(action, i, s) == trail
Recorded(action, i, s) == trail \cup {<<action, i, s>>}

-----------------------------------------------------------------------------
(* create_activation_code, by an administrator of the account.              *)

CreateCode(r, c) ==
    /\ request[r] = Idle
    /\ codes[c].status = "none"
    /\ codes' = [codes EXCEPT ![c].status = "unused"]
    /\ Continue(r, [Idle EXCEPT !.at = "auditCode", !.op = "create",
                                !.code = c])
    /\ UNCHANGED <<created, known, installations, leases, entitlement, trail,
                   credentials, served>>

(* The answer is the only copy of the code's text, and may be lost.         *)
AuditCode(r) ==
    LET c == request[r].code IN
    /\ request[r].at = "auditCode"
    /\ created' = created \cup {c}
    /\ known' \in {known, known \cup {c}}
    /\ End(r)
    /\ UNCHANGED <<codes, installations, leases, entitlement, trail,
                   credentials, served>>

-----------------------------------------------------------------------------
(* POST activate, by whoever knows a code.                                  *)

(* One UPDATE takes a code that is neither used, revoked nor expired; the   *)
(* request keeps the account the row names.                                 *)
ConsumeCode(r, c, d) ==
    /\ request[r] = Idle
    /\ c \in known
    /\ Usable(c)
    /\ codes' = [codes EXCEPT ![c].status = "used"]
    /\ Continue(r, [Idle EXCEPT !.at = "insert", !.op = "activate",
                                !.account = codes[c].account,
                                !.deployment = d])
    /\ UNCHANGED <<created, known, installations, leases, entitlement, trail,
                   credentials, served>>

DeploymentTaken(d) == \E i \in Installation : installations[i].deployment = d

(* The new row is active and has issued nothing.                            *)
InsertInstallation(r) ==
    /\ request[r].at = "insert"
    /\ ~DeploymentTaken(request[r].deployment)
    /\ \E i \in Installation :
         /\ installations[i] = NoRow
         /\ installations' = [installations EXCEPT ![i] =
                [NoRow EXCEPT !.status = "active",
                              !.account = request[r].account,
                              !.deployment = request[r].deployment]]
         /\ Continue(r, [request[r] EXCEPT !.at = "entitlement",
                                           !.installation = i])
    /\ UNCHANGED <<codes, created, known, leases, entitlement, trail,
                   credentials, served>>

(* The unique index over (tenant_id, deployment_id) rejects the row; the    *)
(* code stays used.                                                         *)
RejectInstallation(r) ==
    /\ request[r].at = "insert"
    /\ DeploymentTaken(request[r].deployment)
    /\ End(r)
    /\ UNCHANGED <<codes, created, known, installations, leases, entitlement,
                   trail, credentials, served>>

-----------------------------------------------------------------------------
(* POST renew, by credential, and the offline bundle, by an administrator   *)
(* of the account: both read the row, require it to be active, and issue.   *)

LoadInstallation(r, i, op) ==
    /\ request[r] = Idle
    /\ op = "renew" => i \in credentials
    /\ installations[i].status = "active"
    /\ Continue(r, [Idle EXCEPT !.at = "entitlement", !.op = op,
                                !.account = installations[i].account,
                                !.installation = i])
    /\ UNCHANGED <<codes, created, known, installations, leases, entitlement,
                   trail, credentials, served>>

-----------------------------------------------------------------------------
(* issue: the steps every lease goes through.                               *)

ReadEntitlement(r) ==
    /\ request[r].at = "entitlement"
    /\ LET found == entitlement[request[r].account] IN
         IF found = "none"
           THEN End(r)                          \* subscription_required
           ELSE Continue(r, [request[r] EXCEPT !.at = "allocate",
                                               !.seen = found])
    /\ UNCHANGED <<codes, created, known, installations, leases, entitlement,
                   trail, credentials, served>>

(* The increment is conditional on the row being active NOW.  The clock is  *)
(* read after it: a period that has ended by then fails the request, the    *)
(* number it took being lost.                                               *)
AllocateSequence(r) ==
    LET i == request[r].installation IN
    /\ request[r].at = "allocate"
    /\ MayNumber(i)
    /\ installations[i].last < MaxSequence
    /\ installations' = Numbered(i)
    /\ \/ /\ request[r].seen = "open"
          /\ Continue(r, [request[r] EXCEPT
                            !.at = "commit",
                            !.sequence = installations[i].last + 1])
       \/ End(r)                                \* subscription_expired
    /\ UNCHANGED <<codes, created, known, leases, entitlement, trail,
                   credentials, served>>

(* The conditional increment matched no row.                                *)
RefuseInactive(r) ==
    /\ request[r].at = "allocate"
    /\ ~MayNumber(request[r].installation)
    /\ End(r)
    /\ UNCHANGED <<codes, created, known, installations, leases, entitlement,
                   trail, credentials, served>>

(* The batch: supersede what is active, insert the new lease, point the     *)
(* installation at it.  The unique index over (installation_id, sequence)   *)
(* rejects the batch if the number has a row: a statement that fails (Fail). *)
CommitLease(r) ==
    LET i == request[r].installation
        s == request[r].sequence
    IN
    /\ request[r].at = "commit"
    /\ Insertable(i, s)
    /\ leases' = [leases EXCEPT ![i] = [Superseded(i) EXCEPT ![s] = "active"]]
    /\ installations' = [installations EXCEPT ![i].current = s]
    /\ Continue(r, [request[r] EXCEPT !.at = "auditLease"])
    /\ UNCHANGED <<codes, created, known, entitlement, trail, credentials,
                   served>>

(* A renewal or a download answers with the token after this record; the    *)
(* answer may be lost.                                                      *)
AuditLease(r) ==
    LET i == request[r].installation
        s == request[r].sequence
    IN
    /\ request[r].at = "auditLease"
    /\ trail' = Recorded("lease.issued", i, s)
    /\ IF request[r].op = "activate"
         THEN /\ Continue(r, [request[r] EXCEPT !.at = "auditActivation"])
              /\ UNCHANGED served
         ELSE /\ served' \in {served, served \cup {<<i, s>>}}
              /\ End(r)
    /\ UNCHANGED <<codes, created, known, installations, leases, entitlement,
                   credentials>>

(* An activation answers with the credential and the token together, or     *)
(* the answer is lost and with it the only copy of the credential.          *)
AuditActivation(r) ==
    LET i == request[r].installation
        s == request[r].sequence
    IN
    /\ request[r].at = "auditActivation"
    /\ trail' = Recorded("installation.activated", i, 0)
    /\ \/ /\ credentials' = credentials \cup {i}
          /\ served' = served \cup {<<i, s>>}
       \/ UNCHANGED <<credentials, served>>
    /\ End(r)
    /\ UNCHANGED <<codes, created, known, installations, leases, entitlement>>

-----------------------------------------------------------------------------
(* The owner's revocation.                                                  *)

FindInstallation(r, i) ==
    /\ request[r] = Idle
    /\ installations[i].status # "none"
    /\ Continue(r, [Idle EXCEPT !.at = "revoke", !.op = "revoke",
                                !.installation = i])
    /\ UNCHANGED <<codes, created, known, installations, leases, entitlement,
                   trail, credentials, served>>

(* The batch: the installation whatever its status, and its active leases.  *)
RevokeInstallation(r) ==
    LET i == request[r].installation IN
    /\ request[r].at = "revoke"
    /\ installations' = RevokedRow(i)
    /\ leases' = [leases EXCEPT ![i] = RevokedLeases(i)]
    /\ Continue(r, [request[r] EXCEPT !.at = "auditRevocation"])
    /\ UNCHANGED <<codes, created, known, entitlement, trail, credentials,
                   served>>

AuditRevocation(r) ==
    /\ request[r].at = "auditRevocation"
    /\ trail' = Recorded("installation.revoked", request[r].installation, 0)
    /\ End(r)
    /\ UNCHANGED <<codes, created, known, installations, leases, entitlement,
                   credentials, served>>

-----------------------------------------------------------------------------
(* What happens around the requests.                                        *)

(* A statement fails or the worker is stopped: what was written stays.      *)
Fail(r) ==
    /\ request[r] # Idle
    /\ End(r)
    /\ UNCHANGED <<codes, created, known, installations, leases, entitlement,
                   trail, credentials, served>>

(* Time passes expires_at of an unused code.                                *)
LapseCode(c) ==
    /\ codes[c].status = "unused"
    /\ codes' = [codes EXCEPT ![c].status = "lapsed"]
    /\ UNCHANGED <<created, known, installations, leases, entitlement,
                   request, trail, credentials, served>>

(* A webhook, a manual subscription or time changes what an account has.    *)
ChangeEntitlement(a) ==
    /\ \E e \in Entitlement : entitlement' = [entitlement EXCEPT ![a] = e]
    /\ UNCHANGED <<codes, created, known, installations, leases, request,
                   trail, credentials, served>>

Issue(r) ==
    \/ ReadEntitlement(r)
    \/ AllocateSequence(r)
    \/ RefuseInactive(r)
    \/ CommitLease(r)
    \/ AuditLease(r)

Next ==
    \/ \E r \in Request :
         \/ \E c \in Code : CreateCode(r, c)
         \/ AuditCode(r)
         \/ \E c \in Code, d \in Deployment : ConsumeCode(r, c, d)
         \/ InsertInstallation(r)
         \/ RejectInstallation(r)
         \/ \E i \in Installation, op \in {"renew", "download"} :
              LoadInstallation(r, i, op)
         \/ Issue(r)
         \/ AuditActivation(r)
         \/ \E i \in Installation : FindInstallation(r, i)
         \/ RevokeInstallation(r)
         \/ AuditRevocation(r)
         \/ Fail(r)
    \/ \E c \in Code : LapseCode(c)
    \/ \E a \in Account : ChangeEntitlement(a)

Spec == Init /\ [][Next]_vars

-----------------------------------------------------------------------------
(* Invariants.                                                              *)

(* A sequence number has one owner: it is a row of leases or it is held by  *)
(* one request between the increment and the batch, and it is never above   *)
(* last_lease_sequence.  So the unique index of the table never rejects a   *)
(* batch, however activations, renewals and downloads interleave.           *)
Holds(r, i, n) ==
    request[r].at = "commit" /\ request[r].installation = i
                            /\ request[r].sequence = n

SequenceHasOneOwner ==
    \A i \in Installation, n \in Sequences :
        /\ leases[i][n] # "none" => n <= installations[i].last
        /\ \A r \in Request : Holds(r, i, n) =>
              /\ leases[i][n] = "none"
              /\ n <= installations[i].last
              /\ \A q \in Request \ {r} : ~Holds(q, i, n)

(* At most one lease of an installation is active, and it is the one the    *)
(* installation points at: no interleaving of two issues, or of an issue    *)
(* and a revocation, leaves the row and current_lease_id apart.             *)
ActiveLeaseIsCurrent ==
    \A i \in Installation, n \in Sequences :
        leases[i][n] = "active" => installations[i].current = n

(* An account never has more installations, registered or about to be, than *)
(* codes of its own that were used: a code activates once, for its account, *)
(* whoever races for it.                                                    *)
OneInstallationPerCode ==
    \A a \in Account :
        Cardinality({i \in Installation : installations[i].account = a})
      + Cardinality({r \in Request : /\ request[r].at = "insert"
                                     /\ request[r].account = a})
     <= Cardinality({c \in Code : codes[c].status = "used"
                                   /\ codes[c].account = a})

(* What has left the service is on record: a code that a customer knows, so *)
(* one that is used, has its audit event; the token of every answer has its *)
(* lease row and its event; and a credential in the field is that of a      *)
(* recorded activation which obtained a lease.                              *)
CodesRecorded ==
    /\ \A c \in Code : codes[c].status = "used" => c \in known
    /\ known \subseteq created

LeasesRecorded ==
    /\ \A t \in served : /\ leases[t[1]][t[2]] # "none"
                         /\ <<"lease.issued", t[1], t[2]>> \in trail
    /\ \A i \in credentials :
          /\ <<"installation.activated", i, 0>> \in trail
          /\ installations[i].current # 0

ServedIsRecorded == CodesRecorded /\ LeasesRecorded

(* The audit trail never reports what did not happen, wherever a request    *)
(* was stopped.                                                             *)
CodesCreated == \A c \in created : codes[c].status # "none"

EventsHappened ==
    \A e \in trail :
        /\ e[1] = "lease.issued" => leases[e[2]][e[3]] # "none"
        /\ e[1] = "installation.activated" => installations[e[2]].current # 0
        /\ e[1] = "installation.revoked" => installations[e[2]].status = "revoked"

TrailIsTrue == CodesCreated /\ EventsHappened

-----------------------------------------------------------------------------
(* Action properties.                                                       *)

(* A lease that was superseded or revoked keeps that status, and a row once *)
(* inserted stays.                                                          *)
LeaseStep ==
    \A i \in Installation, n \in Sequences :
        /\ leases[i][n] \in {"superseded", "revoked"}
             => leases'[i][n] = leases[i][n]
        /\ leases[i][n] = "active" => leases'[i][n] # "none"

LeaseLifecycle == [][LeaseStep]_vars

(* Revoked, with no request holding a number: from then on the table of     *)
(* leases gains no row for the installation, and a status changes to        *)
(* revoked only.  This is the promise that a revocation keeps.              *)
Drained(i) ==
    /\ installations[i].status = "revoked"
    /\ \A r \in Request : ~(request[r].at = "commit"
                              /\ request[r].installation = i)

DrainedStep ==
    \A i \in Installation : Drained(i) =>
        /\ Drained(i)'
        /\ \A n \in Sequences :
             leases'[i][n] # leases[i][n] => leases'[i][n] = "revoked"

DrainedIsFinal == [][DrainedStep]_vars

(* The owner's dialog: the installation "will stop receiving renewed        *)
(* leases" (src/src/client/app.tsx).  Refuted: a renewal that took its       *)
(* number before the revocation commits its lease after it, and the lease   *)
(* is active.                                                               *)
RevokedReceivesNoLease ==
    [][\A i \in Installation, n \in Sequences :
         /\ installations[i].status = "revoked"
         /\ installations[i].current # 0
         /\ leases'[i][n] = "active"
            => leases[i][n] = "active"]_vars

-----------------------------------------------------------------------------
(* The abstract specification this module implements.                       *)

LedgerState(status) == CASE status = "none" -> "absent"
                         [] status = "active" -> "open"
                         [] status = "revoked" -> "closed"

LedgerLicense(status) == CASE status = "none" -> "unissued"
                           [] status = "active" -> "valid"
                           [] status \in {"superseded", "revoked"} -> "void"

Ledger == INSTANCE LicenseLedger WITH
    state   <- [i \in Installation |-> LedgerState(installations[i].status)],
    taken   <- [i \in Installation |-> installations[i].last],
    license <- [i \in Installation |->
                  [n \in Sequences |-> LedgerLicense(leases[i][n])]]

(* However requests interleave, fail or are revoked under way, the tables   *)
(* are a ledger of numbered licenses: a number is taken only while the      *)
(* installation is active and becomes a lease at most once, and one lease   *)
(* at most is good at a time.                                               *)
ImplementsLedger == Ledger!Spec

=============================================================================
