---------------------------- MODULE PortalAuth ----------------------------
(***************************************************************************)
(* Magic links, signup and sessions of the customer portal and the owner   *)
(* portal (src/src/auth.rs).                                               *)
(*                                                                         *)
(* A link carries a token.  Opening it runs one batch that claims the row  *)
(* by writing the clock reading of the request into consumed_at, and then  *)
(* recognises its own claim by that reading.  The reading is taken before  *)
(* the batch is sent, and two requests may hold the same one.              *)
(*                                                                         *)
(* A session then authorises requests of its portal: for an owner if the   *)
(* email is listed, for a customer on the accounts the email is a member   *)
(* of.  What such a request does is in the other modules.                  *)
(***************************************************************************)
EXTENDS Integers

CONSTANTS
    Request,        \* requests that may be in flight together
    Email,          \* addresses
    Owner,          \* those in owner_emails
    Token,          \* tokens of links, each drawn once
    Session,        \* identifiers of sessions
    Account,        \* identifiers of accounts created by signup
    None,           \* stands for no value
    LinkLife,       \* magic_link_minutes
    MaxClock        \* bound: clock readings

ASSUME ClockAssumption == MaxClock \in Nat /\ LinkLife \in Nat \ {0}

ASSUME OwnerAssumption == Owner \subseteq Email

ASSUME NoneIsNoAuthValue ==
    None \notin Email \cup Token \cup Session \cup Account \cup Nat

VARIABLES
    clock,          \* what now() reads
    drawn,          \* tokens drawn so far
    links,          \* tables magic_links and owner_magic_links, by token
    pending,        \* table pending_signups, by email
    members,        \* emails with a row in account_members
    accounts,       \* accounts created by signup: email and token
    sessions,       \* tables portal_sessions and owner_sessions
    mailed,         \* <<token, email, audience>> of the messages sent
    cookies,        \* sessions whose token reached a browser
    readings,       \* <<token, reading>> of the requests that opened links
    collided,       \* two requests opened one link on the same reading
    acted,          \* <<audience, session>> of the requests authorised
    request         \* the requests in flight

vars == <<clock, drawn, links, pending, members, accounts, sessions, mailed,
          cookies, readings, collided, acted, request>>

Times == 0 .. MaxClock
Audience == {"customer", "owner"}

(* The columns of a link; a signup's is the row of its email.               *)
Link == [audience : Audience, email : Email,
         expires : 0 .. MaxClock + LinkLife, consumed : Times \cup {None}]

(* A form is what a signup asks for: the school, its country and currency.  *)
(* It is named by the token drawn for the request that submitted it.        *)
PendingRow == [token : Token, form : Token, expires : 0 .. MaxClock + LinkLife,
               consumed : Times \cup {None}]

(* The audience is the table the session is in.                             *)
SessionRow == [status : {"none", "live", "revoked"}, audience : Audience,
               email : Email \cup {None}, token : Token \cup {None}]

NoSession == [status |-> "none", audience |-> "customer", email |-> None,
              token |-> None]

(* form is in the columns the batch selects from the pending row, slug in   *)
(* the slug and the metadata, which are made from the row that was read.    *)
AccountRow == [email : Email \cup {None}, token : Token \cup {None},
               form : Token \cup {None}, slug : Token \cup {None}]

NoAccount == [email |-> None, token |-> None, form |-> None, slug |-> None]

ASSUME NoneIsNoRow == None \notin Link \cup PendingRow

RequestState ==
    [at       : {"idle", "insertLink", "upsertSignup", "mail", "readSignup",
                 "claimLink", "claimSignup", "readAccounts"},
     audience : Audience,
     email    : Email \cup {None},
     token    : Token \cup {None},
     session  : Session \cup {None},
     form     : Token \cup {None},      \* read by consume_signup
     time     : 0 .. MaxClock + LinkLife]

Idle == [at |-> "idle", audience |-> "customer", email |-> None,
         token |-> None, session |-> None, form |-> None, time |-> 0]

TypeOK ==
    /\ clock \in Times
    /\ drawn \subseteq Token
    /\ links \in [Token -> Link \cup {None}]
    /\ pending \in [Email -> PendingRow \cup {None}]
    /\ members \subseteq Email
    /\ accounts \in [Account -> AccountRow]
    /\ sessions \in [Session -> SessionRow]
    /\ mailed \subseteq drawn \X Email \X Audience
    /\ cookies \subseteq Session
    /\ readings \subseteq drawn \X Times
    /\ collided \in BOOLEAN
    /\ acted \subseteq Audience \X Session
    /\ request \in [Request -> RequestState]

Init ==
    /\ clock = 0
    /\ drawn = {}
    /\ links = [t \in Token |-> None]
    /\ pending = [e \in Email |-> None]
    /\ members \in SUBSET Email
    /\ accounts = [a \in Account |-> NoAccount]
    /\ sessions = [s \in Session |-> NoSession]
    /\ mailed = {}
    /\ cookies = {}
    /\ readings = {}
    /\ collided = FALSE
    /\ acted = {}
    /\ request = [r \in Request |-> Idle]

-----------------------------------------------------------------------------
State(at, aud, e, t, s, time) ==
    [at |-> at, audience |-> aud, email |-> e, token |-> t, session |-> s,
     form |-> None, time |-> time]

Continue(r, state) == request' = [request EXCEPT ![r] = state]

End(r) == Continue(r, Idle)

stored == <<links, pending, members, accounts, sessions>>
outside == <<mailed, cookies, readings, collided, acted>>

Inbox == {m[1] : m \in mailed}

-----------------------------------------------------------------------------
(* request_customer_magic_link, request_owner_magic_link, request_signup.   *)

(* The token and expires_at are fixed before the call that shortens the     *)
(* link; that call lies between this step and the next.                     *)
Draw(r, at, aud, e) ==
    \E t \in Token \ drawn :
        /\ drawn' = drawn \cup {t}
        /\ Continue(r, State(at, aud, e, t, None, clock + LinkLife))
        /\ UNCHANGED <<clock, stored, outside>>

Allowed(aud, e) == IF aud = "owner" THEN e \in Owner ELSE e \in members

RequestLink(r, aud, e) ==
    /\ request[r] = Idle
    /\ Allowed(aud, e)
    /\ Draw(r, "insertLink", aud, e)

(* A member who signs up is sent a sign-in link.                            *)
RequestSignup(r, e) ==
    /\ request[r] = Idle
    /\ Draw(r, IF e \in members THEN "insertLink" ELSE "upsertSignup",
            "customer", e)

InsertLink(r) ==
    LET q == request[r] IN
    /\ q.at = "insertLink"
    /\ links' = [links EXCEPT ![q.token] =
                   [audience |-> q.audience, email |-> q.email,
                    expires |-> q.time, consumed |-> None]]
    /\ Continue(r, [q EXCEPT !.at = "mail"])
    /\ UNCHANGED <<clock, drawn, pending, members, accounts, sessions,
                   outside>>

(* ON CONFLICT(email): the row gets the new token and form and is open      *)
(* again.  The form of an earlier signup kept is not in the code: it is a   *)
(* mistake FormIsOfTheLink is checked to detect.                            *)
FaultySubmitted(row, q) ==
    [token |-> q.token, form |-> IF row = None THEN q.token ELSE row.form,
     expires |-> q.time, consumed |-> None]
Submitted(row, q) ==
    [token |-> q.token, form |-> q.token, expires |-> q.time,
     consumed |-> None]

UpsertSignup(r) ==
    LET q == request[r] IN
    /\ q.at = "upsertSignup"
    /\ pending' = [pending EXCEPT ![q.email] = Submitted(pending[q.email], q)]
    /\ Continue(r, [q EXCEPT !.at = "mail"])
    /\ UNCHANGED <<clock, drawn, links, members, accounts, sessions, outside>>

Mail(r) ==
    /\ request[r].at = "mail"
    /\ mailed' = mailed \cup
         {<<request[r].token, request[r].email, request[r].audience>>}
    /\ End(r)
    /\ UNCHANGED <<clock, drawn, stored, cookies, readings, collided, acted>>

-----------------------------------------------------------------------------
(* The statements of the batches.  Those named Faulty are not used by the   *)
(* specification: they are mistakes the properties are checked to detect.   *)

(* UPDATE ... WHERE consumed_at IS NULL AND expires_at > now                *)
FaultyClaimable(row, now) == row.expires > now
Claimable(row, now) == row.consumed = None /\ row.expires > now

FaultyClaimedAt(row, now) ==
    IF Claimable(row, now) THEN row.expires ELSE row.consumed
ClaimedAt(row, now) == IF Claimable(row, now) THEN now ELSE row.consumed

(* The inserts: SELECT ... FROM the row WHERE consumed_at = now             *)
FaultyOwnClaim(row, now) == ClaimedAt(row, now) # None
OwnClaim(row, now) == ClaimedAt(row, now) = now

(* The result of the batch: a row changed by every statement.               *)
FaultySuccess(row, now) == OwnClaim(row, now)
Success(row, now) == Claimable(row, now) /\ OwnClaim(row, now)

NewSession(aud, e, t, ok) ==
    \E s \in Session :
        /\ sessions[s] = NoSession
        /\ sessions' = [sessions EXCEPT ![s] =
                          [status |-> "live", audience |-> aud, email |-> e,
                           token |-> t]]
        /\ cookies' \in {cookies, IF ok THEN cookies \cup {s} ELSE cookies}

-----------------------------------------------------------------------------
(* consume_sign_in_link.                                                    *)

(* What every request for a link does first: read the clock.                *)
ReadClock(r, t, at) ==
    /\ Continue(r, State(at, "customer", None, t, None, clock))
    /\ readings' = readings \cup {<<t, clock>>}
    /\ collided' = (collided \/ <<t, clock>> \in readings)

OpenLink(r, t) ==
    /\ request[r] = Idle
    /\ t \in Inbox
    /\ links[t] # None
    /\ ReadClock(r, t, "claimLink")
    /\ UNCHANGED <<clock, drawn, stored, mailed, cookies, acted>>

ClaimLink(r) ==
    LET t   == request[r].token
        now == request[r].time
    IN
    /\ request[r].at = "claimLink"
    /\ links' = [links EXCEPT ![t].consumed = ClaimedAt(links[t], now)]
    /\ IF OwnClaim(links[t], now)
         THEN NewSession(links[t].audience, links[t].email, t,
                         Success(links[t], now))
         ELSE UNCHANGED <<sessions, cookies>>
    /\ End(r)
    /\ UNCHANGED <<clock, drawn, pending, members, accounts, mailed, readings,
                   collided, acted>>

-----------------------------------------------------------------------------
(* consume_signup.                                                          *)

RowsOf(t) == {e \in Email : pending[e] # None /\ pending[e].token = t}

OpenSignup(r, t) ==
    /\ request[r] = Idle
    /\ t \in Inbox
    /\ links[t] = None
    /\ ReadClock(r, t, "readSignup")
    /\ UNCHANGED <<clock, drawn, stored, mailed, cookies, acted>>

(* The form is read if the row is open on the reading taken.  Another       *)
(* signup of the address may replace the row before the batch.              *)
ReadSignup(r) ==
    LET q == request[r] IN
    /\ q.at = "readSignup"
    /\ \/ \E e \in RowsOf(q.token) :
            /\ Claimable(pending[e], q.time)
            /\ Continue(r, [q EXCEPT !.at = "claimSignup",
                                     !.form = pending[e].form])
       \/ /\ \A e \in RowsOf(q.token) : ~Claimable(pending[e], q.time)
          /\ End(r)
    /\ UNCHANGED <<clock, drawn, stored, outside>>

(* The batch of six statements: the claim, the verified user, the account,  *)
(* its administrator, the session and the audit event.                      *)
ClaimSignup(r) ==
    LET t   == request[r].token
        now == request[r].time
    IN
    /\ request[r].at = "claimSignup"
    /\ pending' = [e \in Email |->
                     IF e \in RowsOf(t)
                       THEN [pending[e] EXCEPT !.consumed =
                               ClaimedAt(pending[e], now)]
                       ELSE pending[e]]
    /\ \/ \E e \in RowsOf(t), a \in Account :
            /\ OwnClaim(pending[e], now)
            /\ accounts[a] = NoAccount
            /\ accounts' = [accounts EXCEPT ![a] =
                              [email |-> e, token |-> t,
                               form |-> pending[e].form,
                               slug |-> request[r].form]]
            /\ members' = members \cup {e}
            /\ NewSession("customer", e, t, Success(pending[e], now))
       \/ /\ \A e \in RowsOf(t) : ~OwnClaim(pending[e], now)
          /\ UNCHANGED <<accounts, members, sessions, cookies>>
    /\ End(r)
    /\ UNCHANGED <<clock, drawn, links, mailed, readings, collided, acted>>

-----------------------------------------------------------------------------
(* resolve_customer_identity, resolve_owner_identity: the session is looked *)
(* for in the table of the portal the request came to.                      *)

FaultyFoundFor(s, aud) == sessions[s].status = "live"
FoundFor(s, aud) == sessions[s].status = "live" /\ sessions[s].audience = aud

Act(aud, s) ==
    /\ acted' = acted \cup {<<aud, s>>}
    /\ UNCHANGED <<clock, drawn, stored, mailed, cookies, readings, collided>>

AuthorizeOwner(s) ==
    /\ s \in cookies
    /\ FoundFor(s, "owner")
    /\ sessions[s].email \in Owner
    /\ Act("owner", s)
    /\ UNCHANGED request

FindSession(r, s) ==
    /\ request[r] = Idle
    /\ s \in cookies
    /\ FoundFor(s, "customer")
    /\ Continue(r, State("readAccounts", "customer", sessions[s].email, None,
                         s, 0))
    /\ UNCHANGED <<clock, drawn, stored, outside>>

(* The accounts of the email are read by a second statement.                *)
AuthorizeCustomer(r) ==
    /\ request[r].at = "readAccounts"
    /\ request[r].email \in members
    /\ Act("customer", request[r].session)
    /\ End(r)

-----------------------------------------------------------------------------
(* Logout stands for the end of a session by time too: after either its row *)
(* is not found.                                                            *)
Logout(s) ==
    /\ s \in cookies
    /\ sessions[s].status = "live"
    /\ sessions' = [sessions EXCEPT ![s].status = "revoked"]
    /\ UNCHANGED <<clock, drawn, links, pending, members, accounts, outside,
                   request>>

(* The owner gives an email access to an account (src/src/operations.rs).   *)
GrantCustomerAdministrator(e) ==
    /\ e \notin members
    /\ members' = members \cup {e}
    /\ UNCHANGED <<clock, drawn, links, pending, accounts, sessions, outside,
                   request>>

Tick ==
    /\ clock < MaxClock
    /\ clock' = clock + 1
    /\ UNCHANGED <<drawn, stored, outside, request>>

(* A statement, the link service or the mail fails, or the worker stops.    *)
Fail(r) ==
    /\ request[r] # Idle
    /\ End(r)
    /\ UNCHANGED <<clock, drawn, stored, outside>>

Next ==
    \/ Tick
    \/ \E r \in Request :
         \/ \E aud \in Audience, e \in Email : RequestLink(r, aud, e)
         \/ \E e \in Email : RequestSignup(r, e)
         \/ InsertLink(r)
         \/ UpsertSignup(r)
         \/ Mail(r)
         \/ \E t \in Token : OpenLink(r, t) \/ OpenSignup(r, t)
         \/ ClaimLink(r)
         \/ ReadSignup(r)
         \/ ClaimSignup(r)
         \/ \E s \in Session : FindSession(r, s)
         \/ AuthorizeCustomer(r)
         \/ Fail(r)
    \/ \E s \in Session : Logout(s) \/ AuthorizeOwner(s)
    \/ \E e \in Email : GrantCustomerAdministrator(e)

Spec == Init /\ [][Next]_vars

-----------------------------------------------------------------------------
(* Properties.                                                              *)

(* A link signs in at most one browser, even when it is opened by several   *)
(* requests at once that read the same clock.                               *)
OneBrowserPerLink ==
    \A s, u \in cookies :
        sessions[s].token = sessions[u].token => s = u

(* Whoever is let in has proved to control the address: a link of that      *)
(* portal was sent there, and the session comes from its token.  A session  *)
(* of one portal never acts in the other, also when one address has both.   *)
ActsAreProven ==
    \A a \in acted :
        LET s == sessions[a[2]] IN
        /\ <<s.token, s.email, a[1]>> \in mailed
        /\ s.email \in IF a[1] = "owner" THEN Owner ELSE members

(* As long as no two requests opened one link on the same reading, a link   *)
(* is one-time in the tables too: it has at most one session, and at most   *)
(* one account, and the account's email is a member.                        *)
LinkIsOneTime ==
    ~collided =>
        /\ \A s, u \in Session :
             (sessions[s].token # None /\ sessions[s].token = sessions[u].token)
               => s = u
        /\ \A a, b \in Account :
             (accounts[a].token # None /\ accounts[a].token = accounts[b].token)
               => a = b
        /\ \A a \in Account :
             accounts[a].token # None => accounts[a].email \in members

(* An account is what was asked for with the link that created it, in the   *)
(* columns taken from the pending row and in those made from what had been  *)
(* read before, however often the address signs up meanwhile.               *)
FormIsOfTheLink ==
    \A a \in Account : /\ accounts[a].form = accounts[a].token
                       /\ accounts[a].slug = accounts[a].token

(* "Duplicate, expired, or consumed links return to /login with an          *)
(* operational recovery message" (src/docs/portal-architecture.md):         *)
(* opening one a second time creates nothing.  Refuted: on the same clock   *)
(* reading the second request creates a second account and session, and     *)
(* then returns to /login.                                                  *)
DuplicateLinkCreatesNothing ==
    [][\A e \in Email :
         (pending[e] # None /\ pending[e].consumed # None
            /\ pending'[e] = pending[e])
           => \A a \in Account :
                accounts'[a] # accounts[a] => accounts'[a].email # e]_vars

-----------------------------------------------------------------------------
(* The abstract specification this module implements.                       *)

(* The sessions that requests under way have found.                         *)
Found == {request[r].session :
            r \in {o \in Request : request[o].at = "readAccounts"}}

Access == INSTANCE PortalAccess WITH
    sent     <- mailed,
    signedIn <- {<<sessions[s].token, s>> : s \in cookies},
    ended    <- {s \in cookies : sessions[s].status = "revoked"},
    found    <- Found

(* However requests interleave, fail and share readings of the clock, what  *)
(* addresses and browsers see is the access the portals promise: a message  *)
(* lets in one browser, once; who acts was let in by a message of that      *)
(* portal to the address it acts for, which has access at that time; an     *)
(* ended session serves only requests that had found it; an account is what *)
(* was asked for with the message that opened it.                           *)
ImplementsAccess == Access!Spec

=============================================================================
