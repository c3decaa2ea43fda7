------------------------- MODULE PortalAuthProofs -------------------------
(***************************************************************************)
(* What PortalAuth promises, for any number of requests, addresses, tokens *)
(* and sessions.                                                           *)
(*                                                                         *)
(* The argument.  A token is drawn by one request and reaches the tables   *)
(* before it reaches an inbox, so what a mailed token stands for is fixed  *)
(* (Addressed): its link, or the row of the one address it was sent to.    *)
(* A session or an account exists only for a token that was mailed and     *)
(* whose row is consumed (Spent), which it stays for ever, so a claim that *)
(* succeeds is the first one.  As long as readings do not coincide, a row  *)
(* is never consumed at the reading another request still holds (Apart).   *)
(*                                                                         *)
(* With SendsOnce, by which a token is in one message, every step is one   *)
(* of PortalAccess or shows nothing outside.                               *)
(***************************************************************************)
EXTENDS PortalAuth, TLAPS

Opening == {"claimLink", "readSignup", "claimSignup"}
Sending == {"insertLink", "upsertSignup", "mail"}

(* No row of the token can be claimed any more.                             *)
Spent(t) ==
    /\ links[t] # None => links[t].consumed # None
    /\ \A e \in RowsOf(t) : pending[e].consumed # None

ConsumedAt(t, n) ==
    \/ links[t] # None /\ links[t].consumed = n
    \/ \E e \in RowsOf(t) : pending[e].consumed = n

(* The token belongs to the address and the portal.                         *)
Addressed(t, e, aud) ==
    /\ links[t] # None => links[t].email = e /\ links[t].audience = aud
    /\ links[t] = None => aud = "customer"
    /\ \A f \in RowsOf(t) : f = e

(* The token of a request that has not stored it yet is nowhere else.       *)
Fresh(r) ==
    LET t == request[r].token IN
    /\ links[t] = None
    /\ RowsOf(t) = {}
    /\ t \notin Inbox
    /\ \A o \in Request : o # r => request[o].token # t

Holds(r) ==
    LET q == request[r] IN
    /\ q.token # None => q.token \in drawn
    /\ q.at \in Sending => q.token # None /\ q.email # None
    /\ q.at \in {"insertLink", "upsertSignup"} => Fresh(r)
    /\ q.at = "upsertSignup" => q.audience = "customer"
    /\ q.at = "mail" => Addressed(q.token, q.email, q.audience)
    /\ q.at \in Opening => /\ q.token \in Inbox
                           /\ q.time \in Times
                           /\ <<q.token, q.time>> \in readings
    /\ q.at = "claimLink" => links[q.token] # None
    /\ q.at = "claimSignup" => q.form = q.token
    /\ q.at = "readAccounts" => /\ q.session \in cookies
                                /\ sessions[q.session].email = q.email
                                /\ sessions[q.session].audience = "customer"

TablesAreDrawn ==
    /\ \A t \in Token : links[t] # None => t \in drawn
    /\ \A e \in Email : pending[e] # None =>
         /\ pending[e].token \in drawn
         /\ pending[e].form = pending[e].token
         /\ links[pending[e].token] = None

MailIsAddressed ==
    \A t \in Token, e \in Email, aud \in Audience :
        <<t, e, aud>> \in mailed => Addressed(t, e, aud)

SessionIsProven(s) ==
    LET u == sessions[s] IN
    /\ u.token = None => u = NoSession
    /\ u.token # None => /\ u.status # "none"
                         /\ <<u.token, u.email, u.audience>> \in mailed
                         /\ Spent(u.token)

AccountIsProven(a) ==
    LET c == accounts[a] IN
    /\ c.token = None => c = NoAccount
    /\ c.token # None => /\ c.token \in Inbox
                         /\ Spent(c.token)
                         /\ c.email \in members
                         /\ c.form = c.token /\ c.slug = c.token

CookiesAreSessions == \A s \in cookies : sessions[s].token # None

ActsAreOfSessions ==
    \A aud \in Audience, s \in Session : <<aud, s>> \in acted =>
        /\ sessions[s].token # None
        /\ sessions[s].audience = aud
        /\ sessions[s].email \in IF aud = "owner" THEN Owner ELSE members

ReadingsAreKept ==
    \A t \in Token, n \in Times : ConsumedAt(t, n) => <<t, n>> \in readings

Apart ==
    ~collided =>
        /\ \A r, o \in Request :
             /\ request[r].at \in Opening /\ request[o].at \in Opening
             /\ request[r].token = request[o].token
             /\ request[r].time = request[o].time
             => r = o
        /\ \A r \in Request : request[r].at \in Opening =>
             ~ConsumedAt(request[r].token, request[r].time)

(* TypeOK and the properties, with what they rest on.                       *)
IInv ==
    /\ TypeOK
    /\ TablesAreDrawn
    /\ MailIsAddressed
    /\ \A r \in Request : Holds(r)
    /\ \A s \in Session : SessionIsProven(s)
    /\ \A a \in Account : AccountIsProven(a)
    /\ CookiesAreSessions
    /\ OneBrowserPerLink
    /\ ActsAreOfSessions
    /\ ReadingsAreKept
    /\ Apart
    /\ LinkIsOneTime

-----------------------------------------------------------------------------
(* What a step leaves of a token and of a session.                          *)

Kept(t) ==
    /\ links[t] = None => links'[t] = None
    /\ links[t] # None =>
         /\ links'[t] # None
         /\ links'[t].email = links[t].email
         /\ links'[t].audience = links[t].audience
         /\ links[t].consumed # None => links'[t].consumed # None
    /\ \A e \in RowsOf(t)' :
         /\ e \in RowsOf(t)
         /\ pending[e].consumed # None => pending'[e].consumed # None

SessionsKept ==
    \A s \in Session : sessions[s].token # None =>
        /\ sessions'[s].token = sessions[s].token
        /\ sessions'[s].email = sessions[s].email
        /\ sessions'[s].audience = sessions[s].audience

LEMMA SpentStays ==
    ASSUME NEW t, Kept(t), Spent(t)
    PROVE  Spent(t)'
BY DEF Kept, Spent

LEMMA AddressedStays ==
    ASSUME NEW t, NEW e, NEW aud, Kept(t), Addressed(t, e, aud)
    PROVE  Addressed(t, e, aud)'
BY DEF Kept, Addressed

LEMMA TablesStand ==
    ASSUME UNCHANGED <<links, pending>>
    PROVE  /\ \A t : RowsOf(t)' = RowsOf(t)
           /\ \A t : Kept(t)
           /\ \A t, n : ConsumedAt(t, n)' <=> ConsumedAt(t, n)
BY DEF RowsOf, Kept, ConsumedAt

LEMMA StateFields ==
    ASSUME NEW at, NEW aud, NEW e, NEW t, NEW s, NEW time
    PROVE  LET q == State(at, aud, e, t, s, time) IN
           /\ q.at = at /\ q.audience = aud /\ q.email = e /\ q.token = t
           /\ q.session = s /\ q.form = None /\ q.time = time
BY DEF State

LEMMA StateIsTyped ==
    ASSUME NEW at \in {"idle", "insertLink", "upsertSignup", "mail",
                       "readSignup", "claimLink", "claimSignup",
                       "readAccounts"},
           NEW aud \in Audience, NEW e \in Email \cup {None},
           NEW t \in Token \cup {None}, NEW s \in Session \cup {None},
           NEW time \in 0 .. MaxClock + LinkLife
    PROVE  State(at, aud, e, t, s, time) \in RequestState
BY DEF State, RequestState

LEMMA IdleIsTyped ==
    /\ Idle \in RequestState
    /\ Idle.at = "idle" /\ Idle.token = None
BY ClockAssumption DEF Idle, RequestState, Audience

(* A request that a step leaves alone still holds what it did.              *)
LEMMA HoldsStands ==
    ASSUME NEW o \in Request, Holds(o), request'[o] = request[o],
           request[o].at \in Opening \cup {"mail"} => Kept(request[o].token),
           drawn \subseteq drawn', mailed \subseteq mailed',
           readings \subseteq readings', cookies \subseteq cookies',
           CookiesAreSessions, SessionsKept, cookies \subseteq Session,
           request[o].at \in {"insertLink", "upsertSignup"} => Fresh(o)'
    PROVE  Holds(o)'
<1> DEFINE q == request[o]
<1>1. q' = q
      OBVIOUS
<1>2. /\ q.token # None => q.token \in drawn'
      /\ q.at \in Sending => q.token # None /\ q.email # None
      /\ q.at = "upsertSignup" => q.audience = "customer"
      /\ q.at = "claimSignup" => q.form = q.token
      BY DEF Holds
<1>3. q.at = "mail" => Addressed(q.token, q.email, q.audience)'
  <2>1. ASSUME NEW t, NEW e, NEW aud, q.at = "mail",
               t = q.token, e = q.email, aud = q.audience
        PROVE  Addressed(t, e, aud)'
        BY <2>1, AddressedStays DEF Holds
  <2> QED BY <1>1, <2>1 DEF Addressed, RowsOf
<1>4. q.at \in Opening => /\ q.token \in Inbox'
                         /\ q.time \in Times
                         /\ <<q.token, q.time>> \in readings'
      BY DEF Holds, Inbox
<1>5. q.at = "claimLink" => links'[q.token] # None
      BY DEF Holds, Kept, Opening
<1>6. q.at = "readAccounts" => /\ q.session \in cookies'
                              /\ sessions'[q.session].email = q.email
                              /\ sessions'[q.session].audience = "customer"
      BY DEF Holds, SessionsKept, CookiesAreSessions
<1> QED BY <1>1, <1>2, <1>3, <1>4, <1>5, <1>6 DEF Holds

LEMMA MailStands ==
    ASSUME MailIsAddressed, mailed' = mailed,
           \A t \in Token : t \in Inbox => Kept(t)
    PROVE  MailIsAddressed'
<1>1. ASSUME NEW t \in Token, NEW e \in Email, NEW aud \in Audience,
             <<t, e, aud>> \in mailed
      PROVE  Addressed(t, e, aud)'
  <2>1. <<t, e, aud>>[1] = t
        OBVIOUS
  <2>2. t \in Inbox
        BY <1>1, <2>1 DEF Inbox
  <2> QED BY <1>1, <2>2, AddressedStays DEF MailIsAddressed
<1> QED BY <1>1 DEF MailIsAddressed

LEMMA ProofsAreMailed ==
    ASSUME TypeOK, NEW s \in Session, SessionIsProven(s),
           sessions[s].token # None
    PROVE  /\ sessions[s].token \in Token /\ sessions[s].email \in Email
           /\ sessions[s].token \in Inbox /\ sessions[s].token \in drawn
<1> DEFINE u == sessions[s]
<1>1. <<u.token, u.email, u.audience>> \in mailed
      BY DEF SessionIsProven
<1>2. u.token \in drawn /\ u.email \in Email
      BY <1>1 DEF TypeOK
<1>3. <<u.token, u.email, u.audience>>[1] = u.token
      OBVIOUS
<1> QED BY <1>1, <1>2, <1>3 DEF TypeOK, Inbox

(* A session is proven as long as its row is.  Only its status may change.  *)
LEMMA SessionStands ==
    ASSUME TypeOK, NEW s \in Session, SessionIsProven(s),
           \A t \in Token : t \in Inbox => Kept(t),
           mailed \subseteq mailed',
           \/ sessions'[s] = sessions[s]
           \/ /\ sessions[s].token # None
              /\ sessions'[s].token = sessions[s].token
              /\ sessions'[s].email = sessions[s].email
              /\ sessions'[s].audience = sessions[s].audience
              /\ sessions'[s].status # "none"
    PROVE  SessionIsProven(s)'
<1>1. CASE sessions[s].token = None
      BY <1>1 DEF SessionIsProven
<1>2. CASE sessions[s].token # None
  <2>1. sessions[s].token \in Token /\ sessions[s].token \in Inbox
        BY <1>2, ProofsAreMailed
  <2>2. ASSUME NEW t, t = sessions[s].token
        PROVE  Spent(t)'
        BY <1>2, <2>1, <2>2, SpentStays DEF SessionIsProven
  <2>3. /\ sessions'[s].token = sessions[s].token
        /\ sessions'[s].email = sessions[s].email
        /\ sessions'[s].audience = sessions[s].audience
        /\ sessions'[s].status # "none"
        BY <1>2 DEF SessionIsProven
  <2>4. <<sessions'[s].token, sessions'[s].email, sessions'[s].audience>>
          \in mailed'
        BY <1>2, <2>3 DEF SessionIsProven
  <2>5. Spent(sessions[s].token)'
        BY <2>2, <2>3 DEF Spent, RowsOf
  <2> QED BY <1>2, <2>3, <2>4, <2>5 DEF SessionIsProven
<1> QED BY <1>1, <1>2

LEMMA AccountStands ==
    ASSUME TypeOK, NEW a \in Account, AccountIsProven(a),
           \A t \in Token : t \in Inbox => Kept(t),
           mailed \subseteq mailed', members \subseteq members',
           accounts'[a] = accounts[a]
    PROVE  AccountIsProven(a)'
<1>1. CASE accounts[a].token = None
      BY <1>1 DEF AccountIsProven
<1>2. CASE accounts[a].token # None
  <2>1. accounts[a].token \in Token /\ accounts[a].token \in Inbox
        BY <1>2 DEF TypeOK, AccountIsProven, AccountRow
  <2>2. ASSUME NEW t, t = accounts[a].token
        PROVE  Spent(t)' /\ t \in Inbox'
        BY <1>2, <2>1, <2>2, SpentStays DEF AccountIsProven, Inbox
  <2>3. Spent(accounts[a].token)' /\ accounts'[a].token \in Inbox'
        BY <2>2 DEF Spent, RowsOf
  <2> QED BY <1>2, <2>3 DEF AccountIsProven
<1> QED BY <1>1, <1>2

LEMMA ActsStand ==
    ASSUME ActsAreOfSessions, acted' = acted, SessionsKept,
           members \subseteq members'
    PROVE  ActsAreOfSessions'
BY DEF ActsAreOfSessions, SessionsKept

LEMMA BrowsersStand ==
    ASSUME CookiesAreSessions, OneBrowserPerLink, cookies' = cookies,
           cookies \subseteq Session, SessionsKept
    PROVE  CookiesAreSessions' /\ OneBrowserPerLink'
BY DEF CookiesAreSessions, OneBrowserPerLink, SessionsKept

(* Requests keep apart when none reads the clock and none claims.           *)
LEMMA ApartStands ==
    ASSUME Apart, collided => collided',
           \A o \in Request : request'[o].at \in Opening =>
             /\ request[o].at \in Opening
             /\ request'[o].token = request[o].token
             /\ request'[o].time = request[o].time
             /\ ConsumedAt(request[o].token, request[o].time)'
                  => ConsumedAt(request[o].token, request[o].time)
    PROVE  Apart'
BY DEF Apart

(* A step that changes no table of links keeps everything about them.       *)
LEMMA QuietStep ==
    ASSUME IInv, UNCHANGED <<links, pending, accounts, sessions, cookies>>,
           mailed' = mailed, drawn \subseteq drawn', members \subseteq members',
           readings \subseteq readings', collided => collided'
    PROVE  /\ TablesAreDrawn'
           /\ MailIsAddressed'
           /\ \A s \in Session : SessionIsProven(s)'
           /\ \A a \in Account : AccountIsProven(a)'
           /\ CookiesAreSessions'
           /\ OneBrowserPerLink'
           /\ ReadingsAreKept'
           /\ LinkIsOneTime'
           /\ SessionsKept
<1>1. \A t \in Token : Kept(t)
      BY TablesStand
<1>2. SessionsKept
      BY DEF SessionsKept
<1>3. TypeOK
      BY DEF IInv
<1>4. TablesAreDrawn'
      BY DEF IInv, TablesAreDrawn
<1>5. MailIsAddressed'
      BY <1>1, MailStands DEF IInv
<1>6. ASSUME NEW s \in Session
      PROVE  SessionIsProven(s)'
      BY <1>1, <1>3, SessionStands DEF IInv
<1>7. ASSUME NEW a \in Account
      PROVE  AccountIsProven(a)'
      BY <1>1, <1>3, AccountStands DEF IInv
<1>8. CookiesAreSessions' /\ OneBrowserPerLink'
      BY <1>2, <1>3, BrowsersStand DEF IInv, TypeOK
<1>9. ReadingsAreKept'
      BY TablesStand DEF IInv, ReadingsAreKept
<1>10. LinkIsOneTime'
      BY DEF IInv, LinkIsOneTime
<1> QED BY <1>2, <1>4, <1>5, <1>6, <1>7, <1>8, <1>9, <1>10

(* A request left alone, while the tables are too.                          *)
LEMMA QuietHolds ==
    ASSUME IInv, NEW o \in Request, request'[o] = request[o],
           UNCHANGED <<links, pending, sessions>>,
           drawn \subseteq drawn', mailed \subseteq mailed',
           readings \subseteq readings', cookies \subseteq cookies',
           request[o].at \in {"insertLink", "upsertSignup"} => Fresh(o)'
    PROVE  Holds(o)'
<1>1. Kept(request[o].token)
      BY TablesStand
<1>2. SessionsKept
      BY DEF SessionsKept
<1> QED BY <1>1, <1>2, HoldsStands DEF IInv, TypeOK

(* The other requests do not take the token of a fresh one.                 *)
LEMMA FreshStands ==
    ASSUME NEW o \in Request, Fresh(o), request'[o] = request[o],
           UNCHANGED <<links, pending>>,
           \A t \in Inbox' : t \in Inbox \/ t # request[o].token,
           \A q \in Request : q # o =>
             request'[q].token = request[q].token
               \/ request'[q].token # request[o].token
    PROVE  Fresh(o)'
BY DEF Fresh, RowsOf

-----------------------------------------------------------------------------
(* The steps that change no table.                                          *)

LEMMA DrawKeeps ==
    ASSUME IInv, NEW r \in Request, request[r] = Idle,
           NEW at \in {"insertLink", "upsertSignup"}, NEW aud \in Audience,
           NEW e \in Email, at = "upsertSignup" => aud = "customer",
           Draw(r, at, aud, e)
    PROVE  IInv'
<1>1. PICK t \in Token \ drawn :
        /\ drawn' = drawn \cup {t}
        /\ request' = [request EXCEPT ![r] =
                         State(at, aud, e, t, None, clock + LinkLife)]
        /\ UNCHANGED <<clock, links, pending, members, accounts, sessions,
                       mailed, cookies, readings, collided, acted>>
      BY DEF Draw, Continue, stored, outside
<1> DEFINE q == State(at, aud, e, t, None, clock + LinkLife)
<1>2. TypeOK
      BY DEF IInv
<1>3. q \in RequestState
  <2>1. clock + LinkLife \in 0 .. MaxClock + LinkLife
        BY <1>2, ClockAssumption DEF TypeOK, Times
  <2> QED BY <2>1, StateIsTyped
<1>4. /\ q.at = at /\ q.audience = aud /\ q.email = e /\ q.token = t
      BY StateFields
<1> HIDE DEF q
<1>5. /\ request'[r] = q
      /\ \A o \in Request : o # r => request'[o] = request[o]
      BY <1>1, <1>2 DEF TypeOK, q
<1>6. TypeOK'
  <2>1. request' \in [Request -> RequestState]
        BY <1>1, <1>2, <1>3 DEF TypeOK, q
  <2> QED BY <1>1, <1>2, <2>1 DEF TypeOK, Times
<1>7. /\ links[t] = None /\ RowsOf(t) = {} /\ t \notin Inbox
      /\ \A o \in Request : request[o].token # t
  <2>1. t # None
        BY NoneIsNoAuthValue
  <2>2. t \notin Inbox
        BY <1>2 DEF TypeOK, Inbox
  <2> QED BY <1>1, <1>2, <2>1, <2>2
        DEF IInv, TablesAreDrawn, RowsOf, TypeOK, PendingRow, Holds
<1>8. ASSUME NEW o \in Request
      PROVE  Holds(o)'
  <2>1. CASE o = r
    <3>1. Fresh(o)'
          BY <1>1, <1>4, <1>5, <1>7, <2>1 DEF Fresh, RowsOf, Inbox
    <3>2. t \in drawn' /\ t # None /\ e # None
          BY <1>1, NoneIsNoAuthValue
    <3> QED BY <1>4, <1>5, <2>1, <3>1, <3>2 DEF Holds, Sending, Opening
  <2>2. CASE o # r
    <3>1. ASSUME Fresh(o)
          PROVE  Fresh(o)'
      <4>1. Inbox' = Inbox
            BY <1>1 DEF Inbox
      <4>2. request'[o] = request[o] /\ request[o].token # t
            BY <1>5, <1>7, <2>2
      <4> QED BY <1>1, <1>4, <1>5, <3>1, <4>1, <4>2, FreshStands
    <3>2. request[o].at \in {"insertLink", "upsertSignup"} => Fresh(o)'
          BY <3>1 DEF IInv, Holds
    <3> QED BY <1>1, <1>5, <2>2, <3>2, QuietHolds
  <2> QED BY <2>1, <2>2
<1>9. Apart'
  <2>1. \A o \in Request : request'[o].at \in Opening =>
          request'[o] = request[o]
        BY <1>4, <1>5 DEF Opening
  <2> QED BY <1>1, <2>1, TablesStand, ApartStands DEF IInv
<1>10. ActsAreOfSessions'
      BY <1>1 DEF IInv, ActsAreOfSessions
<1> QED BY <1>1, <1>6, <1>8, <1>9, <1>10, QuietStep DEF IInv

(* A step that ends a request, or moves it on without a table changing.     *)
LEMMA QuietMove ==
    ASSUME IInv, NEW r \in Request, NEW q \in RequestState,
           request' = [request EXCEPT ![r] = q],
           q.token = request[r].token \/ q.token = None,
           q.at \notin {"insertLink", "upsertSignup"},
           UNCHANGED <<drawn, links, pending, accounts, sessions, cookies,
                       mailed, members, readings, collided>>,
           q.at \in Opening => /\ request[r].at \in Opening
                              /\ q.token = request[r].token
                              /\ q.time = request[r].time
    PROVE  /\ \A o \in Request : o # r => Holds(o)'
           /\ request' \in [Request -> RequestState]
           /\ Apart'
<1>1. TypeOK
      BY DEF IInv
<1>2. /\ request'[r] = q
      /\ \A o \in Request : o # r => request'[o] = request[o]
      /\ request' \in [Request -> RequestState]
      BY <1>1 DEF TypeOK
<1>3. ASSUME NEW o \in Request, o # r
      PROVE  Holds(o)'
  <2>1. ASSUME Fresh(o), request[o].token # None
        PROVE  Fresh(o)'
    <3>1. Inbox' = Inbox
          BY DEF Inbox
    <3> QED BY <1>2, <1>3, <2>1, <3>1, FreshStands
  <2>2. request[o].at \in {"insertLink", "upsertSignup"} => Fresh(o)'
        BY <2>1 DEF IInv, Holds, Sending
  <2> QED BY <1>2, <1>3, <2>2, QuietHolds
<1>4. Apart'
  <2>1. \A o \in Request : request'[o].at \in Opening =>
          /\ request[o].at \in Opening
          /\ request'[o].token = request[o].token
          /\ request'[o].time = request[o].time
        BY <1>2
  <2> QED BY <2>1, TablesStand, ApartStands DEF IInv
<1> QED BY <1>2, <1>3, <1>4

LEMMA IdleHolds ==
    ASSUME NEW r \in Request, request'[r] = Idle
    PROVE  Holds(r)'
BY IdleIsTyped DEF Holds, Sending, Opening

LEMMA FailKeeps ==
    ASSUME IInv, NEW r \in Request, Fail(r)
    PROVE  IInv'
<1>1. /\ request' = [request EXCEPT ![r] = Idle]
      /\ UNCHANGED <<clock, drawn, links, pending, members, accounts, sessions,
                     mailed, cookies, readings, collided, acted>>
      BY DEF Fail, End, Continue, stored, outside
<1>2. /\ \A o \in Request : o # r => Holds(o)'
      /\ request' \in [Request -> RequestState]
      /\ Apart'
      BY <1>1, IdleIsTyped, QuietMove DEF Opening
<1>3. TypeOK'
      BY <1>1, <1>2 DEF IInv, TypeOK
<1>4. Holds(r)'
      BY <1>1, IdleHolds DEF IInv, TypeOK
<1>5. ActsAreOfSessions'
      BY <1>1 DEF IInv, ActsAreOfSessions
<1> QED BY <1>1, <1>2, <1>3, <1>4, <1>5, QuietStep DEF IInv

LEMMA ReadSignupKeeps ==
    ASSUME IInv, NEW r \in Request, ReadSignup(r)
    PROVE  IInv'
<1> DEFINE q == request[r]
<1>1. TypeOK /\ Holds(r) /\ q \in RequestState /\ q.at = "readSignup"
      BY DEF IInv, TypeOK, ReadSignup
<1>2. UNCHANGED <<clock, drawn, links, pending, members, accounts, sessions,
                  mailed, cookies, readings, collided, acted>>
      BY DEF ReadSignup, stored, outside
<1>3. ActsAreOfSessions'
      BY <1>2 DEF IInv, ActsAreOfSessions
<1>4. ASSUME NEW p \in RequestState,
             request' = [request EXCEPT ![r] = p],
             \/ p = Idle
             \/ /\ p.at = "claimSignup" /\ p.token = q.token
                /\ p.time = q.time /\ p.form = q.token
      PROVE  IInv'
  <2>1. /\ \A o \in Request : o # r => Holds(o)'
        /\ request' \in [Request -> RequestState]
        /\ Apart'
        BY <1>1, <1>2, <1>4, IdleIsTyped, QuietMove DEF Opening
  <2>2. TypeOK'
        BY <1>1, <1>2, <2>1 DEF TypeOK
  <2>3. Holds(r)'
    <3>1. request'[r] = p
          BY <1>1, <1>4 DEF TypeOK
    <3>2. CASE p = Idle
          BY <3>1, <3>2, IdleHolds
    <3>3. CASE p.at = "claimSignup" /\ p.token = q.token
               /\ p.time = q.time /\ p.form = q.token
      <4>1. q.token \in Inbox /\ q.time \in Times
            /\ <<q.token, q.time>> \in readings
            /\ (q.token # None => q.token \in drawn)
            BY <1>1 DEF Holds, Opening
      <4>2. Inbox' = Inbox
            BY <1>2 DEF Inbox
      <4> QED BY <1>2, <3>1, <3>3, <4>1, <4>2 DEF Holds, Opening, Sending
    <3> QED BY <1>4, <3>2, <3>3
  <2> QED BY <1>2, <1>3, <2>1, <2>2, <2>3, QuietStep DEF IInv
<1>5. CASE \E e \in RowsOf(q.token) :
             Continue(r, [q EXCEPT !.at = "claimSignup",
                                   !.form = pending[e].form])
  <2>1. PICK e \in RowsOf(q.token) :
          request' = [request EXCEPT ![r] =
                        [q EXCEPT !.at = "claimSignup",
                                  !.form = pending[e].form]]
        BY <1>5 DEF Continue
  <2>2. pending[e].form = q.token /\ q.token \in Token
        BY <1>1, <2>1 DEF IInv, TablesAreDrawn, RowsOf, TypeOK, PendingRow
  <2> DEFINE p == [q EXCEPT !.at = "claimSignup", !.form = pending[e].form]
  <2>3. /\ p \in RequestState /\ p.at = "claimSignup" /\ p.token = q.token
        /\ p.time = q.time /\ p.form = q.token
        BY <1>1, <2>2 DEF RequestState
  <2> HIDE DEF p
  <2>4. request' = [request EXCEPT ![r] = p]
        BY <2>1 DEF p
  <2> QED BY <1>4, <2>3, <2>4
<1>6. CASE End(r)
      BY <1>4, <1>6, IdleIsTyped DEF End, Continue
<1> QED BY <1>5, <1>6 DEF ReadSignup

LEMMA AuthorizeCustomerKeeps ==
    ASSUME IInv, NEW r \in Request, AuthorizeCustomer(r)
    PROVE  IInv'
<1> DEFINE q == request[r]
<1>1. /\ request' = [request EXCEPT ![r] = Idle]
      /\ acted' = acted \cup {<<"customer", q.session>>}
      /\ UNCHANGED <<clock, drawn, links, pending, members, accounts, sessions,
                     mailed, cookies, readings, collided>>
      BY DEF AuthorizeCustomer, Act, End, Continue, stored
<1>2. /\ TypeOK /\ Holds(r) /\ q.at = "readAccounts" /\ q.email \in members
      BY DEF IInv, AuthorizeCustomer
<1>3. /\ \A o \in Request : o # r => Holds(o)'
      /\ request' \in [Request -> RequestState]
      /\ Apart'
      BY <1>1, IdleIsTyped, QuietMove DEF Opening
<1>4. /\ q.session \in Session /\ sessions[q.session].token # None
      /\ sessions[q.session].email \in members
      /\ sessions[q.session].audience = "customer"
      BY <1>2 DEF Holds, TypeOK, IInv, CookiesAreSessions
<1>5. TypeOK'
      BY <1>1, <1>2, <1>3, <1>4 DEF TypeOK, Audience
<1>6. Holds(r)'
      BY <1>1, <1>2, IdleHolds DEF TypeOK
<1>7. ActsAreOfSessions'
      BY <1>1, <1>4 DEF IInv, ActsAreOfSessions
<1> QED BY <1>1, <1>3, <1>5, <1>6, <1>7, QuietStep DEF IInv

LEMMA FindSessionKeeps ==
    ASSUME IInv, NEW r \in Request, NEW s \in Session, FindSession(r, s)
    PROVE  IInv'
<1> DEFINE q == State("readAccounts", "customer", sessions[s].email, None, s, 0)
<1>1. /\ request' = [request EXCEPT ![r] = q]
      /\ UNCHANGED <<clock, drawn, links, pending, members, accounts, sessions,
                     mailed, cookies, readings, collided, acted>>
      BY DEF FindSession, Continue, stored, outside
<1>2. /\ TypeOK /\ s \in cookies /\ sessions[s].audience = "customer"
      /\ sessions[s].email \in Email \cup {None}
      BY DEF IInv, FindSession, FoundFor, TypeOK, SessionRow
<1>3. /\ q \in RequestState /\ q.at = "readAccounts" /\ q.token = None
      /\ q.session = s /\ q.email = sessions[s].email
  <2>1. 0 \in 0 .. MaxClock + LinkLife /\ "customer" \in Audience
        BY ClockAssumption DEF Audience
  <2> QED BY <1>2, <2>1, StateIsTyped, StateFields
<1> HIDE DEF q
<1>4. /\ \A o \in Request : o # r => Holds(o)'
      /\ request' \in [Request -> RequestState]
      /\ Apart'
      BY <1>1, <1>3, QuietMove DEF Opening
<1>5. TypeOK'
      BY <1>1, <1>2, <1>4 DEF TypeOK
<1>6. Holds(r)'
  <2>1. request'[r] = q
        BY <1>1, <1>2 DEF TypeOK
  <2> QED BY <1>1, <1>2, <1>3, <2>1 DEF Holds, Sending, Opening
<1>7. ActsAreOfSessions'
      BY <1>1 DEF IInv, ActsAreOfSessions
<1> QED BY <1>1, <1>4, <1>5, <1>6, <1>7, QuietStep DEF IInv

(* No request moves: what they hold is not disturbed.                       *)
LEMMA AllHold ==
    ASSUME IInv,
           UNCHANGED <<drawn, links, pending, sessions, cookies, mailed,
                       readings, collided, request>>
    PROVE  (\A o \in Request : Holds(o)') /\ Apart'
<1>1. ASSUME NEW o \in Request
      PROVE  Holds(o)'
  <2>1. Fresh(o) => Fresh(o)'
        BY DEF Fresh, RowsOf, Inbox
  <2>2. request[o].at \in {"insertLink", "upsertSignup"} => Fresh(o)'
        BY <2>1 DEF IInv, Holds
  <2> QED BY <2>2, QuietHolds
<1>2. Apart'
      BY TablesStand, ApartStands DEF IInv
<1> QED BY <1>1, <1>2

LEMMA AuthorizeOwnerKeeps ==
    ASSUME IInv, NEW s \in Session, AuthorizeOwner(s)
    PROVE  IInv'
<1>1. /\ acted' = acted \cup {<<"owner", s>>}
      /\ UNCHANGED <<clock, drawn, links, pending, members, accounts, sessions,
                     mailed, cookies, readings, collided, request>>
      BY DEF AuthorizeOwner, Act, stored
<1>2. /\ TypeOK /\ s \in cookies /\ sessions[s].token # None
      /\ sessions[s].audience = "owner" /\ sessions[s].email \in Owner
      BY DEF IInv, AuthorizeOwner, FoundFor, CookiesAreSessions
<1>3. TypeOK'
      BY <1>1, <1>2 DEF TypeOK, Audience
<1>4. (\A o \in Request : Holds(o)') /\ Apart'
      BY <1>1, AllHold
<1>5. ActsAreOfSessions'
      BY <1>1, <1>2 DEF IInv, ActsAreOfSessions
<1> QED BY <1>1, <1>3, <1>4, <1>5, QuietStep DEF IInv

LEMMA GrantKeeps ==
    ASSUME IInv, NEW e \in Email, GrantCustomerAdministrator(e)
    PROVE  IInv'
<1>1. /\ members' = members \cup {e}
      /\ UNCHANGED <<clock, drawn, links, pending, accounts, sessions, mailed,
                     cookies, readings, collided, acted, request>>
      BY DEF GrantCustomerAdministrator, outside
<1>2. TypeOK'
      BY <1>1 DEF IInv, TypeOK
<1>3. (\A o \in Request : Holds(o)') /\ Apart'
      BY <1>1, AllHold
<1>4. ActsAreOfSessions'
      BY <1>1 DEF IInv, ActsAreOfSessions
<1> QED BY <1>1, <1>2, <1>3, <1>4, QuietStep DEF IInv

LEMMA TickKeeps ==
    ASSUME IInv, Tick
    PROVE  IInv'
<1>1. /\ clock < MaxClock /\ clock' = clock + 1
      /\ UNCHANGED <<drawn, links, pending, members, accounts, sessions, mailed,
                     cookies, readings, collided, acted, request>>
      BY DEF Tick, stored, outside
<1>2. TypeOK'
      BY <1>1, ClockAssumption DEF IInv, TypeOK, Times
<1>3. (\A o \in Request : Holds(o)') /\ Apart'
      BY <1>1, AllHold
<1>4. ActsAreOfSessions'
      BY <1>1 DEF IInv, ActsAreOfSessions
<1> QED BY <1>1, <1>2, <1>3, <1>4, QuietStep DEF IInv

LEMMA LogoutKeeps ==
    ASSUME IInv, NEW s \in Session, Logout(s)
    PROVE  IInv'
<1>1. /\ sessions' = [sessions EXCEPT ![s].status = "revoked"]
      /\ UNCHANGED <<clock, drawn, links, pending, members, accounts, mailed,
                     cookies, readings, collided, acted, request>>
      BY DEF Logout, outside
<1>2. /\ TypeOK /\ sessions[s].token # None
      BY DEF IInv, Logout, CookiesAreSessions
<1>3. /\ sessions' \in [Session -> SessionRow]
      /\ \A u \in Session : u # s => sessions'[u] = sessions[u]
      /\ sessions'[s].token = sessions[s].token
      /\ sessions'[s].email = sessions[s].email
      /\ sessions'[s].audience = sessions[s].audience
      /\ sessions'[s].status = "revoked"
      BY <1>1, <1>2 DEF TypeOK, SessionRow
<1>4. TypeOK'
      BY <1>1, <1>2, <1>3 DEF TypeOK
<1>5. SessionsKept
      BY <1>3 DEF SessionsKept
<1>6. \A t : Kept(t)
      BY <1>1, TablesStand
<1>7. ASSUME NEW o \in Request
      PROVE  Holds(o)'
  <2>1. Fresh(o) => Fresh(o)'
        BY <1>1 DEF Fresh, RowsOf, Inbox
  <2>2. request[o].at \in {"insertLink", "upsertSignup"} => Fresh(o)'
        BY <2>1 DEF IInv, Holds
  <2> QED BY <1>1, <1>2, <1>5, <1>6, <2>2, HoldsStands DEF IInv, TypeOK
<1>8. Apart'
      BY <1>1, TablesStand, ApartStands DEF IInv
<1>9. ASSUME NEW u \in Session
      PROVE  SessionIsProven(u)'
      BY <1>1, <1>2, <1>3, <1>6, SessionStands DEF IInv
<1>10. ASSUME NEW a \in Account
       PROVE  AccountIsProven(a)'
      BY <1>1, <1>2, <1>6, AccountStands DEF IInv
<1>11. CookiesAreSessions' /\ OneBrowserPerLink'
      BY <1>1, <1>2, <1>5, BrowsersStand DEF IInv, TypeOK
<1>12. ActsAreOfSessions'
      BY <1>1, <1>5, ActsStand DEF IInv
<1>13. TablesAreDrawn' /\ MailIsAddressed' /\ ReadingsAreKept'
  <2>1. TablesAreDrawn'
        BY <1>1 DEF IInv, TablesAreDrawn
  <2>2. MailIsAddressed'
        BY <1>1, <1>6, MailStands DEF IInv
  <2>3. ReadingsAreKept'
        BY <1>1, TablesStand DEF IInv, ReadingsAreKept
  <2> QED BY <2>1, <2>2, <2>3
<1>14. LinkIsOneTime'
  <2>1. \A u \in Session : sessions'[u].token = sessions[u].token
        BY <1>3
  <2> QED BY <1>1, <2>1 DEF IInv, LinkIsOneTime
<1> QED BY <1>4, <1>7, <1>8, <1>9, <1>10, <1>11, <1>12, <1>13, <1>14 DEF IInv

-----------------------------------------------------------------------------
(* A token reaches an inbox, and then a request.                            *)

LEMMA MailKeeps ==
    ASSUME IInv, NEW r \in Request, Mail(r)
    PROVE  IInv'
<1> DEFINE q == request[r]
           m == <<q.token, q.email, q.audience>>
<1>1. /\ request' = [request EXCEPT ![r] = Idle]
      /\ mailed' = mailed \cup {m}
      /\ UNCHANGED <<clock, drawn, links, pending, members, accounts, sessions,
                     cookies, readings, collided, acted>>
      BY DEF Mail, End, Continue, stored
<1>2. TypeOK /\ Holds(r) /\ q \in RequestState /\ q.at = "mail"
      BY DEF IInv, TypeOK, Mail
<1>3. /\ q.token \in drawn /\ q.token \in Token
      /\ q.email \in Email /\ q.audience \in Audience
      /\ Addressed(q.token, q.email, q.audience)
      BY <1>2 DEF Holds, Sending, RequestState
<1>4. /\ request'[r] = Idle
      /\ \A o \in Request : o # r => request'[o] = request[o]
      /\ request' \in [Request -> RequestState]
      BY <1>1, <1>2, IdleIsTyped DEF TypeOK
<1>5. TypeOK'
      BY <1>1, <1>2, <1>3, <1>4 DEF TypeOK
<1>6. \A t \in Inbox' : t \in Inbox \/ t = q.token
  <2>1. m[1] = q.token
        OBVIOUS
  <2> HIDE DEF m
  <2> QED BY <1>1, <2>1 DEF Inbox
<1>7. ASSUME NEW o \in Request
      PROVE  Holds(o)'
  <2>1. CASE o = r
        BY <1>4, <2>1, IdleHolds
  <2>2. CASE o # r
    <3>1. ASSUME Fresh(o), request[o].token # None
          PROVE  Fresh(o)'
      <4>1. request[o].token # q.token
            BY <2>2, <3>1 DEF Fresh
      <4> QED BY <1>1, <1>4, <1>6, <2>2, <3>1, <4>1, IdleIsTyped, FreshStands
    <3>2. request[o].at \in {"insertLink", "upsertSignup"} => Fresh(o)'
          BY <3>1 DEF IInv, Holds, Sending
    <3> QED BY <1>1, <1>4, <2>2, <3>2, QuietHolds
  <2> QED BY <2>1, <2>2
<1>8. Apart'
  <2>1. \A o \in Request : request'[o].at \in Opening =>
          request'[o] = request[o]
        BY <1>4, IdleIsTyped DEF Opening
  <2> QED BY <1>1, <2>1, TablesStand, ApartStands DEF IInv
<1>9. \A t : Kept(t)
      BY <1>1, TablesStand
<1>10. MailIsAddressed'
  <2>1. ASSUME NEW t \in Token, NEW e \in Email, NEW aud \in Audience,
               <<t, e, aud>> \in mailed'
        PROVE  Addressed(t, e, aud)'
    <3>1. Addressed(t, e, aud)
          BY <1>1, <1>3, <2>1 DEF IInv, MailIsAddressed
    <3> QED BY <1>9, <3>1, AddressedStays
  <2> QED BY <2>1 DEF MailIsAddressed
<1>11. ASSUME NEW u \in Session
       PROVE  SessionIsProven(u)'
      BY <1>1, <1>2, <1>9, SessionStands DEF IInv
<1>12. ASSUME NEW a \in Account
       PROVE  AccountIsProven(a)'
      BY <1>1, <1>2, <1>9, AccountStands DEF IInv
<1>13. SessionsKept
      BY <1>1 DEF SessionsKept
<1>14. CookiesAreSessions' /\ OneBrowserPerLink'
      BY <1>1, <1>2, <1>13, BrowsersStand DEF IInv, TypeOK
<1>15. ActsAreOfSessions'
      BY <1>1, <1>13, ActsStand DEF IInv
<1>16. TablesAreDrawn' /\ ReadingsAreKept' /\ LinkIsOneTime'
  <2>1. TablesAreDrawn'
        BY <1>1 DEF IInv, TablesAreDrawn
  <2>2. ReadingsAreKept'
        BY <1>1, TablesStand DEF IInv, ReadingsAreKept
  <2>3. LinkIsOneTime'
        BY <1>1 DEF IInv, LinkIsOneTime
  <2> QED BY <2>1, <2>2, <2>3
<1> QED BY <1>5, <1>7, <1>8, <1>10, <1>11, <1>12, <1>14, <1>15, <1>16 DEF IInv

(* A request that opens a link is apart from the others: a row consumed at  *)
(* the reading, or another request with it, would have made the two collide.*)
LEMMA OpenKeeps ==
    ASSUME IInv, NEW r \in Request, NEW t \in Token,
           NEW at \in {"claimLink", "readSignup"}, t \in Inbox,
           request[r] = Idle, at = "claimLink" => links[t] # None,
           ReadClock(r, t, at),
           UNCHANGED <<clock, stored, drawn, mailed, cookies, acted>>
    PROVE  IInv'
<1> DEFINE q == State(at, "customer", None, t, None, clock)
<1>1. /\ request' = [request EXCEPT ![r] = q]
      /\ readings' = readings \cup {<<t, clock>>}
      /\ collided' = (collided \/ <<t, clock>> \in readings)
      /\ UNCHANGED <<clock, drawn, links, pending, members, accounts, sessions,
                     mailed, cookies, acted>>
      BY DEF ReadClock, Continue, stored
<1>2. TypeOK /\ t \in drawn /\ t # None /\ clock \in Times
      BY NoneIsNoAuthValue DEF IInv, TypeOK, Inbox
<1>3. /\ q \in RequestState /\ q.at = at /\ q.token = t /\ q.time = clock
  <2>1. clock \in 0 .. MaxClock + LinkLife /\ "customer" \in Audience
        BY <1>2, ClockAssumption DEF Times, Audience
  <2> QED BY <2>1, StateIsTyped, StateFields
<1> HIDE DEF q
<1>4. /\ request'[r] = q
      /\ \A o \in Request : o # r => request'[o] = request[o]
      /\ request' \in [Request -> RequestState]
      BY <1>1, <1>2, <1>3 DEF TypeOK
<1>5. TypeOK'
  <2>1. collided' \in BOOLEAN
        BY <1>1
  <2>2. readings' \subseteq drawn' \X Times
        BY <1>1, <1>2 DEF TypeOK
  <2> QED BY <1>1, <1>2, <1>4, <2>1, <2>2 DEF TypeOK
<1>6. ASSUME NEW o \in Request
      PROVE  Holds(o)'
  <2>1. CASE o = r
    <3>1. Inbox' = Inbox
          BY <1>1 DEF Inbox
    <3> QED BY <1>1, <1>2, <1>3, <1>4, <2>1, <3>1 DEF Holds, Opening, Sending
  <2>2. CASE o # r
    <3>1. ASSUME Fresh(o)
          PROVE  Fresh(o)'
      <4>1. Inbox' = Inbox
            BY <1>1 DEF Inbox
      <4>2. request[o].token # t
            BY <3>1 DEF Fresh
      <4> QED BY <1>1, <1>3, <1>4, <2>2, <3>1, <4>1, <4>2, FreshStands
    <3>2. request[o].at \in {"insertLink", "upsertSignup"} => Fresh(o)'
          BY <3>1 DEF IInv, Holds
    <3> QED BY <1>1, <1>4, <2>2, <3>2, QuietHolds
  <2> QED BY <2>1, <2>2
<1>7. Apart'
  <2>1. ASSUME ~collided'
        PROVE  /\ Apart /\ ~collided
               /\ <<t, clock>> \notin readings
               /\ ~ConsumedAt(t, clock)
        BY <1>1, <1>2, <2>1 DEF IInv, ReadingsAreKept
  <2>2. ASSUME ~collided', NEW o \in Request, o # r,
               request[o].at \in Opening
        PROVE  request[o].token # t \/ request[o].time # clock
        BY <2>1, <2>2 DEF IInv, Holds
  <2>3. ASSUME ~collided', NEW o \in Request, request'[o].at \in Opening
        PROVE  ~ConsumedAt(request[o].token, request[o].time)'
    <3>1. CASE o = r
          BY <1>1, <1>3, <1>4, <2>1, <2>3, <3>1 DEF ConsumedAt, RowsOf
    <3>2. CASE o # r
          BY <1>1, <1>4, <2>1, <2>3, <3>2 DEF ConsumedAt, RowsOf, Apart
    <3> QED BY <3>1, <3>2
  <2>4. ASSUME ~collided', NEW o \in Request, NEW p \in Request,
               request'[o].at \in Opening, request'[p].at \in Opening,
               request'[o].token = request'[p].token,
               request'[o].time = request'[p].time
        PROVE  o = p
        BY <1>3, <1>4, <2>1, <2>2, <2>4 DEF Apart
  <2> QED BY <2>3, <2>4 DEF Apart
<1>8. ActsAreOfSessions'
      BY <1>1 DEF IInv, ActsAreOfSessions
<1> QED BY <1>1, <1>5, <1>6, <1>7, <1>8, QuietStep DEF IInv

-----------------------------------------------------------------------------
(* A token is stored.                                                       *)

LEMMA StoreKeeps ==
    ASSUME IInv, NEW r \in Request, NEW t \in Token, NEW p \in RequestState,
           request[r].at \in {"insertLink", "upsertSignup"},
           t = request[r].token,
           request' = [request EXCEPT ![r] = p],
           p.at = "mail", p.token = t, p.email = request[r].email,
           p.audience = request[r].audience,
           UNCHANGED <<drawn, members, accounts, sessions, mailed, cookies,
                       readings, collided, acted>>,
           TypeOK', TablesAreDrawn',
           \A u \in Token : u # t => Kept(u) /\ links'[u] = links[u],
           \A u \in Token, n \in Times : ConsumedAt(u, n)' => ConsumedAt(u, n),
           Addressed(t, p.email, p.audience)'
    PROVE  IInv'
<1>1. TypeOK /\ Holds(r) /\ Fresh(r)
      BY DEF IInv, Holds
<1>2. /\ request'[r] = p
      /\ \A o \in Request : o # r => request'[o] = request[o]
      BY <1>1 DEF TypeOK
<1>3. /\ t \notin Inbox /\ Inbox' = Inbox
      /\ \A o \in Request : o # r => request[o].token # t
      BY <1>1 DEF Fresh, Inbox
<1>4. \A u \in Token : u \in Inbox => Kept(u)
      BY <1>3
<1>5. SessionsKept
      BY DEF SessionsKept
<1>6. ASSUME NEW o \in Request
      PROVE  Holds(o)'
  <2>1. CASE o = r
    <3>1. t \in drawn' /\ t # None /\ p.email # None
          BY <1>1, NoneIsNoAuthValue DEF Holds, Sending
    <3>2. Addressed(t, p.email, p.audience)'
          OBVIOUS
    <3>3. request'[o] = p
          BY <1>2, <2>1
    <3> QED BY <3>1, <3>2, <3>3
            DEF Holds, Sending, Opening, Addressed, RowsOf
  <2>2. CASE o # r
    <3>1. /\ request'[o] = request[o] /\ request[o].token # t
          /\ request[o] \in RequestState /\ Holds(o)
          BY <1>1, <1>2, <1>3, <2>2 DEF IInv, TypeOK
    <3>2. request[o].token # None =>
            Kept(request[o].token)
              /\ links'[request[o].token] = links[request[o].token]
          BY <3>1 DEF RequestState
    <3>3. request[o].at \in Opening \cup {"mail"} => request[o].token # None
      <4>1. None \notin Inbox
            BY <1>1, NoneIsNoAuthValue DEF TypeOK, Inbox
      <4> QED BY <3>1, <4>1 DEF Holds, Sending
    <3>4. request[o].at \in {"insertLink", "upsertSignup"} => Fresh(o)'
      <4>1. ASSUME request[o].at \in {"insertLink", "upsertSignup"}
            PROVE  Fresh(o)'
        <5>1. Fresh(o) /\ request[o].token # None
              BY <3>1, <4>1 DEF Holds, Sending
        <5>2. /\ links'[request[o].token] = None
              /\ \A e : e \notin RowsOf(request[o].token)'
              BY <3>1, <3>2, <5>1 DEF Fresh, Kept, RowsOf
        <5>3. \A x \in Request : request'[x].token = request[x].token
              BY <1>2
        <5> QED BY <1>3, <3>1, <5>1, <5>2, <5>3 DEF Fresh, RowsOf
      <4> QED BY <4>1
    <3> QED BY <1>1, <1>5, <3>1, <3>2, <3>3, <3>4, HoldsStands
            DEF IInv, TypeOK
  <2> QED BY <2>1, <2>2
<1>7. Apart'
  <2>1. ASSUME NEW o \in Request, request'[o].at \in Opening
        PROVE  /\ request'[o] = request[o]
               /\ request[o].token \in Token /\ request[o].time \in Times
    <3>1. o # r
          BY <1>2, <2>1 DEF Opening
    <3>2. request'[o] = request[o] /\ Holds(o)
          BY <1>2, <3>1 DEF IInv
    <3>3. request[o].token \in Inbox /\ request[o].time \in Times
          BY <2>1, <3>2 DEF Holds
    <3> QED BY <1>1, <3>2, <3>3 DEF TypeOK, Inbox
  <2>2. \A o \in Request : request'[o].at \in Opening =>
             /\ request[o].at \in Opening
             /\ request'[o].token = request[o].token
             /\ request'[o].time = request[o].time
             /\ ConsumedAt(request[o].token, request[o].time)'
                  => ConsumedAt(request[o].token, request[o].time)
    <3>1. ASSUME NEW o \in Request, request'[o].at \in Opening,
                 ConsumedAt(request[o].token, request[o].time)'
          PROVE  ConsumedAt(request[o].token, request[o].time)
      <4>1. ASSUME NEW u, NEW n, u = request[o].token, n = request[o].time
            PROVE  ConsumedAt(u, n)'
            BY <2>1, <3>1, <4>1 DEF ConsumedAt, RowsOf
      <4> QED BY <2>1, <3>1, <4>1
    <3> QED BY <2>1, <3>1
  <2> QED BY <2>2, ApartStands DEF IInv
<1>8. MailIsAddressed'
      BY <1>4, MailStands DEF IInv
<1>9. ASSUME NEW u \in Session
      PROVE  SessionIsProven(u)'
      BY <1>1, <1>4, SessionStands DEF IInv
<1>10. ASSUME NEW a \in Account
       PROVE  AccountIsProven(a)'
      BY <1>1, <1>4, AccountStands DEF IInv
<1>11. CookiesAreSessions' /\ OneBrowserPerLink'
      BY <1>1, <1>5, BrowsersStand DEF IInv, TypeOK
<1>12. ActsAreOfSessions'
      BY <1>5, ActsStand DEF IInv
<1>13. ReadingsAreKept'
      BY DEF IInv, ReadingsAreKept
<1>14. LinkIsOneTime'
      BY DEF IInv, LinkIsOneTime
<1> QED BY <1>6, <1>7, <1>8, <1>9, <1>10, <1>11, <1>12, <1>13, <1>14 DEF IInv

(* The request that stores a token, and what it becomes.                    *)
LEMMA StoringRequest ==
    ASSUME IInv, NEW r \in Request,
           request[r].at \in {"insertLink", "upsertSignup"}
    PROVE  LET q == request[r]
               p == [q EXCEPT !.at = "mail"] IN
           /\ q \in RequestState /\ q.token \in Token /\ q.token \in drawn
           /\ q.email \in Email /\ q.audience \in Audience /\ Fresh(r)
           /\ q.time \in 0 .. MaxClock + LinkLife
           /\ p \in RequestState /\ p.at = "mail" /\ p.token = q.token
           /\ p.email = q.email /\ p.audience = q.audience
<1> DEFINE q == request[r]
<1>1. q \in RequestState /\ Holds(r)
      BY DEF IInv, TypeOK
<1>2. q.token # None /\ q.email # None /\ Fresh(r)
      BY <1>1 DEF Holds, Sending
<1> QED BY <1>1, <1>2 DEF RequestState, Holds

LEMMA InsertLinkKeeps ==
    ASSUME IInv, NEW r \in Request, InsertLink(r)
    PROVE  IInv'
<1> DEFINE q == request[r]
           p == [q EXCEPT !.at = "mail"]
           t == q.token
           row == [audience |-> q.audience, email |-> q.email,
                   expires |-> q.time, consumed |-> None]
<1>1. /\ links' = [links EXCEPT ![t] = row]
      /\ request' = [request EXCEPT ![r] = p]
      /\ UNCHANGED <<clock, drawn, pending, members, accounts, sessions, mailed,
                     cookies, readings, collided, acted>>
      BY DEF InsertLink, Continue, outside
<1>2. q.at = "insertLink"
      BY DEF InsertLink
<1>3. TypeOK
      BY DEF IInv
<1>4. /\ q \in RequestState /\ t \in Token /\ t \in drawn
      /\ q.email \in Email /\ q.audience \in Audience /\ Fresh(r)
      /\ q.time \in 0 .. MaxClock + LinkLife
      /\ p \in RequestState /\ p.at = "mail" /\ p.token = t
      /\ p.email = q.email /\ p.audience = q.audience
      BY <1>2, StoringRequest
<1>5. /\ row \in Link /\ row # None
      /\ row.audience = q.audience /\ row.email = q.email
      /\ row.consumed = None
      BY <1>4, NoneIsNoRow DEF Link
<1> HIDE DEF p, row
<1>6. /\ links' \in [Token -> Link \cup {None}]
      /\ links'[t] = row
      /\ \A u \in Token : u # t => links'[u] = links[u]
      BY <1>1, <1>3, <1>4, <1>5 DEF TypeOK
<1>7. request' \in [Request -> RequestState]
      BY <1>1, <1>3, <1>4 DEF TypeOK
<1>8. TypeOK'
      BY <1>1, <1>3, <1>6, <1>7 DEF TypeOK
<1>9. links[t] = None /\ RowsOf(t) = {}
      BY <1>4 DEF Fresh
<1>10. \A u : RowsOf(u)' = RowsOf(u)
      BY <1>1 DEF RowsOf
<1>11. ASSUME NEW e \in Email, pending[e] # None
       PROVE  pending[e].token # t /\ pending[e].token \in Token
      BY <1>3, <1>9, <1>11 DEF RowsOf, TypeOK, PendingRow
<1>12. TablesAreDrawn'
      BY <1>1, <1>4, <1>6, <1>11 DEF IInv, TablesAreDrawn
<1>13. \A u \in Token : u # t => Kept(u) /\ links'[u] = links[u]
      BY <1>1, <1>6, <1>10 DEF Kept
<1>14. ASSUME NEW u \in Token, NEW n \in Times, ConsumedAt(u, n)'
       PROVE  ConsumedAt(u, n)
  <2>1. None \notin Times
        BY ClockAssumption, NoneIsNoAuthValue DEF Times
  <2> QED BY <1>1, <1>5, <1>6, <1>10, <1>14, <2>1 DEF ConsumedAt
<1>15. ASSUME NEW u, NEW e, NEW aud, u = t, e = p.email, aud = p.audience
       PROVE  Addressed(u, e, aud)'
      BY <1>4, <1>5, <1>6, <1>9, <1>10, <1>15 DEF Addressed
<1> QED BY <1>1, <1>2, <1>4, <1>8, <1>12, <1>13, <1>14, <1>15, StoreKeeps

LEMMA UpsertSignupKeeps ==
    ASSUME IInv, NEW r \in Request, UpsertSignup(r)
    PROVE  IInv'
<1> DEFINE q == request[r]
           p == [q EXCEPT !.at = "mail"]
           t == q.token
           e0 == q.email
           row == Submitted(pending[e0], q)
<1>1. /\ pending' = [pending EXCEPT ![e0] = row]
      /\ request' = [request EXCEPT ![r] = p]
      /\ UNCHANGED <<clock, drawn, links, members, accounts, sessions, mailed,
                     cookies, readings, collided, acted>>
      BY DEF UpsertSignup, Continue, outside
<1>2. q.at = "upsertSignup" /\ q.audience = "customer"
      BY DEF UpsertSignup, IInv, Holds
<1>3. TypeOK
      BY DEF IInv
<1>4. /\ q \in RequestState /\ t \in Token /\ t \in drawn
      /\ e0 \in Email /\ Fresh(r)
      /\ q.time \in 0 .. MaxClock + LinkLife
      /\ p \in RequestState /\ p.at = "mail" /\ p.token = t
      /\ p.email = e0 /\ p.audience = "customer"
      BY <1>2, StoringRequest
<1>5. /\ row \in PendingRow /\ row # None
      /\ row.token = t /\ row.form = t /\ row.consumed = None
      BY <1>4, NoneIsNoRow DEF PendingRow, Submitted
<1> HIDE DEF p, row
<1>6. /\ pending' \in [Email -> PendingRow \cup {None}]
      /\ pending'[e0] = row
      /\ \A e \in Email : e # e0 => pending'[e] = pending[e]
      BY <1>1, <1>3, <1>4, <1>5 DEF TypeOK
<1>7. request' \in [Request -> RequestState]
      BY <1>1, <1>3, <1>4 DEF TypeOK
<1>8. TypeOK'
      BY <1>1, <1>3, <1>6, <1>7 DEF TypeOK
<1>9. links[t] = None /\ RowsOf(t) = {}
      BY <1>4 DEF Fresh
<1>10. ASSUME NEW u, u # t, NEW e, e \in RowsOf(u)'
       PROVE  e \in RowsOf(u) /\ pending'[e] = pending[e]
      BY <1>5, <1>6, <1>10 DEF RowsOf
<1>11. ASSUME NEW u, u = t, NEW e, e \in RowsOf(u)'
       PROVE  e = e0
      BY <1>6, <1>9, <1>11 DEF RowsOf
<1>12. TablesAreDrawn'
      BY <1>1, <1>4, <1>5, <1>6, <1>9 DEF IInv, TablesAreDrawn
<1>13. \A u \in Token : u # t => Kept(u) /\ links'[u] = links[u]
      BY <1>1, <1>10 DEF Kept
<1>14. ASSUME NEW u \in Token, NEW n \in Times, ConsumedAt(u, n)'
       PROVE  ConsumedAt(u, n)
  <2>1. None \notin Times
        BY ClockAssumption, NoneIsNoAuthValue DEF Times
  <2>2. CASE u = t
        BY <1>1, <1>5, <1>6, <1>9, <1>11, <1>14, <2>1, <2>2 DEF ConsumedAt
  <2>3. CASE u # t
        BY <1>1, <1>10, <1>14, <2>3 DEF ConsumedAt
  <2> QED BY <2>2, <2>3
<1>15. ASSUME NEW u, NEW e, NEW aud, u = t, e = p.email, aud = p.audience
       PROVE  Addressed(u, e, aud)'
      BY <1>1, <1>4, <1>9, <1>11, <1>15 DEF Addressed
<1> QED BY <1>1, <1>2, <1>4, <1>8, <1>12, <1>13, <1>14, <1>15, StoreKeeps

-----------------------------------------------------------------------------
(* A token is claimed.                                                      *)

(* What the batch does to the tables of links, and to the request.          *)
Claims(r, t, now) ==
    /\ request' = [request EXCEPT ![r] = Idle]
    /\ UNCHANGED <<clock, drawn, mailed, readings, collided, acted>>
    /\ \A u \in Token : Kept(u)
    /\ \A u \in Token, n \in Times :
         ConsumedAt(u, n)' => ConsumedAt(u, n) \/ (u = t /\ n = now)

(* What it adds for the address: a session, whose token reaches a browser   *)
(* only if this request claimed the row.                                    *)
SessionAdded(s, t, now) ==
    /\ sessions[s].token = None
    /\ sessions'[s].token = t
    /\ sessions'[s].status = "live"
    /\ <<t, sessions'[s].email, sessions'[s].audience>> \in mailed
    /\ \A u \in Session : u # s => sessions'[u] = sessions[u]
    /\ ~Spent(t) \/ ConsumedAt(t, now)
    /\ \/ cookies' = cookies
       \/ cookies' = cookies \cup {s} /\ ~Spent(t)

AccountAdded(a, t) ==
    /\ accounts[a].token = None
    /\ accounts'[a].token = t
    /\ accounts'[a].form = t /\ accounts'[a].slug = t
    /\ accounts'[a].email \in members'
    /\ \A b \in Account : b # a => accounts'[b] = accounts[b]

LEMMA ClaimMoves ==
    ASSUME IInv, NEW r \in Request, NEW t \in Token, NEW now \in Times,
           request[r].at \in Opening,
           t = request[r].token, now = request[r].time,
           Claims(r, t, now), SessionsKept, cookies \subseteq cookies'
    PROVE  /\ \A o \in Request : Holds(o)'
           /\ request' \in [Request -> RequestState]
           /\ MailIsAddressed'
           /\ ReadingsAreKept'
           /\ Apart'
<1>1. TypeOK /\ Holds(r)
      BY DEF IInv
<1>2. /\ request'[r] = Idle
      /\ \A o \in Request : o # r => request'[o] = request[o]
      /\ request' \in [Request -> RequestState]
      BY <1>1, IdleIsTyped DEF TypeOK, Claims
<1>3. /\ \A u \in Token : Kept(u)
      /\ UNCHANGED <<clock, drawn, mailed, readings, collided, acted>>
      BY DEF Claims
<1>4. ASSUME NEW o \in Request
      PROVE  Holds(o)'
  <2>1. CASE o = r
        BY <1>2, <2>1, IdleHolds
  <2>2. CASE o # r
    <3>1. /\ request'[o] = request[o] /\ Holds(o)
          /\ request[o] \in RequestState
          BY <1>1, <1>2, <2>2 DEF IInv, TypeOK
    <3>2. request[o].at \in Opening \cup {"mail"} => request[o].token # None
      <4>1. None \notin Inbox
            BY <1>1, NoneIsNoAuthValue DEF TypeOK, Inbox
      <4> QED BY <3>1, <4>1 DEF Holds, Sending
    <3>3. request[o].token # None => Kept(request[o].token)
          BY <1>3, <3>1 DEF RequestState
    <3>4. request[o].at \in {"insertLink", "upsertSignup"} => Fresh(o)'
      <4>1. ASSUME request[o].at \in {"insertLink", "upsertSignup"}
            PROVE  Fresh(o)'
        <5>1. Fresh(o) /\ Kept(request[o].token) /\ request[o].token # None
              BY <3>1, <3>3, <4>1 DEF Holds, Sending
        <5>2. /\ links'[request[o].token] = None
              /\ \A e : e \notin RowsOf(request[o].token)'
              BY <3>1, <5>1 DEF Fresh, Kept, RowsOf
        <5>3. Inbox' = Inbox
              BY <1>3 DEF Inbox
        <5>4. \A x \in Request :
                request'[x].token \in {request[x].token, None}
              BY <1>2, IdleIsTyped
        <5> QED BY <3>1, <5>1, <5>2, <5>3, <5>4 DEF Fresh, RowsOf
      <4> QED BY <4>1
    <3> QED BY <1>1, <1>3, <3>1, <3>2, <3>3, <3>4, HoldsStands
            DEF IInv, TypeOK
  <2> QED BY <2>1, <2>2
<1>5. MailIsAddressed'
      BY <1>3, MailStands DEF IInv
<1>6. ReadingsAreKept'
  <2>1. <<t, now>> \in readings
        BY <1>1 DEF Holds
  <2> QED BY <2>1 DEF IInv, ReadingsAreKept, Claims
<1>7. Apart'
  <2>1. \A o \in Request : request'[o].at \in Opening =>
             /\ o # r /\ request[o].at \in Opening
             /\ request'[o] = request[o]
             /\ request[o].token \in Token /\ request[o].time \in Times
    <3>1. ASSUME NEW o \in Request, request'[o].at \in Opening
          PROVE  /\ o # r /\ request'[o] = request[o] /\ Holds(o)
                 /\ request[o].at \in Opening
          BY <1>2, <3>1, IdleIsTyped DEF IInv, Opening
    <3>2. \A u \in Inbox : u \in Token
          BY <1>1 DEF TypeOK, Inbox
    <3> QED BY <3>1, <3>2 DEF Holds
  <2>2. ASSUME ~collided, NEW o \in Request, request'[o].at \in Opening
        PROVE  ~ConsumedAt(request[o].token, request[o].time)'
    <3>1. /\ ~ConsumedAt(request[o].token, request[o].time)
          /\ request[o].token # t \/ request[o].time # now
          BY <2>1, <2>2 DEF IInv, Apart
    <3>2. ASSUME NEW u, NEW n, u = request[o].token, n = request[o].time
          PROVE  ~ConsumedAt(u, n)'
          BY <2>1, <2>2, <3>1, <3>2 DEF Claims
    <3> QED BY <2>1, <2>2, <3>2 DEF ConsumedAt, RowsOf
  <2> QED BY <1>3, <2>1, <2>2 DEF IInv, Apart
<1> QED BY <1>2, <1>4, <1>5, <1>6, <1>7

(* The batch claims nothing for the address: at most the row changes.       *)
LEMMA ClaimOfNothing ==
    ASSUME IInv, NEW r \in Request, NEW t \in Token, NEW now \in Times,
           request[r].at \in Opening,
           t = request[r].token, now = request[r].time,
           Claims(r, t, now), TypeOK', TablesAreDrawn',
           UNCHANGED <<members, accounts, sessions, cookies>>
    PROVE  IInv'
<1>1. TypeOK /\ SessionsKept
      BY DEF IInv, SessionsKept
<1>2. /\ \A u \in Token : Kept(u)
      /\ UNCHANGED <<mailed, collided, acted>>
      BY DEF Claims
<1>3. /\ \A o \in Request : Holds(o)'
      /\ MailIsAddressed' /\ ReadingsAreKept' /\ Apart'
      BY <1>1, ClaimMoves
<1>4. ASSUME NEW s \in Session
      PROVE  SessionIsProven(s)'
      BY <1>1, <1>2, SessionStands DEF IInv
<1>5. ASSUME NEW a \in Account
      PROVE  AccountIsProven(a)'
      BY <1>1, <1>2, AccountStands DEF IInv
<1>6. CookiesAreSessions' /\ OneBrowserPerLink'
      BY <1>1, BrowsersStand DEF IInv, TypeOK
<1>7. ActsAreOfSessions'
      BY <1>1, <1>2, ActsStand DEF IInv
<1>8. LinkIsOneTime'
      BY <1>2 DEF IInv, LinkIsOneTime
<1> QED BY <1>3, <1>4, <1>5, <1>6, <1>7, <1>8 DEF IInv

LEMMA ClaimOfSession ==
    ASSUME IInv, NEW r \in Request, NEW t \in Token, NEW now \in Times,
           request[r].at \in Opening,
           t = request[r].token, now = request[r].time,
           Claims(r, t, now), TypeOK', TablesAreDrawn', Spent(t)',
           NEW s \in Session, SessionAdded(s, t, now),
           members \subseteq members',
           \/ accounts' = accounts
           \/ \E a \in Account : AccountAdded(a, t)
    PROVE  IInv'
<1>1. TypeOK /\ Holds(r) /\ t # None /\ t \in Inbox
      BY NoneIsNoAuthValue DEF IInv, Holds
<1>2. /\ \A u \in Token : Kept(u)
      /\ UNCHANGED <<mailed, collided, acted>>
      BY DEF Claims
<1>3. SessionsKept /\ cookies \subseteq cookies'
      BY DEF SessionsKept, SessionAdded
<1>4. /\ \A o \in Request : Holds(o)'
      /\ MailIsAddressed' /\ ReadingsAreKept' /\ Apart'
      BY <1>3, ClaimMoves
<1>5. ASSUME NEW u \in Session
      PROVE  SessionIsProven(u)'
  <2>1. CASE u = s
    <3>1. Spent(sessions[u].token)'
          BY <2>1 DEF SessionAdded, Spent, RowsOf
    <3> QED BY <1>1, <1>2, <2>1, <3>1 DEF SessionAdded, SessionIsProven
  <2>2. CASE u # s
        BY <1>1, <1>2, <2>2, SessionStands DEF IInv, SessionAdded
  <2> QED BY <2>1, <2>2
<1>6. ASSUME NEW b \in Account
      PROVE  AccountIsProven(b)'
  <2>1. CASE accounts'[b] = accounts[b]
        BY <1>1, <1>2, <2>1, AccountStands DEF IInv
  <2>2. CASE AccountAdded(b, t)
    <3>1. Inbox' = Inbox
          BY <1>2 DEF Inbox
    <3>2. Spent(accounts[b].token)'
          BY <2>2 DEF AccountAdded, Spent, RowsOf
    <3> QED BY <1>1, <2>2, <3>1, <3>2 DEF AccountAdded, AccountIsProven
  <2> QED BY <2>1, <2>2 DEF AccountAdded
<1>7. CookiesAreSessions'
      BY <1>1, <1>3 DEF IInv, CookiesAreSessions, SessionAdded, SessionsKept, TypeOK
<1>8. ~Spent(t) => /\ \A u \in Session : sessions[u].token # t
                   /\ \A b \in Account : accounts[b].token # t
      BY <1>1 DEF IInv, SessionIsProven, AccountIsProven
<1>9. OneBrowserPerLink'
  <2>1. ASSUME NEW u \in cookies', NEW w \in cookies',
               sessions'[u].token = sessions'[w].token
        PROVE  u = w
    <3>1. u \in Session /\ w \in Session
          BY <1>1 DEF TypeOK, SessionAdded
    <3>2. CASE u \in cookies /\ w \in cookies
          BY <1>3, <2>1, <3>2
             DEF IInv, CookiesAreSessions, OneBrowserPerLink, SessionsKept, TypeOK
    <3>3. CASE ~(u \in cookies /\ w \in cookies)
      <4>1. ~Spent(t) /\ (u = s \/ w = s)
            BY <2>1, <3>3 DEF SessionAdded
      <4> QED BY <1>8, <2>1, <3>1, <4>1 DEF SessionAdded
    <3> QED BY <3>2, <3>3
  <2> QED BY <2>1 DEF OneBrowserPerLink
<1>10. ActsAreOfSessions'
      BY <1>2, <1>3, ActsStand DEF IInv
<1>11. LinkIsOneTime'
  <2>1. ASSUME ~collided
        PROVE  ~Spent(t)
        BY <2>1 DEF IInv, Apart, SessionAdded
  <2>2. ASSUME ~collided, NEW u \in Session, NEW w \in Session,
               sessions'[u].token # None, sessions'[u].token = sessions'[w].token
        PROVE  u = w
        BY <1>8, <2>1, <2>2 DEF IInv, LinkIsOneTime, SessionAdded
  <2>3. ASSUME ~collided, NEW b \in Account, NEW c \in Account,
               accounts'[b].token # None, accounts'[b].token = accounts'[c].token
        PROVE  b = c
        BY <1>8, <2>1, <2>3 DEF IInv, LinkIsOneTime, AccountAdded
  <2>4. ASSUME NEW b \in Account, accounts'[b].token # None
        PROVE  accounts'[b].email \in members'
        BY <1>6, <2>4 DEF AccountIsProven
  <2> QED BY <1>2, <2>2, <2>3, <2>4 DEF LinkIsOneTime
<1> QED BY <1>4, <1>5, <1>6, <1>7, <1>9, <1>10, <1>11 DEF IInv

(* A row at the reading now, before and after it is claimed.                *)
LEMMA ClaimedRow ==
    ASSUME NEW row, NEW now \in Times, row.consumed \in Times \cup {None}
    PROVE  /\ ClaimedAt(row, now) \in Times \cup {None}
           /\ row.consumed # None => ClaimedAt(row, now) = row.consumed
           /\ \A n : ClaimedAt(row, now) = n => row.consumed = n \/ n = now
           /\ OwnClaim(row, now) =>
                /\ ClaimedAt(row, now) # None
                /\ (Claimable(row, now) \/ row.consumed = now)
           /\ Success(row, now) => row.consumed = None
           /\ Claimable(row, now) => row.consumed = None
<1>1. now # None
      BY ClockAssumption, NoneIsNoAuthValue DEF Times
<1> QED BY <1>1 DEF ClaimedAt, Claimable, OwnClaim, Success

LEMMA OwnedRow ==
    ASSUME NEW row, NEW now \in Times, OwnClaim(row, now)
    PROVE  ClaimedAt(row, now) # None
BY ClockAssumption, NoneIsNoAuthValue DEF OwnClaim, Times

LEMMA SessionIsAdded ==
    ASSUME TypeOK, NEW aud \in Audience, NEW e \in Email, NEW t \in Token,
           NEW ok, NEW now, NewSession(aud, e, t, ok), mailed' = mailed,
           <<t, e, aud>> \in mailed, ok => ~Spent(t),
           ~Spent(t) \/ ConsumedAt(t, now)
    PROVE  /\ sessions' \in [Session -> SessionRow]
           /\ cookies' \subseteq Session
           /\ \E s \in Session : SessionAdded(s, t, now)
<1> DEFINE row == [status |-> "live", audience |-> aud, email |-> e,
                   token |-> t]
<1>1. PICK s \in Session :
        /\ sessions[s] = NoSession
        /\ sessions' = [sessions EXCEPT ![s] = row]
        /\ cookies' \in {cookies, IF ok THEN cookies \cup {s} ELSE cookies}
      BY DEF NewSession
<1>2. /\ row \in SessionRow /\ row.status = "live" /\ row.audience = aud
      /\ row.email = e /\ row.token = t
      BY DEF SessionRow
<1> HIDE DEF row
<1>3. /\ sessions' \in [Session -> SessionRow]
      /\ sessions'[s] = row
      /\ \A u \in Session : u # s => sessions'[u] = sessions[u]
      BY <1>1, <1>2 DEF TypeOK
<1>4. sessions[s].token = None
      BY <1>1 DEF NoSession
<1>5. cookies' = cookies \/ (cookies' = cookies \cup {s} /\ ~Spent(t))
      BY <1>1
<1> QED BY <1>2, <1>3, <1>4, <1>5 DEF SessionAdded, TypeOK

LEMMA ClaimLinkKeeps ==
    ASSUME IInv, NEW r \in Request, ClaimLink(r)
    PROVE  IInv'
<1> DEFINE t == request[r].token
           now == request[r].time
           row == links[t]
           new == [row EXCEPT !.consumed = ClaimedAt(row, now)]
<1>1. TypeOK /\ Holds(r) /\ request[r].at = "claimLink"
      BY DEF IInv, ClaimLink
<1>2. /\ t \in Inbox /\ t \in Token /\ now \in Times /\ row # None
      /\ row \in Link
  <2>1. t \in Inbox /\ now \in Times /\ row # None
        BY <1>1 DEF Holds, Opening
  <2> QED BY <1>1, <2>1 DEF TypeOK, Inbox
<1>3. /\ links' = [links EXCEPT ![t] = new]
      /\ request' = [request EXCEPT ![r] = Idle]
      /\ UNCHANGED <<clock, drawn, pending, members, accounts, mailed, readings,
                     collided, acted>>
      BY DEF ClaimLink, End, Continue
<1>4. row.consumed \in Times \cup {None}
      BY <1>2 DEF Link
<1>5. /\ new \in Link /\ new # None
      /\ new.email = row.email /\ new.audience = row.audience
      /\ new.consumed = ClaimedAt(row, now)
      BY <1>2, <1>4, ClaimedRow, NoneIsNoRow DEF Link
<1> HIDE DEF new
<1>6. /\ links' \in [Token -> Link \cup {None}]
      /\ links'[t] = new
      /\ \A u \in Token : u # t => links'[u] = links[u]
      BY <1>1, <1>2, <1>3, <1>5 DEF TypeOK
<1>7. \A u : RowsOf(u)' = RowsOf(u)
      BY <1>3 DEF RowsOf
<1>8. RowsOf(t) = {}
      BY <1>1, <1>2 DEF IInv, TablesAreDrawn, RowsOf
<1>9. ASSUME NEW u \in Token
      PROVE  Kept(u)
  <2>1. CASE u = t
        BY <1>2, <1>3, <1>4, <1>5, <1>6, <1>7, <2>1, ClaimedRow DEF Kept
  <2>2. CASE u # t
        BY <1>3, <1>6, <1>7, <2>2 DEF Kept
  <2> QED BY <2>1, <2>2
<1>10. ASSUME NEW u \in Token, NEW n \in Times, ConsumedAt(u, n)'
       PROVE  ConsumedAt(u, n) \/ (u = t /\ n = now)
  <2>1. CASE u = t
        BY <1>2, <1>4, <1>5, <1>6, <1>7, <1>8, <1>10, <2>1, ClaimedRow
           DEF ConsumedAt
  <2>2. CASE u # t
        BY <1>3, <1>6, <1>7, <1>10, <2>2 DEF ConsumedAt
  <2> QED BY <2>1, <2>2
<1>11. ASSUME NEW u, NEW n, u = t, n = now
       PROVE  Claims(r, u, n)
      BY <1>3, <1>9, <1>10, <1>11 DEF Claims
<1>12. TablesAreDrawn'
      BY <1>2, <1>3, <1>5, <1>6 DEF IInv, TablesAreDrawn
<1>13. request' \in [Request -> RequestState]
      BY <1>1, <1>3, IdleIsTyped DEF TypeOK
<1>14. CASE OwnClaim(row, now)
  <2>1. NewSession(row.audience, row.email, t, Success(row, now))
        BY <1>14 DEF ClaimLink
  <2>2. row.audience \in Audience /\ row.email \in Email
        BY <1>2 DEF Link
  <2>3. <<t, row.email, row.audience>> \in mailed
    <3>1. PICK m \in mailed : m[1] = t
          BY <1>2 DEF Inbox
    <3>2. m \in drawn \X Email \X Audience
          BY <1>1 DEF TypeOK
    <3>3. m = <<t, m[2], m[3]>> /\ m[2] \in Email /\ m[3] \in Audience
          BY <3>1, <3>2
    <3>4. Addressed(t, m[2], m[3])
          BY <1>2, <3>1, <3>3 DEF IInv, MailIsAddressed
    <3> QED BY <1>2, <3>1, <3>3, <3>4 DEF Addressed
  <2>4. Success(row, now) => ~Spent(t)
        BY <1>2, <1>4, ClaimedRow DEF Spent
  <2>5. ~Spent(t) \/ ConsumedAt(t, now)
        BY <1>2, <1>4, <1>14, ClaimedRow DEF Spent, ConsumedAt
  <2>6. /\ sessions' \in [Session -> SessionRow]
        /\ cookies' \subseteq Session
        /\ \E s \in Session : SessionAdded(s, t, now)
        BY <1>1, <1>2, <1>3, <2>1, <2>2, <2>3, <2>4, <2>5, SessionIsAdded
  <2>7. TypeOK'
        BY <1>1, <1>3, <1>6, <1>13, <2>6 DEF TypeOK
  <2>8. ASSUME NEW u, u = t
        PROVE  Spent(u)'
    <3>1. ClaimedAt(row, now) # None
          BY <1>2, <1>14, OwnedRow
    <3>2. links'[u] = new /\ RowsOf(u)' = {}
          BY <1>6, <1>7, <1>8, <2>8
    <3> QED BY <1>5, <3>1, <3>2 DEF Spent
  <2> QED BY <1>1, <1>2, <1>3, <1>11, <1>12, <2>6, <2>7, <2>8, ClaimOfSession
          DEF Opening
<1>15. CASE ~OwnClaim(row, now)
  <2>1. UNCHANGED <<sessions, cookies>>
        BY <1>15 DEF ClaimLink
  <2>2. TypeOK'
        BY <1>1, <1>3, <1>6, <1>13, <2>1 DEF TypeOK
  <2> QED BY <1>1, <1>2, <1>3, <1>11, <1>12, <2>1, <2>2, ClaimOfNothing
          DEF Opening
<1> QED BY <1>14, <1>15

LEMMA ClaimSignupKeeps ==
    ASSUME IInv, NEW r \in Request, ClaimSignup(r)
    PROVE  IInv'
<1> DEFINE t == request[r].token
           now == request[r].time
           new(e) == [pending[e] EXCEPT !.consumed = ClaimedAt(pending[e], now)]
<1>1. TypeOK /\ Holds(r) /\ request[r].at = "claimSignup"
      BY DEF IInv, ClaimSignup
<1>2. /\ t \in Inbox /\ t \in Token /\ now \in Times /\ request[r].form = t
  <2>1. t \in Inbox /\ now \in Times /\ request[r].form = t
        BY <1>1 DEF Holds, Opening
  <2> QED BY <1>1, <2>1 DEF TypeOK, Inbox
<1>3. /\ pending' = [e \in Email |-> IF e \in RowsOf(t) THEN new(e)
                                    ELSE pending[e]]
      /\ request' = [request EXCEPT ![r] = Idle]
      /\ UNCHANGED <<clock, drawn, links, mailed, readings, collided, acted>>
      BY DEF ClaimSignup, End, Continue
<1>4. ASSUME NEW e \in RowsOf(t)
      PROVE  /\ e \in Email /\ pending[e] \in PendingRow
             /\ pending[e].token = t /\ pending[e].form = t
             /\ links[t] = None
             /\ pending[e].consumed \in Times \cup {None}
  <2>1. /\ e \in Email /\ pending[e] \in PendingRow /\ pending[e] # None
        /\ pending[e].token = t
        BY <1>1 DEF RowsOf, TypeOK
  <2> QED BY <2>1 DEF IInv, TablesAreDrawn, PendingRow
<1>5. ASSUME NEW e \in RowsOf(t)
      PROVE  /\ new(e) \in PendingRow /\ new(e) # None
             /\ new(e).token = t /\ new(e).form = t
             /\ new(e).consumed = ClaimedAt(pending[e], now)
  <2>1. ClaimedAt(pending[e], now) \in Times \cup {None}
        BY <1>2, <1>4, ClaimedRow
  <2> QED BY <1>4, <2>1, NoneIsNoRow DEF PendingRow
<1> HIDE DEF new
<1>6. /\ \A e \in RowsOf(t) : pending'[e] = new(e)
      /\ \A e \in Email : e \notin RowsOf(t) => pending'[e] = pending[e]
      BY <1>3 DEF RowsOf
<1>7. pending' \in [Email -> PendingRow \cup {None}]
      BY <1>1, <1>3, <1>5 DEF TypeOK
<1>8. ASSUME NEW u
      PROVE  RowsOf(u)' = RowsOf(u)
  <2>1. ASSUME NEW e \in Email
        PROVE  /\ pending'[e] = None <=> pending[e] = None
               /\ pending[e] # None => pending'[e].token = pending[e].token
    <3>1. CASE e \in RowsOf(t)
          BY <1>4, <1>5, <1>6, <3>1 DEF RowsOf
    <3>2. CASE e \notin RowsOf(t)
          BY <1>6, <3>2
    <3> QED BY <3>1, <3>2
  <2> QED BY <2>1 DEF RowsOf
<1>9. ASSUME NEW u, u # t, NEW e \in RowsOf(u)
      PROVE  pending'[e] = pending[e]
      BY <1>6, <1>9 DEF RowsOf
<1>10. ASSUME NEW u \in Token
       PROVE  Kept(u)
  <2>1. ASSUME NEW e \in RowsOf(u), pending[e].consumed # None
        PROVE  pending'[e].consumed # None
    <3>1. CASE u = t
          BY <1>2, <1>4, <1>5, <1>6, <2>1, <3>1, ClaimedRow
    <3>2. CASE u # t
          BY <1>9, <2>1, <3>2
    <3> QED BY <3>1, <3>2
  <2> QED BY <1>3, <1>8, <2>1 DEF Kept
<1>11. ASSUME NEW u \in Token, NEW n \in Times, ConsumedAt(u, n)'
       PROVE  ConsumedAt(u, n) \/ (u = t /\ n = now)
  <2>1. CASE links'[u] # None /\ links'[u].consumed = n
        BY <1>3, <2>1 DEF ConsumedAt
  <2>2. CASE \E e \in RowsOf(u)' : pending'[e].consumed = n
    <3>1. PICK e \in RowsOf(u) : pending'[e].consumed = n
          BY <1>8, <2>2
    <3>2. CASE u = t
          BY <1>2, <1>4, <1>5, <1>6, <3>1, <3>2, ClaimedRow DEF ConsumedAt
    <3>3. CASE u # t
          BY <1>9, <3>1, <3>3 DEF ConsumedAt
    <3> QED BY <3>2, <3>3
  <2> QED BY <1>11, <2>1, <2>2 DEF ConsumedAt
<1>12. ASSUME NEW u, NEW n, u = t, n = now
       PROVE  Claims(r, u, n)
      BY <1>3, <1>10, <1>11, <1>12 DEF Claims
<1>13. TablesAreDrawn'
  <2>1. ASSUME NEW e \in Email, pending'[e] # None
        PROVE  /\ pending'[e].token \in drawn'
               /\ pending'[e].form = pending'[e].token
               /\ links'[pending'[e].token] = None
    <3>1. CASE e \in RowsOf(t)
      <4>1. t \in drawn
            BY <1>1, <1>2 DEF TypeOK, Inbox
      <4> QED BY <1>3, <1>4, <1>5, <1>6, <3>1, <4>1
    <3>2. CASE e \notin RowsOf(t)
          BY <1>3, <1>6, <2>1, <3>2 DEF IInv, TablesAreDrawn
    <3> QED BY <3>1, <3>2
  <2>2. \A u \in Token : links'[u] # None => u \in drawn'
        BY <1>3 DEF IInv, TablesAreDrawn
  <2> QED BY <2>1, <2>2 DEF TablesAreDrawn
<1>14. request' \in [Request -> RequestState]
      BY <1>1, <1>3, IdleIsTyped DEF TypeOK
<1>15. ASSUME NEW e \in RowsOf(t), NEW a \in Account,
              OwnClaim(pending[e], now), accounts[a] = NoAccount,
              accounts' = [accounts EXCEPT ![a] =
                             [email |-> e, token |-> t,
                              form |-> pending[e].form,
                              slug |-> request[r].form]],
              members' = members \cup {e},
              NewSession("customer", e, t, Success(pending[e], now))
       PROVE  IInv'
  <2>1. e \in Email /\ "customer" \in Audience
        BY <1>4 DEF Audience
  <2>2. <<t, e, "customer">> \in mailed /\ \A f \in RowsOf(t) : f = e
    <3>1. PICK m \in mailed : m[1] = t
          BY <1>2 DEF Inbox
    <3>2. m \in drawn \X Email \X Audience
          BY <1>1 DEF TypeOK
    <3>3. m = <<t, m[2], m[3]>> /\ m[2] \in Email /\ m[3] \in Audience
          BY <3>1, <3>2
    <3>4. Addressed(t, m[2], m[3])
          BY <1>2, <3>1, <3>3 DEF IInv, MailIsAddressed
    <3>5. m[3] = "customer" /\ \A f \in RowsOf(t) : f = m[2]
          BY <1>4, <3>4 DEF Addressed
    <3>6. e = m[2]
          BY <3>5
    <3> QED BY <3>1, <3>3, <3>5, <3>6
  <2>3. Success(pending[e], now) => ~Spent(t)
        BY <1>2, <1>4, ClaimedRow DEF Spent
  <2>4. ~Spent(t) \/ ConsumedAt(t, now)
        BY <1>2, <1>4, <1>15, ClaimedRow DEF Spent, ConsumedAt
  <2>5. /\ sessions' \in [Session -> SessionRow]
        /\ cookies' \subseteq Session
        /\ \E s \in Session : SessionAdded(s, t, now)
    <3>1. /\ NewSession("customer", e, t, Success(pending[e], now))
          /\ mailed' = mailed
          BY <1>3, <1>15
    <3>2. <<t, e, "customer">> \in mailed
          BY <2>2
    <3> QED BY <1>1, <1>2, <2>1, <2>3, <2>4, <3>1, <3>2, SessionIsAdded
  <2> DEFINE account == [email |-> e, token |-> t, form |-> pending[e].form,
                         slug |-> request[r].form]
  <2>6. /\ account \in AccountRow /\ account.email = e /\ account.token = t
        /\ account.form = t /\ account.slug = t
        BY <1>2, <1>4, <2>1 DEF AccountRow
  <2>7. accounts' = [accounts EXCEPT ![a] = account]
        BY <1>15
  <2> HIDE DEF account
  <2>8. /\ accounts' \in [Account -> AccountRow]
        /\ accounts'[a] = account
        /\ \A b \in Account : b # a => accounts'[b] = accounts[b]
        BY <1>1, <2>6, <2>7 DEF TypeOK
  <2>9. accounts[a].token = None
        BY <1>15 DEF NoAccount
  <2>10. ASSUME NEW u, u = t
         PROVE  AccountAdded(a, u)
        BY <1>15, <2>6, <2>8, <2>9, <2>10 DEF AccountAdded
  <2>11. members' \subseteq Email /\ members \subseteq members'
        BY <1>1, <1>15, <2>1 DEF TypeOK
  <2>12. TypeOK'
        BY <1>1, <1>3, <1>7, <1>14, <2>5, <2>8, <2>11 DEF TypeOK
  <2>13. ASSUME NEW u, u = t
         PROVE  Spent(u)'
    <3>1. ASSUME NEW f \in RowsOf(u)'
          PROVE  pending'[f].consumed # None
      <4>1. f = e
            BY <1>8, <2>2, <2>13
      <4>2. ClaimedAt(pending[e], now) # None
            BY <1>2, <1>15, OwnedRow
      <4> QED BY <1>5, <1>6, <4>1, <4>2
    <3>2. links'[u] = None
          BY <1>3, <1>4, <2>13
    <3> QED BY <3>1, <3>2 DEF Spent
  <2> QED BY <1>1, <1>2, <1>12, <1>13, <2>5, <2>10, <2>11, <2>12, <2>13,
             ClaimOfSession DEF Opening
<1>16. ASSUME UNCHANGED <<accounts, members, sessions, cookies>>
       PROVE  IInv'
  <2>1. TypeOK'
        BY <1>1, <1>3, <1>7, <1>14, <1>16 DEF TypeOK
  <2> QED BY <1>1, <1>2, <1>12, <1>13, <1>16, <2>1, ClaimOfNothing DEF Opening
<1> QED BY <1>15, <1>16 DEF ClaimSignup

-----------------------------------------------------------------------------
LEMMA InvInit ==
    ASSUME Init
    PROVE  IInv
<1>1. TypeOK
  <2>1. NoSession \in SessionRow /\ NoAccount \in AccountRow
        BY DEF SessionRow, NoSession, Audience, AccountRow, NoAccount
  <2>2. 0 \in Times
        BY ClockAssumption DEF Times
  <2>3. /\ sessions \in [Session -> SessionRow]
        /\ accounts \in [Account -> AccountRow]
        /\ request \in [Request -> RequestState]
        BY <2>1, IdleIsTyped DEF Init
  <2>4. /\ links \in [Token -> Link \cup {None}]
        /\ pending \in [Email -> PendingRow \cup {None}]
        BY DEF Init
  <2> QED BY <2>2, <2>3, <2>4 DEF Init, TypeOK
<1>2. Inbox = {} /\ \A t : RowsOf(t) = {}
      BY DEF Init, Inbox, RowsOf
<1>3. \A r \in Request : request[r] = Idle
      BY DEF Init
<1>4. ASSUME NEW r \in Request
      PROVE  Holds(r)
      BY <1>3, IdleIsTyped DEF Holds, Sending, Opening
<1>5. TablesAreDrawn /\ MailIsAddressed /\ CookiesAreSessions
      BY DEF Init, TablesAreDrawn, MailIsAddressed, CookiesAreSessions
<1>6. OneBrowserPerLink /\ ActsAreOfSessions
      BY DEF Init, OneBrowserPerLink, ActsAreOfSessions
<1>7. \A s \in Session : sessions[s] = NoSession /\ sessions[s].token = None
      BY DEF Init, NoSession
<1>8. \A a \in Account : accounts[a] = NoAccount /\ accounts[a].token = None
      BY DEF Init, NoAccount
<1>9. ReadingsAreKept
      BY <1>2 DEF Init, ReadingsAreKept, ConsumedAt
<1>10. Apart
      BY <1>3, IdleIsTyped DEF Apart, Opening
<1>11. LinkIsOneTime
      BY <1>7, <1>8 DEF LinkIsOneTime
<1>12. /\ \A s \in Session : SessionIsProven(s)
       /\ \A a \in Account : AccountIsProven(a)
      BY <1>7, <1>8 DEF SessionIsProven, AccountIsProven
<1> QED BY <1>1, <1>4, <1>5, <1>6, <1>9, <1>10, <1>11, <1>12 DEF IInv

LEMMA InvStutter ==
    ASSUME IInv, UNCHANGED vars
    PROVE  IInv'
<1>1. UNCHANGED <<clock, drawn, links, pending, members, accounts, sessions,
                  mailed, cookies, readings, collided, acted, request>>
      BY DEF vars
<1>2. TypeOK'
      BY <1>1 DEF IInv, TypeOK
<1>3. (\A o \in Request : Holds(o)') /\ Apart'
      BY <1>1, AllHold
<1>4. ActsAreOfSessions'
      BY <1>1 DEF IInv, ActsAreOfSessions
<1> QED BY <1>1, <1>2, <1>3, <1>4, QuietStep DEF IInv

LEMMA RequestLinkKeeps ==
    ASSUME IInv, NEW r \in Request, NEW aud \in Audience, NEW e \in Email,
           RequestLink(r, aud, e)
    PROVE  IInv'
BY DrawKeeps DEF RequestLink

LEMMA RequestSignupKeeps ==
    ASSUME IInv, NEW r \in Request, NEW e \in Email, RequestSignup(r, e)
    PROVE  IInv'
<1>1. "customer" \in Audience /\ request[r] = Idle
      BY DEF Audience, RequestSignup
<1>2. CASE e \in members
      BY <1>1, <1>2, DrawKeeps DEF RequestSignup
<1>3. CASE e \notin members
      BY <1>1, <1>3, DrawKeeps DEF RequestSignup
<1> QED BY <1>2, <1>3

LEMMA OpenLinkKeeps ==
    ASSUME IInv, NEW r \in Request, NEW t \in Token, OpenLink(r, t)
    PROVE  IInv'
BY OpenKeeps DEF OpenLink

LEMMA OpenSignupKeeps ==
    ASSUME IInv, NEW r \in Request, NEW t \in Token, OpenSignup(r, t)
    PROVE  IInv'
BY OpenKeeps DEF OpenSignup

LEMMA InvStep ==
    ASSUME IInv, [Next]_vars
    PROVE  IInv'
<1>1. CASE Tick
      BY <1>1, TickKeeps
<1>2. ASSUME NEW r \in Request, NEW aud \in Audience, NEW e \in Email,
             RequestLink(r, aud, e)
      PROVE  IInv'
      BY <1>2, RequestLinkKeeps
<1>3. ASSUME NEW r \in Request, NEW e \in Email, RequestSignup(r, e)
      PROVE  IInv'
      BY <1>3, RequestSignupKeeps
<1>4. ASSUME NEW r \in Request,
             InsertLink(r) \/ UpsertSignup(r) \/ Mail(r)
      PROVE  IInv'
      BY <1>4, InsertLinkKeeps, UpsertSignupKeeps, MailKeeps
<1>5. ASSUME NEW r \in Request, NEW t \in Token,
             OpenLink(r, t) \/ OpenSignup(r, t)
      PROVE  IInv'
      BY <1>5, OpenLinkKeeps, OpenSignupKeeps
<1>6. ASSUME NEW r \in Request,
             ClaimLink(r) \/ ReadSignup(r) \/ ClaimSignup(r)
      PROVE  IInv'
      BY <1>6, ClaimLinkKeeps, ReadSignupKeeps, ClaimSignupKeeps
<1>7. ASSUME NEW r \in Request, NEW s \in Session, FindSession(r, s)
      PROVE  IInv'
      BY <1>7, FindSessionKeeps
<1>8. ASSUME NEW r \in Request, AuthorizeCustomer(r) \/ Fail(r)
      PROVE  IInv'
      BY <1>8, AuthorizeCustomerKeeps, FailKeeps
<1>9. ASSUME NEW s \in Session, Logout(s) \/ AuthorizeOwner(s)
      PROVE  IInv'
      BY <1>9, LogoutKeeps, AuthorizeOwnerKeeps
<1>10. ASSUME NEW e \in Email, GrantCustomerAdministrator(e)
       PROVE  IInv'
      BY <1>10, GrantKeeps
<1>11. CASE UNCHANGED vars
      BY <1>11, InvStutter
<1> QED BY <1>1, <1>2, <1>3, <1>4, <1>5, <1>6, <1>7, <1>8, <1>9, <1>10, <1>11
        DEF Next

(* The invariant holds of every state a run reaches.                        *)
LEMMA Invariance == Spec => []IInv
<1>1. Init => IInv
      BY InvInit
<1>2. IInv /\ [Next]_vars => IInv'
      BY InvStep
<1> QED BY <1>1, <1>2, PTL DEF Spec

-----------------------------------------------------------------------------
(* The tables, the mail and the requests in flight hold what TypeOK says.   *)
THEOREM TypeCorrect == Spec => []TypeOK
<1>1. IInv => TypeOK
      BY DEF IInv
<1> QED BY <1>1, Invariance, PTL

(* However many requests open a link, and whatever readings of the clock    *)
(* they share, its token lets in one browser at most.                       *)
THEOREM OneBrowser == Spec => []OneBrowserPerLink
<1>1. IInv => OneBrowserPerLink
      BY DEF IInv
<1> QED BY <1>1, Invariance, PTL

(* As long as the readings of a link's openings differ, it creates one      *)
(* session and one account at most.                                         *)
THEOREM OneTime == Spec => []LinkIsOneTime
<1>1. IInv => LinkIsOneTime
      BY DEF IInv
<1> QED BY <1>1, Invariance, PTL

(* Whoever acts in a portal holds a session of that portal which came from  *)
(* a link sent to the address it acts for.                                  *)
THEOREM ActsProven == Spec => []ActsAreProven
<1>1. IInv => ActsAreProven
  <2>1. ASSUME IInv, NEW a \in acted
        PROVE  LET s == sessions[a[2]] IN
               /\ <<s.token, s.email, a[1]>> \in mailed
               /\ s.email \in IF a[1] = "owner" THEN Owner ELSE members
    <3>1. a \in Audience \X Session
          BY <2>1 DEF IInv, TypeOK
    <3>2. a[1] \in Audience /\ a[2] \in Session /\ <<a[1], a[2]>> \in acted
          BY <3>1
    <3>3. /\ sessions[a[2]].token # None
          /\ sessions[a[2]].audience = a[1]
          /\ sessions[a[2]].email \in IF a[1] = "owner" THEN Owner ELSE members
          BY <2>1, <3>2 DEF IInv, ActsAreOfSessions
    <3> QED BY <2>1, <3>2, <3>3 DEF IInv, SessionIsProven
  <2> QED BY <2>1 DEF ActsAreProven
<1> QED BY <1>1, Invariance, PTL

(* An account is what was asked for with the link that created it.          *)
THEOREM FormOfTheLink == Spec => []FormIsOfTheLink
<1>1. IInv => FormIsOfTheLink
  <2>1. ASSUME IInv, NEW a \in Account
        PROVE  /\ accounts[a].form = accounts[a].token
               /\ accounts[a].slug = accounts[a].token
    <3>1. NoAccount.form = None /\ NoAccount.slug = None
          /\ NoAccount.token = None
          BY DEF NoAccount
    <3> QED BY <2>1, <3>1 DEF IInv, AccountIsProven
  <2> QED BY <2>1 DEF FormIsOfTheLink
<1> QED BY <1>1, Invariance, PTL

-----------------------------------------------------------------------------
(* A token is sent once.                                                    *)

(* No message has the token of a request that is to send it, nor does       *)
(* another such request, and an owner message goes to a listed address.     *)
SendsOnce ==
    \A r \in Request : request[r].at \in Sending =>
        /\ request[r].token \notin Inbox
        /\ \A o \in Request :
             (o # r /\ request[o].at \in Sending)
               => request[o].token # request[r].token
        /\ request[r].audience = "owner" => request[r].email \in Owner

(* It stands when no request joins those that send, and what is sent is     *)
(* none of theirs.                                                          *)
LEMMA SendsStand ==
    ASSUME SendsOnce,
           \A o \in Request : request'[o].at \in Sending =>
             /\ request[o].at \in Sending
             /\ request'[o].token = request[o].token
             /\ request'[o].email = request[o].email
             /\ request'[o].audience = request[o].audience
             /\ \A m \in mailed' : m \in mailed \/ m[1] # request[o].token
    PROVE  SendsOnce'
BY DEF SendsOnce, Inbox

(* Most steps send nothing.                                                 *)
LEMMA SendsQuiet ==
    ASSUME IInv, SendsOnce, NEW r \in Request, NEW q,
           request' = [request EXCEPT ![r] = q], mailed' = mailed,
           q.at \in Sending => /\ request[r].at \in Sending
                               /\ q.token = request[r].token
                               /\ q.email = request[r].email
                               /\ q.audience = request[r].audience
    PROVE  SendsOnce'
<1>1. request'[r] = q /\ \A o \in Request : o # r => request'[o] = request[o]
      BY DEF IInv, TypeOK
<1> QED BY <1>1, SendsStand

LEMMA SendsDrawn ==
    ASSUME IInv, SendsOnce, NEW r \in Request, request[r] = Idle, NEW at,
           NEW aud, NEW e, Draw(r, at, aud, e), aud = "owner" => e \in Owner
    PROVE  SendsOnce'
<1>1. PICK t \in Token \ drawn :
        /\ request' = [request EXCEPT ![r] =
                         State(at, aud, e, t, None, clock + LinkLife)]
        /\ mailed' = mailed
      BY DEF Draw, Continue, outside
<1> DEFINE q == State(at, aud, e, t, None, clock + LinkLife)
<1>2. q.at = at /\ q.token = t /\ q.email = e /\ q.audience = aud
      BY StateFields
<1> HIDE DEF q
<1>3. request'[r] = q /\ \A o \in Request : o # r => request'[o] = request[o]
      BY <1>1 DEF IInv, TypeOK, q
<1>4. \A o \in Request : request[o].at \in Sending => request[o].token # t
      BY <1>1 DEF IInv, Holds
<1>5. t \notin Inbox' /\ Inbox' = Inbox
      BY <1>1 DEF IInv, TypeOK, Inbox
<1>6. ASSUME NEW o \in Request, request'[o].at \in Sending
      PROVE  /\ request'[o].token \notin Inbox'
             /\ \A p \in Request :
                  (p # o /\ request'[p].at \in Sending)
                    => request'[p].token # request'[o].token
             /\ request'[o].audience = "owner" => request'[o].email \in Owner
  <2>1. CASE o = r
        BY <1>2, <1>3, <1>4, <1>5, <1>6, <2>1
  <2>2. CASE o # r
    <3>1. request'[o] = request[o] /\ request[o].at \in Sending
          BY <1>3, <1>6, <2>2
    <3>2. \A p \in Request : p # o /\ p # r => request'[p] = request[p]
          BY <1>3
    <3> QED BY <1>2, <1>3, <1>4, <1>5, <3>1, <3>2 DEF SendsOnce
  <2> QED BY <2>1, <2>2
<1> QED BY <1>6 DEF SendsOnce

LEMMA SendsStep ==
    ASSUME IInv, SendsOnce, [Next]_vars
    PROVE  SendsOnce'
<1>1. ASSUME UNCHANGED <<request, mailed>>
      PROVE  SendsOnce'
      BY <1>1 DEF SendsOnce, Inbox
<1>2. ASSUME NEW r \in Request, NEW aud \in Audience, NEW e \in Email,
             RequestLink(r, aud, e)
      PROVE  SendsOnce'
      BY <1>2, SendsDrawn DEF RequestLink, Allowed
<1>3. ASSUME NEW r \in Request, NEW e \in Email, RequestSignup(r, e)
      PROVE  SendsOnce'
  <2>1. PICK at : Draw(r, at, "customer", e)
        BY <1>3 DEF RequestSignup
  <2> QED BY <1>3, <2>1, SendsDrawn DEF RequestSignup
<1>4. ASSUME NEW r \in Request, InsertLink(r) \/ UpsertSignup(r)
      PROVE  SendsOnce'
  <2> DEFINE q == [request[r] EXCEPT !.at = "mail"]
  <2>1. /\ request' = [request EXCEPT ![r] = q] /\ mailed' = mailed
        /\ request[r].at \in Sending
        BY <1>4 DEF InsertLink, UpsertSignup, Continue, outside, Sending
  <2>2. /\ q.token = request[r].token /\ q.email = request[r].email
        /\ q.audience = request[r].audience
        OBVIOUS
  <2> QED BY <2>1, <2>2, SendsQuiet
<1>5. ASSUME NEW r \in Request, Mail(r)
      PROVE  SendsOnce'
  <2>1. /\ request[r].at \in Sending
        /\ mailed' = mailed \cup {<<request[r].token, request[r].email,
                                    request[r].audience>>}
        /\ request'[r] = Idle
        /\ \A o \in Request : o # r => request'[o] = request[o]
        BY <1>5 DEF Mail, End, Continue, IInv, TypeOK, Sending
  <2>2. ASSUME NEW o \in Request, request'[o].at \in Sending
        PROVE  /\ request'[o] = request[o]
               /\ \A m \in mailed' : m \in mailed \/ m[1] # request[o].token
    <3>1. o # r
          BY <2>1, <2>2, IdleIsTyped DEF Sending
    <3>2. request[r].token # request[o].token
          BY <2>1, <2>2, <3>1 DEF SendsOnce
    <3> QED BY <2>1, <3>1, <3>2
  <2> QED BY <2>2, SendsStand
<1>6. ASSUME NEW r \in Request, NEW t, NEW at \in Opening, ReadClock(r, t, at),
             mailed' = mailed
      PROVE  SendsOnce'
  <2>1. State(at, "customer", None, t, None, clock).at \notin Sending
        BY StateFields DEF Opening, Sending
  <2> QED BY <1>6, <2>1, SendsQuiet DEF ReadClock, Continue
<1>7. ASSUME NEW r \in Request, NEW s \in Session, FindSession(r, s)
      PROVE  SendsOnce'
  <2>1. State("readAccounts", "customer", sessions[s].email, None, s, 0).at
          \notin Sending
        BY StateFields DEF Sending
  <2> QED BY <1>7, <2>1, SendsQuiet DEF FindSession, Continue, outside
<1>8. ASSUME NEW r \in Request, End(r), mailed' = mailed
      PROVE  SendsOnce'
  <2>1. Idle.at \notin Sending
        BY IdleIsTyped DEF Sending
  <2> QED BY <1>8, <2>1, SendsQuiet DEF End, Continue
<1>9. ASSUME NEW r \in Request, ReadSignup(r)
      PROVE  SendsOnce'
  <2>1. mailed' = mailed /\ request[r].at = "readSignup"
        BY <1>9 DEF ReadSignup, outside
  <2>2. CASE End(r)
        BY <1>8, <2>1, <2>2
  <2>3. ASSUME NEW f, Continue(r, [request[r] EXCEPT !.at = "claimSignup",
                                                     !.form = f])
        PROVE  SendsOnce'
    <3>1. request[r] \in RequestState
          BY DEF IInv, TypeOK
    <3>2. [request[r] EXCEPT !.at = "claimSignup", !.form = f].at
            = "claimSignup"
          BY <3>1 DEF RequestState
    <3> QED BY <2>1, <2>3, <3>2, SendsQuiet DEF Continue, Sending
  <2> QED BY <1>9, <2>2, <2>3 DEF ReadSignup
<1>10. ASSUME NEW r \in Request, ClaimLink(r) \/ ClaimSignup(r) \/ Fail(r)
                                   \/ AuthorizeCustomer(r)
       PROVE  SendsOnce'
       BY <1>8, <1>10 DEF ClaimLink, ClaimSignup, Fail, AuthorizeCustomer, Act,
          outside
<1>11. ASSUME NEW r \in Request, NEW t \in Token,
              OpenLink(r, t) \/ OpenSignup(r, t)
       PROVE  SendsOnce'
       BY <1>6, <1>11 DEF OpenLink, OpenSignup, Opening
<1>12. ASSUME Tick \/ UNCHANGED vars
       PROVE  SendsOnce'
       BY <1>1, <1>12 DEF Tick, vars, outside
<1>13. ASSUME NEW s \in Session, Logout(s) \/ AuthorizeOwner(s)
       PROVE  SendsOnce'
       BY <1>1, <1>13 DEF Logout, AuthorizeOwner, Act, outside
<1>14. ASSUME NEW e \in Email, GrantCustomerAdministrator(e)
       PROVE  SendsOnce'
       BY <1>1, <1>14 DEF GrantCustomerAdministrator, outside
<1> QED BY <1>2, <1>3, <1>4, <1>5, <1>7, <1>9, <1>10, <1>11, <1>12, <1>13,
           <1>14 DEF Next

LEMMA SendsInvariance == Spec => []SendsOnce
<1>1. Init => SendsOnce
      BY IdleIsTyped DEF Init, SendsOnce, Sending
<1>2. IInv /\ SendsOnce /\ [Next]_vars => SendsOnce'
      BY SendsStep
<1> QED BY <1>1, <1>2, Invariance, PTL DEF Spec

-----------------------------------------------------------------------------
(* The portals implement the access they promise.                           *)

(* The mapped variables, named.                                             *)
AbsSignedIn == {<<sessions[s].token, s>> : s \in cookies}
AbsEnded == {s \in cookies : sessions[s].status = "revoked"}

(* A browser let in is known by the token and the address of its message.   *)
LEMMA CookieIsOf ==
    ASSUME IInv, NEW s \in cookies
    PROVE  /\ s \in Session
           /\ sessions[s].token \in Token /\ sessions[s].email \in Email
           /\ <<sessions[s].token, s>> \in AbsSignedIn
           /\ <<sessions[s].token, sessions[s].email, sessions[s].audience>>
                \in mailed
<1>1. s \in Session /\ sessions[s].token # None
      BY DEF IInv, TypeOK, CookiesAreSessions
<1>2. sessions[s].token \in Token /\ sessions[s].email \in Email
      BY <1>1, ProofsAreMailed DEF IInv
<1> QED BY <1>1, <1>2 DEF IInv, SessionIsProven, AbsSignedIn

(* A request that does not find a session adds none to those found.         *)
LEMMA FoundStands ==
    ASSUME TypeOK, NEW r \in Request, NEW q, q.at # "readAccounts",
           request' = [request EXCEPT ![r] = q]
    PROVE  /\ Found' \subseteq Found
           /\ request[r].at # "readAccounts" => Found' = Found
<1>1. request'[r] = q /\ \A o \in Request : o # r => request'[o] = request[o]
      BY DEF TypeOK
<1> QED BY <1>1 DEF Found

(* Sessions that browsers hold are the same as before.                      *)
LEMMA AccessStands ==
    ASSUME cookies' = cookies, \A s \in cookies : sessions'[s] = sessions[s]
    PROVE  AbsSignedIn' = AbsSignedIn /\ AbsEnded' = AbsEnded
BY DEF AbsSignedIn, AbsEnded

(* A step that shows nothing outside, but for requests that are over.       *)
LEMMA ForgetStep ==
    ASSUME UNCHANGED <<mailed, members, accounts, acted>>,
           AbsSignedIn' = AbsSignedIn, AbsEnded' = AbsEnded,
           Found' \subseteq Found
    PROVE  Access!Next
BY DEF Access!Next, Access!Forget, AbsSignedIn, AbsEnded

LEMMA QuietAccess ==
    ASSUME IInv, NEW r \in Request, NEW q, q.at # "readAccounts",
           request' = [request EXCEPT ![r] = q],
           UNCHANGED <<members, accounts, sessions, mailed, cookies, acted>>
    PROVE  Access!Next
BY ForgetStep, AccessStands, FoundStands DEF IInv

(* A new session lets in a browser by its token, if it is the first.        *)
LEMMA LetInByToken ==
    ASSUME IInv, NEW aud, NEW e, NEW t \in Token, NEW ok,
           NewSession(aud, e, t, ok), ok => ~Spent(t)
    PROVE  /\ AbsEnded' = AbsEnded
           /\ \/ AbsSignedIn' = AbsSignedIn
              \/ \E s \in Session :
                   /\ \A i \in AbsSignedIn : i[1] # t /\ i[2] # s
                   /\ AbsSignedIn' = AbsSignedIn \cup {<<t, s>>}
<1> DEFINE row == [status |-> "live", audience |-> aud, email |-> e,
                   token |-> t]
<1>1. PICK s \in Session :
        /\ sessions[s] = NoSession
        /\ sessions' = [sessions EXCEPT ![s] = row]
        /\ cookies' \in {cookies, IF ok THEN cookies \cup {s} ELSE cookies}
      BY DEF NewSession
<1>2. row.status = "live" /\ row.token = t
      OBVIOUS
<1> HIDE DEF row
<1>3. /\ sessions'[s] = row
      /\ \A u \in Session : u # s => sessions'[u] = sessions[u]
      BY <1>1 DEF IInv, TypeOK
<1>4. s \notin cookies /\ cookies \subseteq Session
      BY <1>1 DEF IInv, TypeOK, CookiesAreSessions, NoSession
<1>5. \A u \in cookies : sessions'[u] = sessions[u]
      BY <1>3, <1>4
<1>6. CASE cookies' = cookies
      BY <1>5, <1>6, AccessStands
<1>7. CASE cookies' = cookies \cup {s} /\ ok
  <2>1. AbsEnded' = AbsEnded
        BY <1>2, <1>3, <1>5, <1>7 DEF AbsEnded
  <2>2. AbsSignedIn' = AbsSignedIn \cup {<<t, s>>}
        BY <1>2, <1>3, <1>5, <1>7 DEF AbsSignedIn
  <2>3. ASSUME NEW u \in cookies
        PROVE  sessions[u].token # t /\ u # s
    <3>1. sessions[u].token # None /\ SessionIsProven(u)
          BY <1>4 DEF IInv, CookiesAreSessions
    <3>2. ~Spent(t)
          BY <1>7
    <3> QED BY <1>4, <3>1, <3>2 DEF SessionIsProven
  <2>4. \A i \in AbsSignedIn : i[1] # t /\ i[2] # s
        BY <2>3 DEF AbsSignedIn
  <2> QED BY <2>1, <2>2, <2>4
<1> QED BY <1>1, <1>6, <1>7

LEMMA MailAccess ==
    ASSUME IInv, SendsOnce, NEW r \in Request, Mail(r)
    PROVE  Access!Next
<1> DEFINE t == request[r].token
           e == request[r].email
           p == request[r].audience
<1>1. /\ request[r].at = "mail"
      /\ mailed' = mailed \cup {<<t, e, p>>}
      /\ request' = [request EXCEPT ![r] = Idle]
      /\ UNCHANGED <<members, accounts, sessions, cookies, acted>>
      BY DEF Mail, End, Continue, stored
<1>2. t \in Token /\ e \in Email /\ p \in {"customer", "owner"}
  <2>1. request[r] \in RequestState /\ t # None /\ e # None
        BY <1>1 DEF IInv, TypeOK, Holds, Sending
  <2> QED BY <2>1 DEF RequestState, Audience
<1>3. (\A m \in mailed : m[1] # t) /\ (p = "owner" => e \in Owner)
      BY <1>1 DEF SendsOnce, Sending, Inbox
<1>4. AbsSignedIn' = AbsSignedIn /\ AbsEnded' = AbsEnded
      BY <1>1, AccessStands
<1>5. Found' = Found
      BY <1>1, IdleIsTyped, FoundStands DEF IInv
<1>6. Access!Send(t, e, p)
      BY <1>1, <1>3, <1>4, <1>5 DEF Access!Send, AbsSignedIn, AbsEnded
<1> QED BY <1>2, <1>6 DEF Access!Next

LEMMA ClaimLinkAccess ==
    ASSUME IInv, NEW r \in Request, ClaimLink(r)
    PROVE  Access!Next
<1>0. PICK t : t = request[r].token
      OBVIOUS
<1> DEFINE now == request[r].time
           row == links[t]
<1>1. /\ TypeOK /\ Holds(r) /\ request[r].at = "claimLink"
      /\ request' = [request EXCEPT ![r] = Idle]
      /\ UNCHANGED <<members, accounts, mailed, acted>>
      BY DEF IInv, ClaimLink, End, Continue
<1>2. t \in Inbox /\ t \in Token /\ now \in Times /\ row \in Link
  <2>1. t \in Inbox /\ now \in Times /\ row # None
        BY <1>0, <1>1 DEF Holds, Opening
  <2> QED BY <1>1, <2>1 DEF TypeOK, Inbox
<1>3. Found' = Found
      BY <1>1, IdleIsTyped, FoundStands
<1>4. CASE UNCHANGED <<sessions, cookies>>
      BY <1>1, <1>3, <1>4, ForgetStep, AccessStands
<1>5. ASSUME NewSession(row.audience, row.email, t, Success(row, now))
      PROVE  Access!Next
  <2>1. Success(row, now) => ~Spent(t)
    <3>1. row # None /\ row.consumed \in Times \cup {None}
          BY <1>2, NoneIsNoRow DEF Link
    <3> QED BY <1>2, <3>1, ClaimedRow DEF Spent
  <2>2. /\ AbsEnded' = AbsEnded
        /\ \/ AbsSignedIn' = AbsSignedIn
           \/ \E s \in Session :
                /\ \A i \in AbsSignedIn : i[1] # t /\ i[2] # s
                /\ AbsSignedIn' = AbsSignedIn \cup {<<t, s>>}
        BY <1>2, <1>5, <2>1, LetInByToken
  <2>3. CASE AbsSignedIn' = AbsSignedIn
        BY <1>1, <1>3, <2>2, <2>3, ForgetStep
  <2>4. ASSUME NEW s \in Session,
               \A i \in AbsSignedIn : i[1] # t /\ i[2] # s,
               AbsSignedIn' = AbsSignedIn \cup {<<t, s>>}
        PROVE  Access!Next
    <3>1. \E m \in mailed : m[1] = t
          BY <1>2 DEF Inbox
    <3>2. Access!SignIn(t, s)
          BY <1>1, <1>3, <2>2, <2>4, <3>1 DEF Access!SignIn, Access!LetIn,
             AbsSignedIn, AbsEnded
    <3> QED BY <1>2, <3>2 DEF Access!Next
  <2> QED BY <2>2, <2>3, <2>4
<1> QED BY <1>0, <1>4, <1>5 DEF ClaimLink

LEMMA ClaimSignupAccess ==
    ASSUME IInv, NEW r \in Request, ClaimSignup(r)
    PROVE  Access!Next
<1> DEFINE t   == request[r].token
           now == request[r].time
<1>1. /\ TypeOK /\ Holds(r) /\ request[r].at = "claimSignup"
      /\ request' = [request EXCEPT ![r] = Idle]
      /\ UNCHANGED <<mailed, acted>>
      BY DEF IInv, ClaimSignup, End, Continue
<1>2. t \in Inbox /\ t \in Token /\ now \in Times /\ request[r].form = t
  <2>1. t \in Inbox /\ now \in Times /\ request[r].form = t
        BY <1>1 DEF Holds, Opening
  <2> QED BY <1>1, <2>1 DEF TypeOK, Inbox
<1>3. Found' = Found
      BY <1>1, IdleIsTyped, FoundStands
<1>4. CASE UNCHANGED <<accounts, members, sessions, cookies>>
      BY <1>1, <1>3, <1>4, ForgetStep, AccessStands
<1>5. ASSUME NEW e \in RowsOf(t), NEW a \in Account,
             accounts[a] = NoAccount,
             accounts' = [accounts EXCEPT ![a] =
                            [email |-> e, token |-> t,
                             form |-> pending[e].form,
                             slug |-> request[r].form]],
             members' = members \cup {e},
             NewSession("customer", e, t, Success(pending[e], now))
      PROVE  Access!Next
  <2>1. /\ e \in Email /\ pending[e] \in PendingRow /\ pending[e] # None
        /\ pending[e].token = t
        BY <1>1 DEF RowsOf, TypeOK
  <2>2. pending[e].form = t /\ links[t] = None
        BY <2>1 DEF IInv, TablesAreDrawn
  <2>3. pending[e].consumed \in Times \cup {None}
        BY <2>1 DEF PendingRow
  <2>4. <<t, e, "customer">> \in mailed
    <3>1. PICK m \in mailed : m[1] = t
          BY <1>2 DEF Inbox
    <3>2. m = <<t, m[2], m[3]>> /\ m[2] \in Email /\ m[3] \in Audience
          BY <1>1, <3>1 DEF TypeOK
    <3>3. Addressed(t, m[2], m[3])
          BY <1>2, <3>1, <3>2 DEF IInv, MailIsAddressed
    <3> QED BY <1>5, <2>2, <3>1, <3>2, <3>3 DEF Addressed
  <2>5. Success(pending[e], now) => ~Spent(t)
        BY <1>2, <2>3, ClaimedRow DEF Spent
  <2>6. /\ AbsEnded' = AbsEnded
        /\ \/ AbsSignedIn' = AbsSignedIn
           \/ \E s \in Session :
                /\ \A i \in AbsSignedIn : i[1] # t /\ i[2] # s
                /\ AbsSignedIn' = AbsSignedIn \cup {<<t, s>>}
        BY <1>2, <1>5, <2>5, LetInByToken
  <2>7. accounts' = [accounts EXCEPT ![a] = [email |-> e, token |-> t,
                                             form |-> t, slug |-> t]]
        BY <1>2, <1>5, <2>2
  <2>8. Access!OpenAccount(a, t, e)
        BY <1>1, <1>3, <1>5, <2>4, <2>6, <2>7 DEF Access!OpenAccount,
           Access!LetIn, AbsSignedIn, AbsEnded
  <2> QED BY <1>2, <2>1, <2>8 DEF Access!Next
<1> QED BY <1>4, <1>5 DEF ClaimSignup

LEMMA FindSessionAccess ==
    ASSUME IInv, NEW r \in Request, NEW s \in Session, FindSession(r, s)
    PROVE  Access!Next
<1> DEFINE q == State("readAccounts", "customer", sessions[s].email, None, s, 0)
<1>1. /\ request[r] = Idle /\ s \in cookies
      /\ sessions[s].status = "live" /\ sessions[s].audience = "customer"
      /\ request' = [request EXCEPT ![r] = q]
      /\ UNCHANGED <<members, accounts, sessions, mailed, cookies, acted>>
      BY DEF FindSession, FoundFor, Continue, stored, outside
<1>2. q.at = "readAccounts" /\ q.session = s
      BY StateFields
<1> HIDE DEF q
<1>3. request'[r] = q /\ \A o \in Request : o # r => request'[o] = request[o]
      BY <1>1 DEF IInv, TypeOK
<1>4. Found' = Found \cup {s}
      BY <1>1, <1>2, <1>3, IdleIsTyped DEF Found
<1>5. AbsSignedIn' = AbsSignedIn /\ AbsEnded' = AbsEnded
      BY <1>1, AccessStands
<1>6. \E e \in Email : Access!Open(s, e, "customer")
      BY <1>1, CookieIsOf DEF Access!Open, Access!IsOf, AbsSignedIn
<1>7. Access!Find(s)
      BY <1>1, <1>4, <1>5, <1>6 DEF Access!Find, AbsSignedIn, AbsEnded
<1> QED BY <1>7 DEF Access!Next

LEMMA AuthorizeCustomerAccess ==
    ASSUME IInv, NEW r \in Request, AuthorizeCustomer(r)
    PROVE  Access!Next
<1> DEFINE s == request[r].session
           e == request[r].email
<1>1. /\ TypeOK /\ Holds(r) /\ request[r].at = "readAccounts"
      /\ e \in members
      /\ acted' = acted \cup {<<"customer", s>>}
      /\ request' = [request EXCEPT ![r] = Idle]
      /\ UNCHANGED <<members, accounts, sessions, mailed, cookies>>
      BY DEF IInv, AuthorizeCustomer, Act, End, Continue, stored
<1>2. s \in Found /\ Found' \subseteq Found
  <2>1. s \in Found
        BY <1>1 DEF Found
  <2> QED BY <1>1, <2>1, IdleIsTyped, FoundStands
<1>3. /\ s \in cookies /\ sessions[s].email = e
      /\ sessions[s].audience = "customer"
      BY <1>1 DEF Holds
<1>4. Access!IsOf(s, e, "customer")
      BY <1>3, CookieIsOf DEF Access!IsOf, AbsSignedIn
<1>5. AbsSignedIn' = AbsSignedIn /\ AbsEnded' = AbsEnded
      BY <1>1, AccessStands
<1>6. Access!CustomerActs(s)
      BY <1>1, <1>2, <1>4, <1>5 DEF Access!CustomerActs, AbsSignedIn, AbsEnded
<1>7. s \in Session
      BY <1>3, CookieIsOf
<1> QED BY <1>6, <1>7 DEF Access!Next

LEMMA AuthorizeOwnerAccess ==
    ASSUME IInv, NEW s \in Session, AuthorizeOwner(s)
    PROVE  Access!Next
<1>1. /\ s \in cookies /\ sessions[s].status = "live"
      /\ sessions[s].audience = "owner" /\ sessions[s].email \in Owner
      /\ acted' = acted \cup {<<"owner", s>>}
      /\ UNCHANGED <<members, accounts, sessions, mailed, cookies, request>>
      BY DEF AuthorizeOwner, FoundFor, Act, stored
<1>2. \E e \in Owner : Access!Open(s, e, "owner")
      BY <1>1, CookieIsOf DEF Access!Open, Access!IsOf, AbsSignedIn
<1>3. AbsSignedIn' = AbsSignedIn /\ AbsEnded' = AbsEnded /\ Found' = Found
      BY <1>1, AccessStands DEF Found
<1>4. Access!OwnerActs(s)
      BY <1>1, <1>2, <1>3 DEF Access!OwnerActs, AbsSignedIn, AbsEnded
<1> QED BY <1>4 DEF Access!Next

LEMMA LogoutAccess ==
    ASSUME IInv, NEW s \in Session, Logout(s)
    PROVE  Access!Next
<1>1. /\ s \in cookies
      /\ sessions' = [sessions EXCEPT ![s].status = "revoked"]
      /\ UNCHANGED <<members, accounts, mailed, cookies, acted, request>>
      BY DEF Logout, outside
<1>2. /\ sessions'[s].status = "revoked" /\ sessions'[s].token = sessions[s].token
      /\ \A u \in Session : u # s => sessions'[u] = sessions[u]
      /\ cookies \subseteq Session
      BY <1>1 DEF IInv, TypeOK, SessionRow
<1>3. AbsSignedIn' = AbsSignedIn
      BY <1>1, <1>2 DEF AbsSignedIn
<1>4. AbsEnded' = AbsEnded \cup {s}
      BY <1>1, <1>2 DEF AbsEnded
<1>5. \E i \in AbsSignedIn : i[2] = s
      BY <1>1, CookieIsOf
<1>6. Found' = Found
      BY <1>1 DEF Found
<1>7. Access!End(s)
      BY <1>1, <1>3, <1>4, <1>5, <1>6 DEF Access!End, AbsSignedIn, AbsEnded
<1> QED BY <1>7 DEF Access!Next

LEMMA GrantAccess ==
    ASSUME NEW e \in Email, GrantCustomerAdministrator(e)
    PROVE  Access!Next
<1>1. /\ members' = members \cup {e}
      /\ UNCHANGED <<accounts, sessions, mailed, cookies, acted, request>>
      BY DEF GrantCustomerAdministrator, outside
<1>2. AbsSignedIn' = AbsSignedIn /\ AbsEnded' = AbsEnded /\ Found' = Found
      BY <1>1, AccessStands DEF Found
<1> QED BY <1>1, <1>2 DEF Access!Next, Access!Grant, AbsSignedIn, AbsEnded

(* A request that does one of its steps inside shows nothing.               *)
LEMMA InsideAccess ==
    ASSUME IInv, NEW r \in Request,
           \/ \E aud \in Audience, e \in Email : RequestLink(r, aud, e)
           \/ \E e \in Email : RequestSignup(r, e)
           \/ InsertLink(r) \/ UpsertSignup(r) \/ ReadSignup(r) \/ Fail(r)
           \/ \E t \in Token : OpenLink(r, t) \/ OpenSignup(r, t)
    PROVE  Access!Next
<1>1. UNCHANGED <<members, accounts, sessions, mailed, cookies, acted>>
      BY DEF RequestLink, RequestSignup, Draw, InsertLink, UpsertSignup,
         ReadSignup, Fail, OpenLink, OpenSignup, stored, outside
<1>2. \E q : q.at # "readAccounts" /\ request' = [request EXCEPT ![r] = q]
  <2>1. ASSUME NEW at \in {"insertLink", "upsertSignup"}, NEW aud, NEW e,
               Draw(r, at, aud, e)
        PROVE  \E q : q.at # "readAccounts"
                        /\ request' = [request EXCEPT ![r] = q]
    <3>1. PICK t : Continue(r, State(at, aud, e, t, None, clock + LinkLife))
          BY <2>1 DEF Draw
    <3>2. State(at, aud, e, t, None, clock + LinkLife).at = at
          BY StateFields
    <3> QED BY <3>1, <3>2 DEF Continue
  <2>2. ASSUME NEW t, NEW at \in Opening, ReadClock(r, t, at)
        PROVE  \E q : q.at # "readAccounts"
                        /\ request' = [request EXCEPT ![r] = q]
    <3>1. State(at, "customer", None, t, None, clock).at = at
          BY StateFields
    <3> QED BY <2>2, <3>1 DEF ReadClock, Continue, Opening
  <2>3. ASSUME NEW at \in {"mail", "claimSignup"}, NEW f,
               \/ Continue(r, [request[r] EXCEPT !.at = at])
               \/ Continue(r, [request[r] EXCEPT !.at = at, !.form = f])
        PROVE  \E q : q.at # "readAccounts"
                        /\ request' = [request EXCEPT ![r] = q]
    <3>1. request[r] \in RequestState
          BY DEF IInv, TypeOK
    <3>2. /\ [request[r] EXCEPT !.at = at].at = at
          /\ [request[r] EXCEPT !.at = at, !.form = f].at = at
          BY <3>1 DEF RequestState
    <3> QED BY <2>3, <3>2 DEF Continue
  <2>4. CASE End(r)
        BY <2>4, IdleIsTyped DEF End, Continue
  <2>5. CASE \/ \E aud \in Audience, e \in Email : RequestLink(r, aud, e)
             \/ \E e \in Email : RequestSignup(r, e)
        BY <2>1, <2>5 DEF RequestLink, RequestSignup
  <2>6. CASE \E t \in Token : OpenLink(r, t) \/ OpenSignup(r, t)
        BY <2>2, <2>6 DEF OpenLink, OpenSignup, Opening
  <2>7. CASE InsertLink(r) \/ UpsertSignup(r)
        BY <2>3, <2>7 DEF InsertLink, UpsertSignup
  <2>8. CASE ReadSignup(r)
        BY <2>3, <2>4, <2>8 DEF ReadSignup
  <2>9. CASE Fail(r)
        BY <2>4, <2>9 DEF Fail
  <2> QED BY <2>5, <2>6, <2>7, <2>8, <2>9
<1> QED BY <1>1, <1>2, QuietAccess

(* Every step of the requests is a step of the access or leaves it alone.   *)
LEMMA AccessStep == IInv /\ SendsOnce /\ [Next]_vars => [Access!Next]_(Access!vars)
<1> SUFFICES ASSUME IInv, SendsOnce, [Next]_vars
             PROVE  [Access!Next]_(Access!vars)
    OBVIOUS
<1>1. CASE Tick \/ UNCHANGED vars
  <2>1. UNCHANGED <<members, accounts, sessions, mailed, cookies, acted, request>>
        BY <1>1 DEF Tick, vars, stored, outside
  <2> QED BY <2>1, AccessStands, ForgetStep DEF Found
<1>2. ASSUME NEW r \in Request, NEW s \in Session, FindSession(r, s)
      PROVE  Access!Next
      BY <1>2, FindSessionAccess
<1>3. ASSUME NEW r \in Request, Mail(r) \/ ClaimLink(r) \/ ClaimSignup(r)
                                 \/ AuthorizeCustomer(r)
      PROVE  Access!Next
      BY <1>3, MailAccess, ClaimLinkAccess, ClaimSignupAccess,
         AuthorizeCustomerAccess
<1>4. ASSUME NEW s \in Session, Logout(s) \/ AuthorizeOwner(s)
      PROVE  Access!Next
      BY <1>4, LogoutAccess, AuthorizeOwnerAccess
<1>5. ASSUME NEW e \in Email, GrantCustomerAdministrator(e)
      PROVE  Access!Next
      BY <1>5, GrantAccess
<1> QED BY <1>1, <1>2, <1>3, <1>4, <1>5, InsideAccess DEF Next

LEMMA AccessInit == Init => Access!Init
<1> SUFFICES ASSUME Init
             PROVE  Access!Init
    OBVIOUS
<1>1. Found = {}
      BY IdleIsTyped DEF Init, Found
<1>2. AbsSignedIn = {} /\ AbsEnded = {}
      BY DEF Init, AbsSignedIn, AbsEnded
<1> QED BY <1>1, <1>2 DEF Init, Access!Init, AbsSignedIn, AbsEnded

(* The portals implement the access they promise.  An invariant could not   *)
(* say it: who may act depends on what had been done when it acted.         *)
THEOREM Implementation == Spec => ImplementsAccess
BY AccessInit, AccessStep, Invariance, SendsInvariance, PTL
   DEF Spec, ImplementsAccess, Access!Spec

=============================================================================
