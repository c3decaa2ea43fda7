------------------------- MODULE LeaseWindowProofs -------------------------
(***************************************************************************)
(* Proofs about LeaseWindow, for any subscriptions, period ends, requests  *)
(* and durations, and a clock that may stop anywhere.                      *)
(***************************************************************************)
EXTENDS LeaseWindow, TLAPS

-----------------------------------------------------------------------------
(* Seconds of instants.                                                     *)

LEMMA SecondsOfInstant ==
    ASSUME NEW t \in Nat
    PROVE  /\ Seconds(t) \in Nat
           /\ t = 2 * Seconds(t) \/ t = 2 * Seconds(t) + 1
BY DEF Seconds, Second

LEMMA SecondsKeepOrder ==
    ASSUME NEW a \in Nat, NEW b \in Nat, a <= b
    PROVE  Seconds(a) <= Seconds(b)
<1>1. /\ Seconds(a) \in Nat
      /\ a = 2 * Seconds(a) \/ a = 2 * Seconds(a) + 1
      BY SecondsOfInstant
<1>2. /\ Seconds(b) \in Nat
      /\ b = 2 * Seconds(b) \/ b = 2 * Seconds(b) + 1
      BY SecondsOfInstant
<1> QED BY <1>1, <1>2

LEMMA SecondsOfSum ==
    ASSUME NEW t \in Nat, NEW n \in Nat
    PROVE  /\ t + n * Second \in Nat
           /\ Seconds(t + n * Second) = Seconds(t) + n
<1> DEFINE u == t + n * Second
<1>1. u \in Nat /\ u = t + 2 * n
      BY DEF Second
<1>2. /\ Seconds(t) \in Nat
      /\ t = 2 * Seconds(t) \/ t = 2 * Seconds(t) + 1
      BY SecondsOfInstant
<1> HIDE DEF u
<1>3. /\ Seconds(u) \in Nat
      /\ u = 2 * Seconds(u) \/ u = 2 * Seconds(u) + 1
      BY <1>1, SecondsOfInstant
<1>4. Seconds(u) = Seconds(t) + n
      BY <1>1, <1>2, <1>3
<1> QED BY <1>1, <1>4 DEF u

-----------------------------------------------------------------------------
(* The dates of a lease that is issued at an instant of clock, with the     *)
(* period and the grace that were read for the time asked.                  *)

LEMMA LeaseEnds ==
    ASSUME NEW issued \in Nat, NEW end \in Nat \cup {None},
           LeaseEnd(issued, end) > issued
    PROVE  /\ LeaseEnd(issued, end) \in Nat
           /\ LeaseEnd(issued, end) <= issued + ActiveTime
           /\ end # None => LeaseEnd(issued, end) <= end
BY DurationsArePositive, NoneIsNoInstant DEF LeaseEnd, Least, ActiveTime, Second

LEMMA GraceEnds ==
    ASSUME NEW leaseEnd \in Nat, NEW grace \in Nat \cup {None}
    PROVE  /\ GraceEnd(leaseEnd, grace) \in Nat
           /\ GraceEnd(leaseEnd, grace) <= leaseEnd + GraceTime
           /\ grace # None => GraceEnd(leaseEnd, grace) <= grace
           /\ GraceEnd(leaseEnd, grace) = grace
                \/ GraceEnd(leaseEnd, grace) >= leaseEnd
BY DurationsArePositive, NoneIsNoInstant DEF GraceEnd, Least, GraceTime, Second

LEMMA RefreshIsBetween ==
    ASSUME NEW issued \in Nat, NEW leaseEnd \in Nat, leaseEnd > issued
    PROVE  /\ RefreshAfter(issued, leaseEnd) \in Nat
           /\ issued <= RefreshAfter(issued, leaseEnd)
           /\ RefreshAfter(issued, leaseEnd) <= leaseEnd
<1> DEFINE d == leaseEnd - issued
           h == (d \div 2) \div 2
<1>1. d \in Nat
      OBVIOUS
<1>2. RefreshAfter(issued, leaseEnd) = issued + h * 2
      BY DEF RefreshAfter, Second
<1> HIDE DEF d
<1>3. h \in Nat /\ h * 2 <= d
      BY <1>1
<1> HIDE DEF h
<1> QED BY <1>1, <1>2, <1>3 DEF d

LEMMA Durations ==
    /\ ActiveSeconds \in Nat /\ GraceSeconds \in Nat
    /\ ActiveTime = ActiveSeconds * Second /\ GraceTime = GraceSeconds * Second
    /\ ActiveTime \in Nat /\ GraceTime \in Nat
BY DurationsArePositive DEF ActiveTime, GraceTime, Second

(* What the claims of IssueLease satisfy.                                   *)
WindowIsSound(asked, now, end, grace, leaseEnd, graceEnd) ==
    /\ {Seconds(asked), Seconds(now), Seconds(leaseEnd), Seconds(graceEnd),
        Seconds(RefreshAfter(now, leaseEnd))} \subseteq Nat
    /\ Seconds(asked) <= Seconds(now)
    /\ Seconds(now) <= Seconds(RefreshAfter(now, leaseEnd))
    /\ Seconds(RefreshAfter(now, leaseEnd)) <= Seconds(leaseEnd)
    /\ Seconds(leaseEnd) <= Seconds(now) + ActiveSeconds
    /\ Seconds(graceEnd) <= Seconds(leaseEnd) + GraceSeconds
    /\ Seconds(graceEnd) >= Seconds(asked)
    /\ end # None => /\ Seconds(leaseEnd) <= Seconds(end)
                     /\ Seconds(graceEnd) <= Seconds(end) + GraceSeconds
    /\ grace # None => Seconds(graceEnd) <= Seconds(grace)

LEMMA IssuedClaims ==
    ASSUME NEW now \in Nat, NEW asked \in Nat, asked <= now,
           NEW end \in Nat \cup {None}, NEW grace \in Nat \cup {None},
           NEW leaseEnd, leaseEnd = LeaseEnd(now, end), leaseEnd > now,
           NEW graceEnd, graceEnd = GraceEnd(leaseEnd, grace),
           grace # None => Seconds(grace) >= Seconds(asked)
    PROVE  WindowIsSound(asked, now, end, grace, leaseEnd, graceEnd)
<1>1. /\ leaseEnd \in Nat
      /\ leaseEnd <= now + ActiveTime
      /\ end # None => leaseEnd <= end
      BY LeaseEnds
<1>2. /\ graceEnd \in Nat
      /\ graceEnd <= leaseEnd + GraceTime
      /\ grace # None => graceEnd <= grace
      /\ graceEnd = grace \/ graceEnd >= leaseEnd
      BY <1>1, GraceEnds
<1> DEFINE refresh == RefreshAfter(now, leaseEnd)
<1>3. refresh \in Nat /\ now <= refresh /\ refresh <= leaseEnd
      BY <1>1, RefreshIsBetween
<1> HIDE DEF refresh
<1>4. /\ Seconds(asked) \in Nat /\ Seconds(now) \in Nat
      /\ Seconds(leaseEnd) \in Nat /\ Seconds(graceEnd) \in Nat
      /\ Seconds(refresh) \in Nat
      /\ end # None => Seconds(end) \in Nat
      /\ grace # None => Seconds(grace) \in Nat
      BY <1>1, <1>2, <1>3, SecondsOfInstant
<1>5. /\ Seconds(asked) <= Seconds(now)
      /\ Seconds(now) <= Seconds(refresh)
      /\ Seconds(refresh) <= Seconds(leaseEnd)
      BY <1>1, <1>3, SecondsKeepOrder
<1>6. Seconds(leaseEnd) <= Seconds(now) + ActiveSeconds
  <2>1. /\ now + ActiveTime \in Nat
        /\ Seconds(now + ActiveTime) = Seconds(now) + ActiveSeconds
        BY Durations, SecondsOfSum
  <2> QED BY <1>1, <2>1, SecondsKeepOrder
<1>7. Seconds(graceEnd) <= Seconds(leaseEnd) + GraceSeconds
  <2>1. /\ leaseEnd + GraceTime \in Nat
        /\ Seconds(leaseEnd + GraceTime) = Seconds(leaseEnd) + GraceSeconds
        BY <1>1, Durations, SecondsOfSum
  <2> QED BY <1>2, <2>1, SecondsKeepOrder
<1>8. end # None => Seconds(leaseEnd) <= Seconds(end)
      BY <1>1, SecondsKeepOrder
<1>9. end # None => Seconds(graceEnd) <= Seconds(end) + GraceSeconds
      BY <1>4, <1>7, <1>8, Durations
<1>10. grace # None => Seconds(graceEnd) <= Seconds(grace)
      BY <1>2, SecondsKeepOrder
<1>11. Seconds(graceEnd) >= Seconds(asked)
  <2>1. CASE graceEnd >= leaseEnd
        BY <1>1, <1>2, <2>1, SecondsKeepOrder
  <2>2. CASE graceEnd = grace
        BY <1>2, <2>2, NoneIsNoInstant
  <2> QED BY <1>2, <2>1, <2>2
<1> QED BY <1>4, <1>5, <1>6, <1>7, <1>8, <1>9, <1>10, <1>11
    DEF refresh, WindowIsSound

-----------------------------------------------------------------------------
(* What the rows and the requests hold.                                     *)

(* A grace goes with the status past_due, and only with it, and a row       *)
(* without a status is none.                                                *)
RowsAreSound ==
    \A s \in Subscription :
        LET row == subscriptions[s] IN
        /\ row.grace # None <=> row.status = "past_due"
        /\ row.status = "none" => row = NoRow

(* These dates were those of a row that entitled, at some moment since then.*)
WereInForce(second, end, grace) ==
    \E v \in InForceSince(second) :
        Entitles(v) /\ v.end = end /\ v.grace = grace

LeasesAreOfThePast == \A l \in leases : l.created_at <= Seconds(clock)

Knows(r) ==
    LET q == request[r] IN
    /\ q.current <= clock
    /\ q.at \in {"upsert", "update"} =>
         /\ q.row \in Subscription
         /\ q.status \in Status
         /\ q.grace # None <=> q.status = "past_due"
         /\ q.grace # None => q.grace <= clock + GraceTime
    /\ q.at = "date" =>
         /\ WereInForce(Seconds(q.current), q.end, q.grace)
         /\ q.grace # None => Seconds(q.grace) >= Seconds(q.current)

IInv ==
    /\ TypeOK
    /\ RowsAreSound
    /\ \A r \in Request : Knows(r)
    /\ LeasesAreOfThePast
    /\ LeaseKeepsPromise
    /\ DatesInOrder
    /\ GoodWhenAsked

LEMMA InvInit == Init => IInv
<1> SUFFICES ASSUME Init
             PROVE  IInv
    OBVIOUS
<1>1. TypeOK
      BY TimeBounds, Durations
      DEF Init, TypeOK, Idle, RequestState, NoRow, Row, End, Grace
<1>2. RowsAreSound
      BY DEF Init, RowsAreSound, NoRow
<1>3. \A r \in Request : Knows(r)
      BY DEF Init, Knows, Idle
<1> QED BY <1>1, <1>2, <1>3
        DEF Init, IInv, LeasesAreOfThePast, LeaseKeepsPromise, DatesInOrder,
            GoodWhenAsked

-----------------------------------------------------------------------------
(* The steps.                                                               *)

(* What a step may do to the rows and their history: a row that is written  *)
(* over is put on record as it was until now.                               *)
HistoryIsKept ==
    /\ versions \subseteq versions'
    /\ \A s \in Subscription :
         \/ subscriptions'[s] = subscriptions[s]
         \/ subscriptions[s] = NoRow
         \/ \E w \in versions' :
              /\ w.status = subscriptions[s].status
              /\ w.end = subscriptions[s].end
              /\ w.grace = subscriptions[s].grace
              /\ w.until = clock

(* What was in force at some moment since then still was.                   *)
LEMMA InForceIsKept ==
    ASSUME HistoryIsKept, NEW second \in Nat, second <= Seconds(clock),
           NEW v \in InForceSince(second), Entitles(v)
    PROVE  \E w \in InForceSince(second)' :
               Entitles(w) /\ w.end = v.end /\ w.grace = v.grace
<1>1. CASE v \in {u \in versions : Seconds(u.until) >= second}
  <2>1. v \in InForceSince(second)'
        BY <1>1 DEF HistoryIsKept, InForceSince
  <2> QED BY <2>1
<1>2. ASSUME NEW s \in Subscription, v = subscriptions[s]
      PROVE  \E w \in InForceSince(second)' :
                 Entitles(w) /\ w.end = v.end /\ w.grace = v.grace
  <2>1. CASE subscriptions'[s] = subscriptions[s]
    <3>1. v \in InForceSince(second)'
          BY <1>2, <2>1 DEF InForceSince
    <3> QED BY <3>1
  <2>2. subscriptions[s] # NoRow
        BY <1>2 DEF Entitles, NoRow
  <2>3. ASSUME NEW w \in versions',
               w.status = v.status, w.end = v.end, w.grace = v.grace,
               w.until = clock
        PROVE  w \in InForceSince(second)' /\ Entitles(w)
    <3>1. w.until = clock /\ Seconds(w.until) = Seconds(clock)
          BY <2>3
    <3>2. Seconds(w.until) >= second
          BY <3>1
    <3> QED BY <2>3, <3>2 DEF InForceSince, Entitles
  <2> QED BY <1>2, <2>1, <2>2, <2>3 DEF HistoryIsKept
<1> QED BY <1>1, <1>2 DEF InForceSince

(* A request that a step leaves alone knows what it knew: the clock does    *)
(* not go back and no version is forgotten.                                 *)
LEMMA OthersKnow ==
    ASSUME IInv, NEW q \in Request, request'[q] = request[q],
           clock' \in Nat, clock <= clock', HistoryIsKept
    PROVE  Knows(q)'
<1>1. /\ Knows(q) /\ clock \in Nat
      /\ request[q].current \in Nat /\ request[q].grace \in Grace
      BY DEF IInv, TypeOK, RequestState
<1>2. ASSUME request[q].at = "date"
      PROVE  WereInForce(Seconds(request[q].current), request[q].end,
                         request[q].grace)'
  <2>1. WereInForce(Seconds(request[q].current), request[q].end,
                    request[q].grace)
        BY <1>1, <1>2 DEF Knows
  <2>2. /\ Seconds(request[q].current) \in Nat
        /\ Seconds(request[q].current) <= Seconds(clock)
        BY <1>1, SecondsOfInstant, SecondsKeepOrder DEF Knows
  <2>3. PICK second \in Nat : second = Seconds(request[q].current)
        BY <2>2
  <2>4. PICK v \in InForceSince(second) :
            Entitles(v) /\ v.end = request[q].end /\ v.grace = request[q].grace
        BY <2>1, <2>3 DEF WereInForce
  <2>5. PICK w \in InForceSince(second)' :
            Entitles(w) /\ w.end = v.end /\ w.grace = v.grace
        BY <2>2, <2>3, <2>4, InForceIsKept
  <2>6. second = Seconds(request'[q].current)
        BY <2>3
  <2>7. w \in InForceSince(Seconds(request[q].current))'
        BY <2>5, <2>6
  <2> QED BY <2>4, <2>5, <2>7 DEF WereInForce
<1>3. /\ request'[q].current <= clock'
      /\ request'[q].grace # None /\ request[q].grace <= clock + GraceTime
           => request'[q].grace <= clock' + GraceTime
      BY <1>1, Durations, NoneIsNoInstant DEF Knows, Grace
<1> QED BY <1>1, <1>2, <1>3 DEF Knows

(* A request that has ended knows nothing.                                  *)
LEMMA EndedKnows ==
    ASSUME NEW q \in Request, request'[q] = Idle, clock' \in Nat
    PROVE  Knows(q)'
BY DEF Knows, Idle

(* A lease that is within the dates of a version remains so.                *)
LEMMA LeasesStand ==
    ASSUME IInv, leases' = leases, clock' \in Nat, clock <= clock',
           HistoryIsKept
    PROVE  /\ LeasesAreOfThePast' /\ LeaseKeepsPromise'
           /\ DatesInOrder' /\ GoodWhenAsked'
<1>1. clock \in Nat /\ Seconds(clock) <= Seconds(clock')
      /\ Seconds(clock) \in Nat /\ Seconds(clock') \in Nat
      BY SecondsKeepOrder, SecondsOfInstant DEF IInv, TypeOK
<1>2. \A l \in leases : l.created_at \in Nat /\ l.created_at <= Seconds(clock)
      BY DEF IInv, TypeOK, Claims, LeasesAreOfThePast
<1>3. LeasesAreOfThePast'
      BY <1>1, <1>2 DEF LeasesAreOfThePast
<1>4. LeaseKeepsPromise'
  <2> SUFFICES ASSUME NEW l \in leases
               PROVE  \E w \in InForceSince(l.created_at)' :
                        /\ Entitles(w)
                        /\ w.end # None =>
                             /\ l.lease_expires_at <= Seconds(w.end)
                             /\ l.exp <= Seconds(w.end) + GraceSeconds
                        /\ w.grace # None => l.exp <= Seconds(w.grace)
      BY DEF LeaseKeepsPromise
  <2>1. PICK v \in InForceSince(l.created_at) :
            /\ Entitles(v)
            /\ v.end # None => /\ l.lease_expires_at <= Seconds(v.end)
                               /\ l.exp <= Seconds(v.end) + GraceSeconds
            /\ v.grace # None => l.exp <= Seconds(v.grace)
        BY DEF IInv, LeaseKeepsPromise
  <2>2. \E w \in InForceSince(l.created_at)' :
            Entitles(w) /\ w.end = v.end /\ w.grace = v.grace
        BY <1>2, <2>1, InForceIsKept
  <2> QED BY <2>1, <2>2
<1> QED BY <1>3, <1>4 DEF IInv, DatesInOrder, GoodWhenAsked

LEMMA NothingWritten ==
    ASSUME UNCHANGED <<subscriptions, versions>>
    PROVE  HistoryIsKept
BY DEF HistoryIsKept

LEMMA AskedFields ==
    ASSUME NEW at \in {"idle", "upsert", "update", "entitlement", "date"},
           NEW current \in Nat, NEW row \in Subscription \cup {None},
           NEW status \in Status \cup {"none"}, NEW end \in End,
           NEW grace \in Grace
    PROVE  LET p == Asked(at, current, row, status, end, grace) IN
           /\ p \in RequestState
           /\ p.at = at /\ p.current = current /\ p.row = row
           /\ p.status = status /\ p.end = end /\ p.grace = grace
BY DEF Asked, RequestState

LEMMA StartKeeps ==
    ASSUME IInv, NEW r \in Request,
           NEW at \in {"upsert", "update", "entitlement"},
           NEW row \in Subscription \cup {None},
           NEW status \in Status \cup {"none"},
           NEW end \in End, NEW grace \in Grace,
           Start(r, at, row, status, end, grace),
           at # "entitlement" =>
             /\ row \in Subscription
             /\ status \in Status
             /\ grace # None <=> status = "past_due"
             /\ grace # None => grace <= clock + GraceTime
    PROVE  IInv'
<1> DEFINE p == Asked(at, clock, row, status, end, grace)
<1>1. /\ request' = [request EXCEPT ![r] = p]
      /\ started' = started + 1 /\ started < MaxRequests
      /\ UNCHANGED <<clock, subscriptions, leases, versions>>
      BY DEF Start
<1>2. /\ p \in RequestState /\ p.current = clock /\ p.at # "date"
      /\ p.at \in {"upsert", "update"} =>
            /\ p.row \in Subscription
            /\ p.status \in Status
            /\ p.grace # None <=> p.status = "past_due"
            /\ p.grace # None => p.grace <= clock + GraceTime
  <2>1. clock \in Nat
        BY DEF IInv, TypeOK
  <2>2. /\ p \in RequestState /\ p.at = at /\ p.current = clock
        /\ p.row = row /\ p.status = status /\ p.grace = grace
        BY <2>1, AskedFields
  <2> HIDE DEF p
  <2> QED BY <2>2
<1> HIDE DEF p
<1>3. TypeOK'
      BY <1>1, <1>2, TimeBounds DEF IInv, TypeOK
<1>4. RowsAreSound'
      BY <1>1 DEF IInv, RowsAreSound
<1>5. ASSUME NEW q \in Request
      PROVE  Knows(q)'
  <2>1. clock \in Nat /\ request \in [Request -> RequestState]
        BY DEF IInv, TypeOK
  <2>2. CASE q = r
    <3>1. request'[q] = p
          BY <1>1, <2>1, <2>2
    <3> QED BY <1>1, <1>2, <2>1, <3>1 DEF Knows
  <2>3. CASE q # r
    <3>1. request'[q] = request[q]
          BY <1>1, <2>1, <2>3
    <3> QED BY <1>1, <2>1, <3>1, OthersKnow, NothingWritten
  <2> QED BY <2>2, <2>3
<1>6. /\ LeasesAreOfThePast' /\ LeaseKeepsPromise'
      /\ DatesInOrder' /\ GoodWhenAsked'
  <2>1. clock \in Nat
        BY DEF IInv, TypeOK
  <2> QED BY <1>1, <2>1, LeasesStand, NothingWritten
<1> QED BY <1>3, <1>4, <1>5, <1>6 DEF IInv

(* A row is written with what a request holds for it.                       *)
LEMMA WrittenKeeps ==
    ASSUME IInv, NEW r \in Request, Finish(r),
           NEW s \in Subscription, NEW row, Written(s, row),
           row \in Row, row.status # "none", row.updated <= clock,
           row.grace # None <=> row.status = "past_due",
           row.grace # None => row.grace <= clock + GraceTime
    PROVE  IInv'
<1>1. /\ request' = [request EXCEPT ![r] = Idle]
      /\ UNCHANGED <<clock, started, leases>>
      /\ subscriptions' = [subscriptions EXCEPT ![s] = row]
      /\ versions' = versions \cup
           {[status |-> old.status, end |-> old.end, grace |-> old.grace,
             until |-> clock] : old \in {subscriptions[s]} \ {NoRow}}
      BY DEF Finish, Continue, Written
<1>2. /\ HistoryIsKept
      /\ versions' \subseteq Version
  <2>1. clock \in Nat /\ subscriptions[s] \in Row /\ versions \subseteq Version
        BY DEF IInv, TypeOK
  <2>2. CASE subscriptions[s] = NoRow
    <3>1. versions' = versions
          BY <1>1, <2>2
    <3>2. \A o \in Subscription : o # s => subscriptions'[o] = subscriptions[o]
          BY <1>1 DEF IInv, TypeOK
    <3> QED BY <2>1, <2>2, <3>1, <3>2 DEF HistoryIsKept
  <2>3. CASE subscriptions[s] # NoRow
    <3> DEFINE old == subscriptions[s]
               w == [status |-> old.status, end |-> old.end,
                     grace |-> old.grace, until |-> clock]
    <3>1. versions' = versions \cup {w}
          BY <1>1, <2>3
    <3>2. /\ w.status = old.status /\ w.end = old.end
          /\ w.grace = old.grace /\ w.until = clock
          OBVIOUS
    <3>3. old.status \in Status
          BY <2>1, <2>3 DEF IInv, RowsAreSound, Row
    <3>4. w \in Version
          BY <2>1, <3>3 DEF Version, Row
    <3> HIDE DEF w
    <3>5. \A o \in Subscription : o # s => subscriptions'[o] = subscriptions[o]
          BY <1>1 DEF IInv, TypeOK
    <3>6. ASSUME NEW o \in Subscription
          PROVE  \/ subscriptions'[o] = subscriptions[o]
                 \/ /\ w.status = subscriptions[o].status
                    /\ w.end = subscriptions[o].end
                    /\ w.grace = subscriptions[o].grace
                    /\ w.until = clock
          BY <3>2, <3>5
    <3> QED BY <2>1, <3>1, <3>4, <3>6 DEF HistoryIsKept
  <2> QED BY <2>2, <2>3
<1>3. clock \in Nat /\ request \in [Request -> RequestState]
      BY DEF IInv, TypeOK
<1>4. TypeOK'
  <2>1. Idle \in RequestState
        BY DEF Idle, RequestState, End, Grace
  <2>2. \A o \in Subscription : subscriptions'[o] \in Row
        BY <1>1 DEF IInv, TypeOK
  <2>3. subscriptions' \in [Subscription -> Row]
        BY <1>1, <2>2 DEF IInv, TypeOK
  <2>4. \A o \in Subscription : /\ subscriptions'[o].updated <= clock
                                /\ subscriptions'[o].grace # None =>
                                     subscriptions'[o].grace <= clock + GraceTime
        BY <1>1 DEF IInv, TypeOK
  <2>5. request' \in [Request -> RequestState]
        BY <1>1, <1>3, <2>1
  <2> QED BY <1>1, <1>2, <2>3, <2>4, <2>5 DEF IInv, TypeOK
<1>5. RowsAreSound'
  <2> SUFFICES ASSUME NEW o \in Subscription
               PROVE  /\ subscriptions'[o].grace # None
                           <=> subscriptions'[o].status = "past_due"
                      /\ subscriptions'[o].status = "none"
                           => subscriptions'[o] = NoRow
      BY DEF RowsAreSound
  <2>1. CASE o = s
    <3>1. subscriptions'[o] = row
          BY <1>1, <2>1 DEF IInv, TypeOK
    <3> QED BY <1>1, <3>1
  <2>2. CASE o # s
    <3>1. subscriptions'[o] = subscriptions[o]
          BY <1>1, <2>2 DEF IInv, TypeOK
    <3> QED BY <1>1, <3>1 DEF IInv, RowsAreSound
  <2> QED BY <2>1, <2>2
<1>6. ASSUME NEW q \in Request
      PROVE  Knows(q)'
  <2>1. CASE q = r
        BY <1>1, <1>3, <2>1, EndedKnows
  <2>2. CASE q # r
    <3>1. request'[q] = request[q]
          BY <1>1, <1>3, <2>2
    <3> QED BY <1>1, <1>2, <1>3, <3>1, OthersKnow
  <2> QED BY <2>1, <2>2
<1>7. /\ LeasesAreOfThePast' /\ LeaseKeepsPromise'
      /\ DatesInOrder' /\ GoodWhenAsked'
      BY <1>1, <1>2, <1>3, LeasesStand
<1> QED BY <1>4, <1>5, <1>6, <1>7 DEF IInv

(* A request ends and nothing else changes.                                 *)
LEMMA RefusalKeeps ==
    ASSUME IInv, NEW r \in Request, Finish(r),
           UNCHANGED <<subscriptions, leases, versions>>
    PROVE  IInv'
<1>1. /\ request' = [request EXCEPT ![r] = Idle]
      /\ UNCHANGED <<clock, started>>
      BY DEF Finish, Continue
<1>2. clock \in Nat /\ request \in [Request -> RequestState]
      BY DEF IInv, TypeOK
<1>3. TypeOK'
      BY <1>1 DEF IInv, TypeOK, Idle, RequestState, End, Grace
<1>4. RowsAreSound'
      BY DEF IInv, RowsAreSound
<1>5. ASSUME NEW q \in Request
      PROVE  Knows(q)'
  <2>1. CASE q = r
        BY <1>1, <1>2, <2>1, EndedKnows
  <2>2. CASE q # r
    <3>1. request'[q] = request[q]
          BY <1>1, <1>2, <2>2
    <3> QED BY <1>1, <1>2, <3>1, OthersKnow, NothingWritten
  <2> QED BY <2>1, <2>2
<1>6. /\ LeasesAreOfThePast' /\ LeaseKeepsPromise'
      /\ DatesInOrder' /\ GoodWhenAsked'
      BY <1>1, <1>2, LeasesStand, NothingWritten
<1> QED BY <1>3, <1>4, <1>5, <1>6 DEF IInv

-----------------------------------------------------------------------------
LEMMA TickKeeps == IInv /\ Tick => IInv'
<1> SUFFICES ASSUME IInv, Tick
             PROVE  IInv'
    OBVIOUS
<1>1. /\ clock' = clock + 1 /\ clock < MaxClock /\ clock \in Nat
      /\ UNCHANGED <<subscriptions, leases, request, started, versions>>
      BY DEF Tick, IInv, TypeOK
<1>2. TypeOK'
  <2>1. ASSUME NEW s \in Subscription
        PROVE  /\ subscriptions[s].updated <= clock'
               /\ subscriptions[s].grace # None =>
                    subscriptions[s].grace <= clock' + GraceTime
    <3>1. /\ subscriptions[s].updated \in Nat
          /\ subscriptions[s].grace \in Nat \cup {None}
          /\ subscriptions[s].updated <= clock
          /\ subscriptions[s].grace # None =>
               subscriptions[s].grace <= clock + GraceTime
          BY DEF IInv, TypeOK, Row, Grace
    <3> QED BY <1>1, <3>1, Durations
  <2> QED BY <1>1, <2>1, TimeBounds DEF IInv, TypeOK
<1>3. RowsAreSound'
      BY <1>1 DEF IInv, RowsAreSound
<1>4. \A q \in Request : Knows(q)'
      BY <1>1, OthersKnow, NothingWritten
<1>5. /\ LeasesAreOfThePast' /\ LeaseKeepsPromise'
      /\ DatesInOrder' /\ GoodWhenAsked'
      BY <1>1, LeasesStand, NothingWritten
<1> QED BY <1>2, <1>3, <1>4, <1>5 DEF IInv

(* The grace that is given is from now on.                                  *)
LEMMA GraceIsGiven ==
    ASSUME IInv, NEW status \in Status
    PROVE  /\ GraceFor(status) \in Grace
           /\ GraceFor(status) # None <=> status = "past_due"
           /\ GraceFor(status) # None => GraceFor(status) <= clock + GraceTime
<1>1. clock \in Nat
      BY DEF IInv, TypeOK
<1> QED BY <1>1, Durations, NoneIsNoInstant DEF GraceFor, Grace

LEMMA ReceiveSubscriptionKeeps ==
    ASSUME IInv, NEW r \in Request, NEW s \in Provider,
           NEW status \in Status, NEW end \in End,
           ReceiveSubscription(r, s, status, end)
    PROVE  IInv'
<1>1. s \in Subscription
      BY DEF Subscription
<1> QED BY <1>1, GraceIsGiven, StartKeeps DEF ReceiveSubscription

LEMMA ReceiveInvoiceKeeps ==
    ASSUME IInv, NEW r \in Request, NEW s \in Provider,
           NEW status \in {"active", "past_due"}, ReceiveInvoice(r, s, status)
    PROVE  IInv'
<1>1. s \in Subscription /\ status \in Status /\ None \in End
      BY DEF Subscription, Status, End
<1> QED BY <1>1, GraceIsGiven, StartKeeps DEF ReceiveInvoice

LEMMA GrantManualKeeps ==
    ASSUME IInv, NEW r \in Request, NEW s \in Manual, NEW end \in PeriodEnd,
           GrantManual(r, s, end)
    PROVE  IInv'
<1>1. /\ s \in Subscription /\ "active" \in Status
      /\ end \in End /\ None \in Grace
      BY DEF Subscription, Status, End, Grace
<1> QED BY <1>1, StartKeeps DEF GrantManual

LEMMA StartIssueKeeps ==
    ASSUME IInv, NEW r \in Request, StartIssue(r)
    PROVE  IInv'
<1>1. None \in End /\ None \in Grace
      BY DEF End, Grace
<1> QED BY <1>1, StartKeeps DEF StartIssue

LEMMA UpsertKeeps ==
    ASSUME IInv, NEW r \in Request, Upsert(r)
    PROVE  IInv'
<1> DEFINE q == request[r]
           row == [status |-> q.status, end |-> q.end, grace |-> q.grace,
                   updated |-> q.current]
<1>1. q \in RequestState /\ q.at = "upsert" /\ Knows(r)
      BY DEF Upsert, IInv, TypeOK
<1>2. /\ q.row \in Subscription /\ q.status \in Status
      /\ q.grace # None <=> q.status = "past_due"
      /\ q.grace # None => q.grace <= clock + GraceTime
      /\ q.current <= clock
      BY <1>1 DEF Knows
<1>3. row \in Row
      BY <1>1, <1>2 DEF RequestState, Row
<1>4. row.status # "none"
      BY <1>2 DEF Status
<1>5. Written(q.row, row) /\ Finish(r)
      BY DEF Upsert
<1> QED BY <1>2, <1>3, <1>4, <1>5, WrittenKeeps

LEMMA UpdateKeeps ==
    ASSUME IInv, NEW r \in Request, Update(r)
    PROVE  IInv'
<1> DEFINE q == request[r]
           old == subscriptions[q.row]
           row == Invoiced(old, q)
<1>1. q \in RequestState /\ q.at = "update" /\ Knows(r)
      BY DEF Update, IInv, TypeOK
<1>2. /\ q.row \in Subscription /\ q.status \in Status
      /\ q.grace # None <=> q.status = "past_due"
      /\ q.grace # None => q.grace <= clock + GraceTime
      /\ q.current <= clock
      BY <1>1 DEF Knows
<1>3. old \in Row
      BY <1>2 DEF IInv, TypeOK
<1>4. /\ q.current \in Nat /\ q.grace \in Grace /\ old.end \in End
      BY <1>1, <1>3 DEF RequestState, Row
<1>5. /\ row \in Row
      /\ row.status = q.status /\ row.grace = q.grace
      /\ row.updated = q.current
  <2> HIDE DEF old
  <2> QED BY <1>2, <1>4 DEF Invoiced, Row
<1> HIDE DEF row
<1>6. row.status # "none"
      BY <1>2, <1>5 DEF Status
<1>7. Written(q.row, row) /\ Finish(r)
      BY DEF Update, row
<1> QED BY <1>2, <1>5, <1>6, <1>7, WrittenKeeps

(* The row that is found entitles, and its grace, if it has one, is not     *)
(* over in the second of the question.                                      *)
LEMMA ReadEntitlementKeeps ==
    ASSUME IInv, NEW r \in Request, ReadEntitlement(r)
    PROVE  IInv'
<1> DEFINE q == request[r]
<1>1. PICK s \in Subscription :
        /\ Found(s, q.current)
        /\ Continue(r, Asked("date", q.current, None, "none",
                             subscriptions[s].end, subscriptions[s].grace))
      BY DEF ReadEntitlement
<1> DEFINE row == subscriptions[s]
           p == Asked("date", q.current, None, "none", row.end, row.grace)
<1>2. /\ q \in RequestState /\ row \in Row /\ Knows(r)
      /\ clock \in Nat /\ request \in [Request -> RequestState]
      /\ row.grace # None <=> row.status = "past_due"
      BY DEF IInv, TypeOK, RowsAreSound
<1>3. /\ p \in RequestState /\ p.at = "date" /\ p.current = q.current
      /\ p.end = row.end /\ p.grace = row.grace
  <2>1. q.current \in Nat /\ row.end \in End /\ row.grace \in Grace
        BY <1>2 DEF RequestState, Row
  <2> HIDE DEF row
  <2> QED BY <2>1 DEF Asked, RequestState
<1>4. /\ request' = [request EXCEPT ![r] = p]
      /\ UNCHANGED <<clock, started, subscriptions, leases, versions>>
      BY <1>1 DEF ReadEntitlement, Continue
<1>5. /\ row.status \in {"active", "trialing", "past_due"}
      /\ row.grace # None => Seconds(row.grace) >= Seconds(q.current)
  <2>1. \/ row.status \in {"active", "trialing"}
        \/ /\ row.status = "past_due"
           /\ \/ Seconds(row.grace) > Seconds(q.current)
              \/ Seconds(row.grace) = Seconds(q.current)
        BY <1>1 DEF Found, MayCount, Counts
  <2>2. q.current \in Nat /\ Seconds(q.current) \in Nat
        BY <1>2, SecondsOfInstant DEF RequestState
  <2>3. ASSUME row.grace # None
        PROVE  Seconds(row.grace) \in Nat
        BY <1>2, <2>3, SecondsOfInstant DEF Row, Grace
  <2> QED BY <1>2, <2>1, <2>2, <2>3
<1>6. WereInForce(Seconds(q.current), row.end, row.grace)
  <2>1. row \in InForceSince(Seconds(q.current))
        BY DEF InForceSince
  <2>2. Entitles(row)
        BY <1>5 DEF Entitles
  <2> QED BY <2>1, <2>2 DEF WereInForce
<1> HIDE DEF p
<1>8. TypeOK'
      BY <1>3, <1>4 DEF IInv, TypeOK
<1>9. RowsAreSound'
      BY <1>4 DEF IInv, RowsAreSound
<1>10. ASSUME NEW o \in Request
       PROVE  Knows(o)'
  <2>1. CASE o = r
    <3>1. request'[o] = p
          BY <1>2, <1>4, <2>1
    <3>2. q.current <= clock
          BY <1>2 DEF Knows
    <3>3. WereInForce(Seconds(request[o].current), request[o].end,
                      request[o].grace)'
          BY <1>3, <1>4, <1>6, <3>1 DEF WereInForce, InForceSince
    <3> QED BY <1>3, <1>4, <1>5, <3>1, <3>2, <3>3 DEF Knows
  <2>2. CASE o # r
    <3>1. request'[o] = request[o]
          BY <1>2, <1>4, <2>2
    <3> QED BY <1>2, <1>4, <3>1, OthersKnow, NothingWritten
  <2> QED BY <2>1, <2>2
<1>11. /\ LeasesAreOfThePast' /\ LeaseKeepsPromise'
       /\ DatesInOrder' /\ GoodWhenAsked'
      BY <1>2, <1>4, LeasesStand, NothingWritten
<1> QED BY <1>8, <1>9, <1>10, <1>11 DEF IInv

LEMMA IssueLeaseKeeps ==
    ASSUME IInv, NEW r \in Request, IssueLease(r)
    PROVE  IInv'
<1> DEFINE q == request[r]
           leaseEnd == LeaseEnd(clock, q.end)
           graceEnd == GraceEnd(leaseEnd, q.grace)
           l == [created_at       |-> Seconds(q.current),
                 iat              |-> Seconds(clock),
                 refresh_after    |-> Seconds(RefreshAfter(clock, leaseEnd)),
                 lease_expires_at |-> Seconds(leaseEnd),
                 exp              |-> Seconds(graceEnd)]
<1>1. /\ q \in RequestState /\ q.at = "date" /\ Knows(r)
      /\ clock \in Nat /\ request \in [Request -> RequestState]
      /\ leaseEnd > clock
      BY DEF IssueLease, IInv, TypeOK
<1>2. /\ leases' = leases \cup {l}
      /\ request' = [request EXCEPT ![r] = Idle]
      /\ UNCHANGED <<clock, started, subscriptions, versions>>
      BY DEF IssueLease, Finish, Continue
<1>3. /\ q.current <= clock
      /\ WereInForce(Seconds(q.current), q.end, q.grace)
      /\ q.grace # None => Seconds(q.grace) >= Seconds(q.current)
      BY <1>1 DEF Knows
<1>4. /\ q.current \in Nat
      /\ q.end \in Nat \cup {None} /\ q.grace \in Nat \cup {None}
      BY <1>1, PeriodEndsAreInstants DEF RequestState, End, Grace
<1>5. /\ {l.created_at, l.iat, l.lease_expires_at, l.exp, l.refresh_after}
           \subseteq Nat
      /\ l.created_at <= l.iat
      /\ l.iat <= l.refresh_after
      /\ l.refresh_after <= l.lease_expires_at
      /\ l.lease_expires_at <= l.iat + ActiveSeconds
      /\ l.exp <= l.lease_expires_at + GraceSeconds
      /\ l.exp >= l.created_at
      /\ q.end # None => /\ l.lease_expires_at <= Seconds(q.end)
                         /\ l.exp <= Seconds(q.end) + GraceSeconds
      /\ q.grace # None => l.exp <= Seconds(q.grace)
  <2>1. leaseEnd = LeaseEnd(clock, q.end) /\ graceEnd = GraceEnd(leaseEnd, q.grace)
        OBVIOUS
  <2>2. /\ l.created_at = Seconds(q.current)
        /\ l.iat = Seconds(clock)
        /\ l.refresh_after = Seconds(RefreshAfter(clock, leaseEnd))
        /\ l.lease_expires_at = Seconds(leaseEnd)
        /\ l.exp = Seconds(graceEnd)
        OBVIOUS
  <2> HIDE DEF leaseEnd, graceEnd, l
  <2>3. /\ {Seconds(q.current), Seconds(clock), Seconds(leaseEnd),
            Seconds(graceEnd),
            Seconds(RefreshAfter(clock, leaseEnd))} \subseteq Nat
        /\ Seconds(q.current) <= Seconds(clock)
        /\ Seconds(clock) <= Seconds(RefreshAfter(clock, leaseEnd))
        /\ Seconds(RefreshAfter(clock, leaseEnd)) <= Seconds(leaseEnd)
        /\ Seconds(leaseEnd) <= Seconds(clock) + ActiveSeconds
        /\ Seconds(graceEnd) <= Seconds(leaseEnd) + GraceSeconds
        /\ Seconds(graceEnd) >= Seconds(q.current)
        /\ q.end # None => /\ Seconds(leaseEnd) <= Seconds(q.end)
                           /\ Seconds(graceEnd) <= Seconds(q.end) + GraceSeconds
        /\ q.grace # None => Seconds(graceEnd) <= Seconds(q.grace)
    <3> DEFINE asked == q.current
               end == q.end
               grace == q.grace
    <3>1. /\ clock \in Nat /\ asked \in Nat /\ asked <= clock
          /\ end \in Nat \cup {None} /\ grace \in Nat \cup {None}
          /\ leaseEnd = LeaseEnd(clock, end) /\ leaseEnd > clock
          /\ graceEnd = GraceEnd(leaseEnd, grace)
          /\ grace # None => Seconds(grace) >= Seconds(asked)
          BY <1>1, <1>3, <1>4, <2>1
    <3> HIDE DEF asked, end, grace
    <3>2. WindowIsSound(asked, clock, end, grace, leaseEnd, graceEnd)
          BY <3>1, IssuedClaims
    <3> QED BY <3>2 DEF WindowIsSound, asked, end, grace
  <2> QED BY <2>2, <2>3
<1>6. l \in Claims
      BY <1>5 DEF Claims
<1> HIDE DEF l
<1>7. TypeOK'
  <2>1. Idle \in RequestState
        BY DEF Idle, RequestState, End, Grace
  <2>2. request' \in [Request -> RequestState]
        BY <1>1, <1>2, <2>1
  <2> QED BY <1>2, <1>6, <2>2 DEF IInv, TypeOK
<1>8. RowsAreSound'
      BY <1>2 DEF IInv, RowsAreSound
<1>9. ASSUME NEW o \in Request
      PROVE  Knows(o)'
  <2>1. CASE o = r
        BY <1>1, <1>2, <2>1, EndedKnows
  <2>2. CASE o # r
    <3>1. request'[o] = request[o]
          BY <1>1, <1>2, <2>2
    <3> QED BY <1>1, <1>2, <3>1, OthersKnow, NothingWritten
  <2> QED BY <2>1, <2>2
<1>10. /\ l.created_at = Seconds(q.current)
       /\ l.created_at <= Seconds(clock)
       BY <1>1, <1>3, <1>4, SecondsKeepOrder DEF l
<1>11. LeasesAreOfThePast'
       BY <1>2, <1>10 DEF IInv, LeasesAreOfThePast
<1>12. LeaseKeepsPromise'
  <2>1. \E v \in InForceSince(l.created_at) :
          /\ Entitles(v)
          /\ v.end # None => /\ l.lease_expires_at <= Seconds(v.end)
                             /\ l.exp <= Seconds(v.end) + GraceSeconds
          /\ v.grace # None => l.exp <= Seconds(v.grace)
        BY <1>3, <1>5, <1>10 DEF WereInForce
  <2>2. \A k \in leases' : InForceSince(k.created_at)' = InForceSince(k.created_at)
        BY <1>2 DEF InForceSince
  <2> QED BY <1>2, <2>1, <2>2 DEF IInv, LeaseKeepsPromise, Entitles
<1>13. DatesInOrder' /\ GoodWhenAsked'
       BY <1>2, <1>5 DEF IInv, DatesInOrder, GoodWhenAsked
<1> QED BY <1>7, <1>8, <1>9, <1>11, <1>12, <1>13 DEF IInv

-----------------------------------------------------------------------------
LEMMA InvStep == IInv /\ [Next]_vars => IInv'
<1> SUFFICES ASSUME IInv, [Next]_vars
             PROVE  IInv'
    OBVIOUS
<1>1. CASE UNCHANGED vars
      BY <1>1
      DEF vars, IInv, TypeOK, RowsAreSound, Knows, WereInForce, InForceSince,
          LeasesAreOfThePast, LeaseKeepsPromise, DatesInOrder, GoodWhenAsked
<1>2. CASE Tick
      BY <1>2, TickKeeps
<1>3. ASSUME NEW r \in Request, Deliver(r)
      PROVE  IInv'
  <2>1. ASSUME NEW s \in Provider, NEW status \in Status, NEW end \in End,
               ReceiveSubscription(r, s, status, end)
        PROVE  IInv'
        BY <2>1, ReceiveSubscriptionKeeps
  <2>2. ASSUME NEW s \in Provider, NEW status \in {"active", "past_due"},
               ReceiveInvoice(r, s, status)
        PROVE  IInv'
        BY <2>2, ReceiveInvoiceKeeps
  <2>3. ASSUME NEW s \in Manual, NEW end \in PeriodEnd, GrantManual(r, s, end)
        PROVE  IInv'
        BY <2>3, GrantManualKeeps
  <2>4. CASE Upsert(r)
        BY <2>4, UpsertKeeps
  <2>5. CASE Update(r)
        BY <2>5, UpdateKeeps
  <2>6. CASE RefuseInvoice(r)
        BY <2>6, RefusalKeeps DEF RefuseInvoice
  <2> QED BY <1>3, <2>1, <2>2, <2>3, <2>4, <2>5, <2>6 DEF Deliver
<1>4. ASSUME NEW r \in Request, Issue(r)
      PROVE  IInv'
  <2>1. CASE StartIssue(r)
        BY <2>1, StartIssueKeeps
  <2>2. CASE ReadEntitlement(r)
        BY <2>2, ReadEntitlementKeeps
  <2>3. CASE RefuseUnentitled(r)
        BY <2>3, RefusalKeeps DEF RefuseUnentitled
  <2>4. CASE IssueLease(r)
        BY <2>4, IssueLeaseKeeps
  <2>5. CASE RefuseEnded(r)
        BY <2>5, RefusalKeeps DEF RefuseEnded
  <2> QED BY <1>4, <2>1, <2>2, <2>3, <2>4, <2>5 DEF Issue
<1> QED BY <1>1, <1>2, <1>3, <1>4 DEF Next

LEMMA Invariance == Spec => []IInv
BY InvInit, InvStep, PTL DEF Spec

(* The clock, the rows, the claims and the requests keep their types, and a *)
(* row is never ahead of the clock by more than the configured grace.       *)
THEOREM TypeCorrect == Spec => []TypeOK
<1>1. IInv => TypeOK
      BY DEF IInv
<1> QED BY <1>1, Invariance, PTL

(* current_entitlement and issue, with events in any order between their    *)
(* statements: no lease outlasts the period and the grace of one version of *)
(* a subscription that entitled its account since the lease was asked for.  *)
THEOREM PromiseKept == Spec => []LeaseKeepsPromise
<1>1. IInv => LeaseKeepsPromise
      BY DEF IInv
<1> QED BY <1>1, Invariance, PTL

(* issue: the claims of every lease are in order, whatever the configured   *)
(* days and the dates of the subscription.                                  *)
THEOREM DatesOrdered == Spec => []DatesInOrder
<1>1. IInv => DatesInOrder
      BY DEF IInv
<1> QED BY <1>1, Invariance, PTL

(* The events set and clear grace_until so that a token is never expired at *)
(* the time its entitlement was asked for.                                  *)
THEOREM GoodAtTheQuestion == Spec => []GoodWhenAsked
<1>1. IInv => GoodWhenAsked
      BY DEF IInv
<1> QED BY <1>1, Invariance, PTL

(* RefuseEnded: "The subscription period has ended" is told only of a period *)
(* that has, of a subscription that entitled the account when it was asked   *)
(* for or since.  (Another may have time left: RefusedOnlyAfterThePeriod.)   *)
THEOREM RefusedByPeriod == Spec => RefusedByAnEndedPeriod
<1> DEFINE Refused ==
       \A r \in Request : RefuseEnded(r) =>
         \E v \in InForceSince(Seconds(request[r].current)) :
             Entitles(v) /\ v.end # None /\ v.end <= clock
<1>1. IInv => Refused
  <2> SUFFICES ASSUME IInv, NEW r \in Request, RefuseEnded(r)
               PROVE  \E v \in InForceSince(Seconds(request[r].current)) :
                          Entitles(v) /\ v.end # None /\ v.end <= clock
      OBVIOUS
  <2>1. /\ request[r].at = "date" /\ LeaseEnd(clock, request[r].end) <= clock
        /\ clock \in Nat /\ request[r].end \in Nat \cup {None}
    <3>1. clock \in Nat /\ request[r] \in RequestState
          BY DEF IInv, TypeOK
    <3>2. request[r].end \in Nat \cup {None}
          BY <3>1, PeriodEndsAreInstants DEF RequestState, End
    <3> QED BY <3>1, <3>2 DEF RefuseEnded
  <2>2. PICK v \in InForceSince(Seconds(request[r].current)) :
            Entitles(v) /\ v.end = request[r].end
        BY <2>1 DEF IInv, Knows, WereInForce
  <2>3. request[r].end # None /\ request[r].end <= clock
        BY <2>1, DurationsArePositive
        DEF LeaseEnd, Least, ActiveTime, Second
  <2> QED BY <2>2, <2>3
<1>2. IInv => [Refused]_vars
      BY <1>1
<1> QED BY <1>2, Invariance, PTL DEF RefusedByAnEndedPeriod

=============================================================================
