----------------------------- MODULE EventInbox -----------------------------
(***************************************************************************)
(* What the payment webhook promises, without its statements: an inbox     *)
(* that takes in the provider's events and keeps what it answers for.      *)
(*                                                                         *)
(*   - an event that is settled is not taken up again; deliveries of it    *)
(*     taken up before may still reopen it and write what it says;         *)
(*   - the subscription shows what one known event says of it, and changes *)
(*     only while that event is handled;                                   *)
(*   - an event is reported in the trail when it has left its effect,      *)
(*     which stays, and is settled and answered when it is in the trail or *)
(*     of a kind that has no effect.                                       *)
(***************************************************************************)
EXTENDS Integers

CONSTANTS Delivery, MaxEvents

VARIABLES
    log,        \* the provider's events: kind, status, price
    emitted,    \* how many there are
    handling,   \* the event of each delivery that is handled, or 0
    known,      \* events that were taken in
    settled,    \* events that are done
    answered,   \* events the provider need not send again
    shown,      \* the subscription: status, price and by whose word
    left,       \* events whose effect can be seen
    trail       \* events reported as applied

vars == <<log, emitted, handling, known, settled, answered, shown, left, trail>>

Event == 1 .. MaxEvents

Init ==
    /\ emitted = 0
    /\ handling = [d \in Delivery |-> 0]
    /\ known = {} /\ settled = {} /\ answered = {}
    /\ shown.status = "none" /\ shown.by = 0
    /\ left = {} /\ trail = {}

(* What the subscription is after the event's word.  A payment says that it *)
(* is active, a failed one that it is past due, of the price it has.        *)
Told(e) ==
    CASE log[e].kind = "subscription" ->
           [status |-> log[e].status, price |-> log[e].price, by |-> e]
      [] log[e].kind = "paid" /\ shown.status # "none" ->
           [shown EXCEPT !.status = "active", !.by = e]
      [] log[e].kind = "failed" /\ shown.status # "none" ->
           [shown EXCEPT !.status = "past_due", !.by = e]
      [] OTHER -> shown

(* What is left of other events may be what the new one would leave.        *)
Happen ==
    /\ emitted < MaxEvents
    /\ emitted' = emitted + 1
    /\ \A e \in 1 .. emitted : log'[e] = log[e]
    /\ left \subseteq left' /\ left' \subseteq left \cup {emitted'}
    /\ UNCHANGED <<handling, known, settled, answered, shown, trail>>

Take(d, e) ==
    /\ e <= emitted
    /\ e \notin settled
    /\ handling[d] = 0
    /\ handling' = [handling EXCEPT ![d] = e]
    /\ UNCHANGED <<log, emitted, known, settled, answered, shown, left, trail>>

AnswerAgain(e) ==
    /\ e \in settled
    /\ answered' = answered \cup {e}
    /\ UNCHANGED <<log, emitted, handling, known, settled, shown, left, trail>>

(* A delivery takes in its event, though another may have settled it.       *)
TakeIn(d) ==
    /\ handling[d] # 0
    /\ known' = known \cup {handling[d]}
    /\ settled' = settled \ {handling[d]}
    /\ UNCHANGED <<log, emitted, handling, answered, shown, left, trail>>

Apply(d) ==
    /\ handling[d] \in known
    /\ shown' \in {shown, Told(handling[d])}
    /\ left \subseteq left'
    /\ UNCHANGED <<log, emitted, handling, known, settled, answered, trail>>

Report(d) ==
    /\ handling[d] \in left
    /\ trail' = trail \cup {handling[d]}
    /\ UNCHANGED <<log, emitted, handling, known, settled, answered, shown, left>>

(* The answer may be lost.                                                  *)
Settle(d) ==
    LET e == handling[d] IN
    /\ e \in known
    /\ e \in trail \/ log[e].kind = "other"
    /\ settled' = settled \cup {e}
    /\ answered' \in {answered, answered \cup {e}}
    /\ handling' = [handling EXCEPT ![d] = 0]
    /\ UNCHANGED <<log, emitted, known, shown, left, trail>>

GiveUp(d) ==
    /\ handling[d] # 0
    /\ settled' \in {settled, settled \ {handling[d]}}
    /\ handling' = [handling EXCEPT ![d] = 0]
    /\ UNCHANGED <<log, emitted, known, answered, shown, left, trail>>

Next ==
    \/ Happen
    \/ \E e \in Event : AnswerAgain(e)
    \/ \E d \in Delivery :
         \/ \E e \in Event : Take(d, e)
         \/ TakeIn(d)
         \/ Apply(d)
         \/ Report(d)
         \/ Settle(d)
         \/ GiveUp(d)

Spec == Init /\ [][Next]_vars

=============================================================================
