----------------------------- MODULE Purchases -----------------------------
(***************************************************************************)
(* What starting and completing checkouts promises, without requests, the  *)
(* provider's idempotency keys and failures.                               *)
(*                                                                         *)
(*   - an account comes to be known by a customer once and for all, and    *)
(*     what is bought for it is billed to that customer;                   *)
(*   - a click goes through the stages of a purchase in their order: it is *)
(*     billed, recorded, announced in the trail, opened in the browser,    *)
(*     paid, completed, reported in the trail and processed;               *)
(*   - no stage is skipped, and none is gone back to.                      *)
(***************************************************************************)
EXTENDS Integers

CONSTANTS Account, Key, Customer

VARIABLES
    buyer,      \* the account each click is made for
    customers,  \* the customer of each account, or 0
    billed,     \* the customer each click is billed to, or 0
    attempts,   \* what is on record of each click: none, created, completed
    started,    \* clicks announced in the trail
    opened,     \* clicks whose checkout the browser has
    paid,       \* clicks that are paid
    completed,  \* clicks reported as completed in the trail
    processed   \* clicks whose completion need not be told again

vars == <<buyer, customers, billed, attempts, started, opened, paid, completed,
          processed>>

Init ==
    /\ buyer \in [Key -> Account]
    /\ customers = [a \in Account |-> 0]
    /\ billed = [k \in Key |-> 0]
    /\ attempts = [k \in Key |-> "none"]
    /\ started = {} /\ opened = {} /\ paid = {}
    /\ completed = {} /\ processed = {}

Know(a, c) ==
    /\ customers[a] = 0
    /\ customers' = [customers EXCEPT ![a] = c]
    /\ UNCHANGED <<buyer, billed, attempts, started, opened, paid, completed,
                   processed>>

Bill(k) ==
    LET c == customers[buyer[k]] IN
    /\ c # 0 /\ billed[k] = 0
    /\ billed' = [billed EXCEPT ![k] = c]
    /\ UNCHANGED <<buyer, customers, attempts, started, opened, paid, completed,
                   processed>>

Record(k) ==
    /\ billed[k] # 0 /\ attempts[k] = "none"
    /\ attempts' = [attempts EXCEPT ![k] = "created"]
    /\ UNCHANGED <<buyer, customers, billed, started, opened, paid, completed,
                   processed>>

(* The browser may not get the answer.                                      *)
Announce(k) ==
    /\ attempts[k] # "none"
    /\ started' = started \cup {k}
    /\ opened' \in {opened, opened \cup {k}}
    /\ UNCHANGED <<buyer, customers, billed, attempts, paid, completed,
                   processed>>

Pay(k) ==
    /\ k \in opened
    /\ paid' = paid \cup {k}
    /\ UNCHANGED <<buyer, customers, billed, attempts, started, opened,
                   completed, processed>>

Complete(k) ==
    /\ k \in paid
    /\ attempts' = [attempts EXCEPT ![k] = "completed"]
    /\ UNCHANGED <<buyer, customers, billed, started, opened, paid, completed,
                   processed>>

Report(k) ==
    /\ attempts[k] = "completed"
    /\ completed' = completed \cup {k}
    /\ UNCHANGED <<buyer, customers, billed, attempts, started, opened, paid,
                   processed>>

Settle(k) ==
    /\ k \in completed
    /\ processed' = processed \cup {k}
    /\ UNCHANGED <<buyer, customers, billed, attempts, started, opened, paid,
                   completed>>

Next ==
    \/ \E a \in Account, c \in Customer : Know(a, c)
    \/ \E k \in Key :
         \/ Bill(k)
         \/ Record(k)
         \/ Announce(k)
         \/ Pay(k)
         \/ Complete(k)
         \/ Report(k)
         \/ Settle(k)

Spec == Init /\ [][Next]_vars

=============================================================================
