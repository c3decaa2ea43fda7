--------------------------- MODULE LicenseLedger ---------------------------
(***************************************************************************)
(* What lease issuance promises, without requests, tables or answers: a    *)
(* ledger of numbered licenses per installation.                           *)
(*                                                                         *)
(*   - a number is taken only while the installation is open;              *)
(*   - a taken number is issued at most once, at any later time;           *)
(*   - issuing a license voids the one that was valid;                     *)
(*   - closing the installation voids its license and ends the taking of   *)
(*     numbers.  A number taken before may still be issued after.          *)
(***************************************************************************)
EXTENDS Integers

CONSTANTS Installation, MaxSequence

VARIABLES
    state,      \* "absent", then "open", then "closed"
    taken,      \* how many numbers were taken
    license     \* per number: "unissued", then "valid", then "void"

vars == <<state, taken, license>>

Number == 1 .. MaxSequence

TypeOK ==
    /\ state \in [Installation -> {"absent", "open", "closed"}]
    /\ taken \in [Installation -> 0 .. MaxSequence]
    /\ license \in [Installation -> [Number -> {"unissued", "valid", "void"}]]

Init ==
    /\ state = [i \in Installation |-> "absent"]
    /\ taken = [i \in Installation |-> 0]
    /\ license = [i \in Installation |-> [n \in Number |-> "unissued"]]

Voided(i) == [n \in Number |->
                IF license[i][n] = "valid" THEN "void" ELSE license[i][n]]

Register(i) ==
    /\ state[i] = "absent"
    /\ state' = [state EXCEPT ![i] = "open"]
    /\ UNCHANGED <<taken, license>>

Take(i) ==
    /\ state[i] = "open"
    /\ taken[i] < MaxSequence
    /\ taken' = [taken EXCEPT ![i] = @ + 1]
    /\ UNCHANGED <<state, license>>

Issue(i, n) ==
    /\ n <= taken[i]
    /\ license[i][n] = "unissued"
    /\ license' = [license EXCEPT ![i] = [Voided(i) EXCEPT ![n] = "valid"]]
    /\ UNCHANGED <<state, taken>>

Close(i) ==
    /\ state[i] # "absent"
    /\ state' = [state EXCEPT ![i] = "closed"]
    /\ license' = [license EXCEPT ![i] = Voided(i)]
    /\ UNCHANGED taken

Next ==
    \E i \in Installation :
        \/ Register(i)
        \/ Take(i)
        \/ \E n \in Number : Issue(i, n)
        \/ Close(i)

Spec == Init /\ [][Next]_vars

=============================================================================
