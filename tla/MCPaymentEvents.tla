-------------------------- MODULE MCPaymentEvents --------------------------
(***************************************************************************)
(* PaymentEvents on small instances, for TLC.                              *)
(***************************************************************************)
EXTENDS PaymentEvents, TLC

(* Requests, prices and payments differ by what happens to them only.      *)
Symmetry ==
    Permutations(Request) \cup Permutations(Price) \cup Permutations(Payment)

=============================================================================
