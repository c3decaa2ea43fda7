----------------------------- MODULE MCCheckout -----------------------------
(***************************************************************************)
(* Checkout on a small instance, for TLC.  Two clicks and two requests of  *)
(* one account: accounts share nothing but the plan.  The run checks       *)
(* liveness, so it uses no symmetry.                                       *)
(***************************************************************************)
EXTENDS Checkout, TLC

=============================================================================
