--------------------------- MODULE MCLeaseWindow ---------------------------
(***************************************************************************)
(* LeaseWindow on small instances, for TLC.                                *)
(***************************************************************************)
EXTENDS LeaseWindow, TLC

(* Nothing tells two requests, or two subscriptions of a kind, apart but    *)
(* what happens to them.                                                    *)
Symmetry ==
    Permutations(Request) \cup Permutations(Provider) \cup Permutations(Manual)

=============================================================================
