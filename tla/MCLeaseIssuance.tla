-------------------------- MODULE MCLeaseIssuance --------------------------
(***************************************************************************)
(* LeaseIssuance on small instances, for TLC.  One installation, and two   *)
(* codes that race for its one deployment.                                 *)
(***************************************************************************)
EXTENDS LeaseIssuance, TLC

(* Codes and requests differ by what happens to them only.                 *)
Symmetry == Permutations(Code) \cup Permutations(Request)

=============================================================================
