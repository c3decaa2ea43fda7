--------------------------- MODULE MCPortalAuth ---------------------------
(***************************************************************************)
(* PortalAuth on small instances, for TLC.                                 *)
(***************************************************************************)
EXTENDS PortalAuth, TLC

Symmetry ==
    Permutations(Request) \cup Permutations(Token)
        \cup Permutations(Session) \cup Permutations(Account)

=============================================================================
