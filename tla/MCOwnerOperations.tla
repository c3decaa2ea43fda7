------------------------- MODULE MCOwnerOperations -------------------------
(***************************************************************************)
(* OwnerOperations on a small instance, for TLC.                           *)
(***************************************************************************)
EXTENDS OwnerOperations, TLC

(* Nothing tells two accounts, emails, terms or requests apart but their    *)
(* use.                                                                     *)
Symmetry ==
    Permutations(Account) \cup Permutations(Email) \cup Permutations(Terms)
        \cup Permutations(Request)

=============================================================================
