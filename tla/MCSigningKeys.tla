--------------------------- MODULE MCSigningKeys ---------------------------
(***************************************************************************)
(* SigningKeys on a small instance, for TLC.                               *)
(***************************************************************************)
EXTENDS SigningKeys, TLC

CONSTANTS k1, k2, p1, p2

(* One text for each of two key pairs.                                      *)
Texts == p1 :> k1 @@ p2 :> k2

(* Ids differ by what happens to them only, requests too.                   *)
Symmetry == Permutations(Id) \cup Permutations(Request)

=============================================================================
