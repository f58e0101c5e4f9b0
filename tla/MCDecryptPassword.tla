------------------------- MODULE MCDecryptPassword -------------------------
(***************************************************************************)
(* Three builds of DecryptPassword, which nothing tells apart.             *)
(***************************************************************************)
EXTENDS DecryptPassword, TLC

CONSTANTS b1, b2, b3

Three == {b1, b2, b3}
Symmetry == Permutations(Three)
=============================================================================
