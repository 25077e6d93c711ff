------------------------------ MODULE MCGtags ------------------------------
(* The instances of Gtags that TLC checks.                                 *)
EXTENDS Gtags, TLC

Symmetry == Permutations(Paths)
=============================================================================
