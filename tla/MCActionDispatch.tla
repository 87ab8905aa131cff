--------------------------- MODULE MCActionDispatch ---------------------------
(* ActionDispatch on small instances.                                      *)
EXTENDS ActionDispatch, TLC

Symmetry == Permutations(Owner)
=============================================================================
