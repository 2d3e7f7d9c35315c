------------------------------ MODULE MCJobBoard ------------------------------
(* The board with two jobs and two writers that may be any of the kinds.      *)
EXTENDS JobBoard, TLC

MCMarkable == {"applied", "offer"}

Symmetry == Permutations(Writers) \union Permutations(Jobs)
=============================================================================
