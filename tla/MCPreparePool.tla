---------------------------- MODULE MCPreparePool ----------------------------
(***************************************************************************)
(* PreparePool for TLC.                                                    *)
(***************************************************************************)
EXTENDS PreparePool, TLC

\* The threads are interchangeable.
Symmetry == Permutations(Workers)

TailorAndCover == <<"tailor", "cover">>

ScoredOrTailored == {"scored", "tailored"}
=============================================================================
