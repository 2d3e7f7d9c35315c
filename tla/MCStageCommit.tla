---------------------------- MODULE MCStageCommit ----------------------------
(***************************************************************************)
(* StageCommit for TLC.                                                    *)
(***************************************************************************)
EXTENDS StageCommit, TLC

\* Workers and writers are interchangeable, and so are jobs: Init and Next treat
\* every element of each set alike, and no temporal property counts them.
Symmetry == Permutations(Jobs) \union Permutations(Workers) \union Permutations(Writers)

HumanKinds == {"mark", "prefilter", "run_enrich"}

\* A reset, a jump ahead, a verdict to keep and prefilter's drop.
HumanTargets == {"discovered", "scored", "needs_human", "skipped_low_fit"}
=============================================================================
