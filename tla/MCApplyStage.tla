---------------------------- MODULE MCApplyStage ----------------------------
(***************************************************************************)
(* ApplyStage for TLC.                                                     *)
(***************************************************************************)
EXTENDS ApplyStage

\* Two roles at one employer; one posting found under two employers' names.
TwoEmployers == <<"acme", "acme", "globex">>
SharedPosting == <<"p", "q", "q">>

\* Three roles at one employer and one at another.
FourRoles == <<"acme", "globex", "acme", "acme">>
FourPostings == <<"p", "q", "r", "s">>

NoJob == {}
FirstJob == {1}

CautiousModes == {"dry", "guarded"}
RealModes == {"guarded", "unguarded"}

Covered == {"covered"}

ByHand == {"finished_by_hand"}
AllSlips == SlipKinds

\* The cover stage finishes a job; a human asks for another attempt; a human
\* takes a job over.
HumanMoves == {<<"tailored", "covered">>, <<"failed", "covered">>,
               <<"needs_human", "covered">>, <<"applied", "covered">>,
               <<"covered", "needs_human">>, <<"dry_run_completed", "applied">>}
Reopened == {<<"applied", "covered">>, <<"dry_run_completed", "applied">>}
=============================================================================
