----------------------------- MODULE MCAutomation -----------------------------
(* The loops on three jobs: two roles at one employer, and a role at another one   *)
(* that is the first of them, posted again under another name.                     *)
EXTENDS Automation, TLC

CONSTANTS j1, j2, j3

MCJobs == {j1, j2, j3}
MCEmployer == (j1 :> "acme" @@ j2 :> "acme" @@ j3 :> "globex")
MCPosting == (j1 :> "u1" @@ j2 :> "u2" @@ j3 :> "u1")
EachItsOwn == [j \in MCJobs |-> j]
AllGermany == [j \in MCJobs |-> {"DE"}]

Germany == {"DE"}
CoveredOnly == {"covered"}
CoveredAndDry == {"covered", "dry_run_completed"}
=============================================================================
