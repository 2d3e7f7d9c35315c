------------------------------ MODULE MCIntake ------------------------------
(***************************************************************************)
(* Intake for TLC.                                                         *)
(***************************************************************************)
EXTENDS Intake, TLC

\* One employer with a board of its own and a slug that hits another tenant.
MCCompanies == {"acme"}
MCPostings == {"acme/ml", "other/ml"}
MCBoardOf == [p \in MCPostings |-> IF p = "other/ml" THEN "other" ELSE "acme"]
MCTitleOf == ("acme/ml" :> {"ml", "engineer"}) @@ ("other/ml" :> {"engineer", "ml", "ops", "berlin"})
MCCandidates == [c \in MCCompanies |-> <<"acme", "other">>]

L(ref, page, direct, title, lacks) ==
    [ref |-> ref, page |-> page, direct |-> direct, company |-> "acme", title |-> title,
     lacks |-> lacks, place |-> {}]

\* a1, a2: agency listings without an employer's link; b1, b2: one posting listed
\* twice by a job board, with another spelling of its title; g1: the posting on the
\* employer's own board; g2: one abroad.
MCListings == {"a1", "a2", "b1", "b2", "g1", "g2"}
MCOffer ==
    ("a1" :> L("r1", "agency/r1", NoUrl, {"ml", "engineer"}, {}))
    @@ ("a2" :> L("r2", "agency/r2", NoUrl, {"ml", "engineer", "x"}, {}))
    @@ ("b1" :> L("i1", "indeed/1", "acme/x", {"ml"}, {}))
    @@ ("b2" :> L("i2", "indeed/1", "acme/x", {"ml", "x"}, {}))
    @@ ("g1" :> L("g1", "acme/ml", NoUrl, {"ml", "engineer"}, {}))
    @@ ("g2" :> [L("g2", "acme/ml-lead", NoUrl, {"lead", "ml", "engineer"}, {}) EXCEPT !.place = {"abroad"}])
MCDeadHosts == {"indeed/1"}

Agency1 == [adapter |-> "arbeitsagentur", offers |-> <<"a1", "a2">>]
Board1 == [adapter |-> "jobspy", offers |-> <<"b1", "b1", "b2">>]
Employer1 == [adapter |-> "smartrecruiters", offers |-> <<"g1", "g2">>]

AllSources == <<Agency1, Board1, Employer1>>
=============================================================================
