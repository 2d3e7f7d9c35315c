--------------------------- MODULE PipelineStatus ---------------------------
(***************************************************************************)
(* The statuses a job goes through and the tables that say which stage or  *)
(* which command may move a job from where to where.  Only data: the state *)
(* machines that use the tables are StageCommit, PreparePool and           *)
(* ApplyStage.                                                             *)
(***************************************************************************)
EXTENDS Integers

\* db/models.py, class Status: what the pipeline drives ...
PIPELINE ==
    {"discovered", "enriched", "scored", "skipped_low_fit", "tailored",
     "covered", "ready_to_apply", "applied", "dry_run_completed",
     "needs_human", "failed", "skipped_company_cap", "skipped_work_auth"}

\* ... and what a human or the inbox records after a submission.
POST_APPLY == {"screening", "interviewing", "offer", "rejected", "ghosted"}

ALL == PIPELINE \union POST_APPLY

-----------------------------------------------------------------------------
(***************************************************************************)
(* The prepare stages (prepare.py, STAGES), in order.                      *)
(***************************************************************************)
STAGE_NAMES == {"enrich", "score", "tailor", "cover"}

StageOrder == <<"enrich", "score", "tailor", "cover">>

\* The status a job must be in for the stage to apply ...
Expects == [enrich |-> "discovered", score |-> "enriched",
            tailor |-> "scored", cover |-> "tailored"]

\* ... and the one that means "go on with the next stage".
Produces == [enrich |-> "enriched", score |-> "scored",
             tailor |-> "tailored", cover |-> "covered"]

UsesLLM == [enrich |-> FALSE, score |-> TRUE, tailor |-> TRUE, cover |-> TRUE]

\* The statuses a stage's work may leave on the job when it returns without
\* raising.  Enrich leaves a job alone when it finds no page, score gates it,
\* tailor and cover route it to a human.
EnrichVerdicts == {"enriched", "discovered"}
ScoreVerdicts == {"scored", "skipped_low_fit"}
TailorVerdicts == {"tailored", "needs_human"}
CoverVerdicts == {"covered", "needs_human"}

Verdicts == [enrich |-> EnrichVerdicts, score |-> ScoreVerdicts,
             tailor |-> TailorVerdicts, cover |-> CoverVerdicts]

\* The verdicts an LLM stage may also come to without a call: tailor when no base
\* resume fits the job's place or has a keyword in it, cover when there is none.
UncalledVerdicts == [enrich |-> {}, score |-> {},
                     tailor |-> {"needs_human"}, cover |-> {"needs_human"}]

\* The stages with a runner of their own (run_score, run_tailor and
\* run_cover_letters) that marks a job failed when the work raises.  run_enrich
\* does not go through run_stage_on_job, and the drive never marks.
MarkingStages == {"score", "tailor", "cover"}

-----------------------------------------------------------------------------
(***************************************************************************)
(* The writers that load a job in a plain session_scope, assign its status *)
(* and commit, with no compare-and-set: the statuses they select jobs by,  *)
(* and the ones they assign.                                               *)
(***************************************************************************)
PRE_APPLY_STATUSES == {"discovered", "enriched", "scored", "tailored"}

DASHBOARD_SETTABLE == {"applied", "screening", "interviewing", "offer",
                       "rejected", "ghosted", "needs_human"}

PLAIN_KINDS == {"mark", "dashboard", "prefilter", "run_enrich", "retire",
                "skip_geo", "manual_assist", "verify_letters"}

Writes(from, to) == [from |-> from, to |-> to]

MarkWrites == Writes(ALL, ALL)
DashboardWrites == Writes(ALL, DASHBOARD_SETTABLE)
PrefilterWrites == Writes(PRE_APPLY_STATUSES, {"skipped_low_fit"})
RunEnrichWrites == Writes({"discovered"}, {"enriched"})
RetireWrites == Writes({"scored"}, {"skipped_company_cap"})
SkipGeoWrites == Writes({"scored"}, {"skipped_work_auth"})
ManualAssistWrites == Writes({"covered"}, {"needs_human"})
VerifyLettersWrites == Writes({"covered"}, {"needs_human"})

PlainWrites == [mark           |-> MarkWrites,
                dashboard      |-> DashboardWrites,
                prefilter      |-> PrefilterWrites,
                run_enrich     |-> RunEnrichWrites,
                retire         |-> RetireWrites,
                skip_geo       |-> SkipGeoWrites,
                manual_assist  |-> ManualAssistWrites,
                verify_letters |-> VerifyLettersWrites]
=============================================================================
