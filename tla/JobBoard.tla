------------------------------- MODULE JobBoard -------------------------------
(***************************************************************************)
(* What the dashboard and the commands show of the jobs and their history, *)
(* and what a human changes there: the funnel and the outcome analytics,   *)
(* read while the pipeline and the human write; the edits of a status, the *)
(* notes on the history, and archiving.                                    *)
(*                                                                         *)
(* Every writer loads the job and commits later; the events listener       *)
(* (db/events.py) adds a row to the history for a status that differs from *)
(* the one loaded.  A job may also have been imported, with a status and   *)
(* no history.                                                             *)
(***************************************************************************)
EXTENDS PipelineStatus, Sequences, FiniteSets, SequencesExt, FiniteSetsExt

CONSTANTS Jobs,       \* jobs on file
          Writers,    \* requests, commands and the apply run, that write at once
          Markable,   \* the statuses the human gives by hand
          MaxWrites   \* bound: writes begun

ASSUME BoardAssumption == IsFiniteSet(Jobs) /\ Markable \subseteq ALL /\ MaxWrites \in Nat

VARIABLES status,    \* jobs.status
          archived,  \* jobs.archived_at is set
          trail,     \* job_events of each job, oldest first: the to_status
          imported,  \* history: the status a job was imported with, "none" if it was not
          writer,    \* writer[w]: where the writer w is, and what it loaded
          writes,    \* what MaxWrites bounds, so far
          funnel,    \* the reading of /api/funnel that is going on, or the last
          touched,   \* history: the jobs changed since that reading began
          taken      \* history: the jobs the pipeline took up while archived

boardVars == <<status, archived, trail, imported, writer, writes,
               funnel, touched, taken>>
boardHistory == <<imported, taken>>

-----------------------------------------------------------------------------
\* Mutated form of FunnelStages: an offer is no longer in process, nor applied.
FunnelStages_OfferApart ==
    <<{"covered", "ready_to_apply", "needs_human", "applied", "dry_run_completed",
       "screening", "interviewing", "rejected", "ghosted"},
      {"applied", "dry_run_completed", "screening", "interviewing", "rejected", "ghosted"},
      {"screening", "interviewing"}, {"offer"}>>

\* _FUNNEL_STAGES: the statuses that imply each stage was reached.
FunnelStages ==
    LET inProcess == {"screening", "interviewing", "offer"}
        appliedTo == inProcess \union {"applied", "dry_run_completed", "rejected", "ghosted"}
    IN  <<appliedTo \union {"covered", "ready_to_apply", "needs_human"},
          appliedTo, inProcess, {"offer"}>>

\* analytics.py: what counts as an answer.
POSITIVE == {"screening", "interviewing", "offer"}
RESPONDED == POSITIVE \union {"rejected"}

Active == {j \in Jobs : ~archived[j]}

\* reached: by the status there is, and by the history.
ReachedNow(stage) == {j \in Active : status[j] \in stage}
ReachedBefore(stage) == {j \in Active : ToSet(trail[j]) \cap stage # {}}

\* compute: the applied jobs, by the history alone.
AppliedByHistory == ReachedBefore({"applied"})
Outcomes == [applied     |-> AppliedByHistory,
             positive    |-> AppliedByHistory \cap ReachedBefore(POSITIVE),
             responded   |-> AppliedByHistory \cap ReachedBefore(RESPONDED),
             no_response |-> AppliedByHistory \ ReachedBefore(RESPONDED)]

-----------------------------------------------------------------------------
WriterAt(place, kind, j, saw, to, shelve) ==
    [at |-> place, kind |-> kind, job |-> j, saw |-> saw, to |-> to, shelve |-> shelve]

\* Nothing is asked of the status (or of archived_at) where "keep" stands.
Idle == WriterAt("off", "none", "none", "keep", "keep", "keep")
NoFunnel == [next |-> 0, now |-> {}, counts |-> <<>>]

BoardInit ==
    /\ \E kept \in [Jobs -> {"covered", "applied", "none"}] :
          /\ imported = kept
          /\ status = [j \in Jobs |-> IF kept[j] = "none" THEN "discovered" ELSE kept[j]]
          /\ trail = [j \in Jobs |-> IF kept[j] = "none" THEN <<"discovered">> ELSE <<>>]
    /\ archived = [j \in Jobs |-> FALSE]
    /\ writer = [w \in Writers |-> Idle]
    /\ writes = 0
    /\ funnel = NoFunnel
    /\ touched = {} /\ taken = {}

\* A write during a reading is kept note of; after it, the reading is forgotten.
Touch(j) ==
    IF funnel.next = 0 THEN funnel' = NoFunnel /\ touched' = {}
    ELSE touched' = touched \union {j} /\ UNCHANGED funnel

Load(w, kind, j, to, shelve) ==
    /\ writer[w].at = "off" /\ writes < MaxWrites
    /\ writer' = [writer EXCEPT ![w] = WriterAt("commit", kind, j, status[j], to, shelve)]
    /\ writes' = writes + 1

\* patch_job: a status from the dashboard's own list, archived_at, or both.
PatchLoads(w, j) ==
    /\ \E to \in (DASHBOARD_SETTABLE \cap Markable) \union {"keep"},
          shelve \in {"set", "clear", "keep"} :
            /\ <<to, shelve>> # <<"keep", "keep">>
            /\ Load(w, "patch", j, to, IF shelve = "clear" /\ ~archived[j] THEN "keep"
                                       ELSE shelve)
    /\ UNCHANGED <<status, archived, trail, funnel, touched, boardHistory>>

\* mark: any status; with a note, also the one the job has.
MarkLoads(w, j) ==
    /\ \E to \in Markable :
          Load(w, IF to = status[j] THEN "note" ELSE "mark", j, to, "keep")
    /\ UNCHANGED <<status, archived, trail, funnel, touched, boardHistory>>

\* add_event_note: a row of the history at the status the job was loaded with.
NoteLoads(w, j) ==
    /\ Load(w, "note", j, status[j], "keep")
    /\ UNCHANGED <<status, archived, trail, funnel, touched, boardHistory>>

\* archive and unarchive: the command does nothing if there is nothing to do.
ArchiveLoads(w, j) ==
    /\ Load(w, "archive", j, "keep", IF archived[j] THEN "clear" ELSE "set")
    /\ UNCHANGED <<status, archived, trail, funnel, touched, boardHistory>>

\* The apply stage takes a job up by its status alone, and gives it the verdict
\* of the agent.
ApplyLoads(w, j) ==
    /\ status[j] \in {"covered", "dry_run_completed"}
    /\ \E to \in {"applied", "dry_run_completed", "needs_human", "failed"} :
          Load(w, "apply", j, to, "keep")
    /\ taken' = IF archived[j] THEN taken \union {j} ELSE taken
    /\ UNCHANGED <<status, archived, trail, funnel, touched, imported>>

\* Mutated form of Commit: a status the human marks leaves no row.
Commit_MarksUnseen(w) ==
    LET job == writer[w].job
        to == writer[w].to
        moves == writer[w].kind # "note" /\ to \notin {"keep", writer[w].saw}
        notes == writer[w].kind = "note"
        shelve == writer[w].shelve
    IN  /\ writer[w].at = "commit"
        /\ status' = IF moves THEN [status EXCEPT ![job] = to] ELSE status
        /\ trail' = IF (moves /\ writer[w].kind # "mark") \/ notes THEN [trail EXCEPT ![job] = Append(@, to)] ELSE trail
        /\ archived' = IF shelve = "keep" THEN archived
                       ELSE [archived EXCEPT ![job] = (shelve = "set")]
        /\ Touch(job)
        /\ writer' = [writer EXCEPT ![w] = Idle]
        /\ UNCHANGED <<writes, boardHistory>>

\* The flush: the listener looks at what was loaded, not at what there is.
Commit(w) ==
    LET job == writer[w].job
        to == writer[w].to
        moves == writer[w].kind # "note" /\ to \notin {"keep", writer[w].saw}
        notes == writer[w].kind = "note"
        shelve == writer[w].shelve
    IN  /\ writer[w].at = "commit"
        /\ status' = IF moves THEN [status EXCEPT ![job] = to] ELSE status
        /\ trail' = IF moves \/ notes THEN [trail EXCEPT ![job] = Append(@, to)] ELSE trail
        /\ archived' = IF shelve = "keep" THEN archived
                       ELSE [archived EXCEPT ![job] = (shelve = "set")]
        /\ Touch(job)
        /\ writer' = [writer EXCEPT ![w] = Idle]
        /\ UNCHANGED <<writes, boardHistory>>

\* A prepare stage moves a job on by compare-and-set; it does not look at
\* archived_at either.
Advance(j) ==
    /\ writes < MaxWrites
    /\ \E stage \in STAGE_NAMES, to \in ALL :
          /\ status[j] = Expects[stage]
          /\ to \in Verdicts[stage] \ {status[j]}
          /\ status' = [status EXCEPT ![j] = to]
          /\ trail' = [trail EXCEPT ![j] = Append(@, to)]
    /\ writes' = writes + 1
    /\ Touch(j)
    /\ taken' = IF archived[j] THEN taken \union {j} ELSE taken
    /\ UNCHANGED <<archived, imported, writer>>

-----------------------------------------------------------------------------
\* /api/funnel: two queries for each stage, each of the database as it is then.
FunnelBegins ==
    /\ funnel.next = 0
    /\ funnel' = [NoFunnel EXCEPT !.next = 1]
    /\ touched' = {}
    /\ UNCHANGED <<status, archived, trail, writer, writes, boardHistory>>

\* The n-th query: the odd ones by status, the even ones by history.
StageQueries(n) ==
    IF n % 2 = 1
    THEN [funnel EXCEPT !.next = n + 1, !.now = ReachedNow(FunnelStages[(n + 1) \div 2])]
    ELSE [next |-> (n + 1) % 9, now |-> {},
          counts |-> Append(funnel.counts,
                            Cardinality(funnel.now \union ReachedBefore(FunnelStages[n \div 2])))]

FunnelQueries ==
    /\ funnel.next # 0
    /\ funnel' = StageQueries(funnel.next)
    /\ UNCHANGED <<status, archived, trail, writer, writes, touched, boardHistory>>

BoardNext ==
    \/ \E w \in Writers, j \in Jobs :
          \/ PatchLoads(w, j) \/ MarkLoads(w, j) \/ NoteLoads(w, j)
          \/ ArchiveLoads(w, j) \/ ApplyLoads(w, j)
    \/ \E w \in Writers : Commit(w)
    \/ \E j \in Jobs : Advance(j)
    \/ FunnelBegins
    \/ FunnelQueries

BoardSpec == BoardInit /\ [][BoardNext]_boardVars

-----------------------------------------------------------------------------
BoardTypeOK ==
    /\ status \in [Jobs -> ALL]
    /\ archived \in [Jobs -> BOOLEAN]
    /\ trail \in [Jobs -> Seq(ALL)]
    /\ imported \in [Jobs -> {"covered", "applied", "none"}]
    /\ writer \in [Writers -> [at : {"off", "commit"},
                               kind : {"none", "patch", "mark", "note", "archive", "apply"},
                               job : Jobs \union {"none"}, saw : ALL \union {"keep"},
                               to : ALL \union {"keep"}, shelve : {"set", "clear", "keep"}]]
    /\ writes \in 0..MaxWrites
    /\ funnel \in [next : 0..8, now : SUBSET Jobs, counts : Seq(Nat)]
    /\ touched \subseteq Jobs /\ taken \subseteq Jobs

FunnelIsRead == funnel.next = 0 /\ funnel.counts # <<>>

\* The bars narrow from each stage to the next, up to the jobs that were written
\* while the bars were read.
FunnelNarrows ==
    FunnelIsRead =>
        \A n \in 1..3 : funnel.counts[n + 1] <= funnel.counts[n] + Cardinality(touched)

\* The funnel, which goes by the status and the history, and the analytics, which
\* go by the history alone, count the same applied jobs as in process, where no
\* import is in play.
PanelsAgree ==
    LET inProcess == FunnelStages[3]
        ours == {j \in Jobs : imported[j] = "none"}
    IN  Outcomes.positive \cap ours
            = AppliedByHistory \cap ours \cap (ReachedNow(inProcess) \union ReachedBefore(inProcess))

\* dashboard/api.py:308: archived jobs are out of the pipeline entirely.
ArchivedStayPut == taken = {}
=============================================================================
