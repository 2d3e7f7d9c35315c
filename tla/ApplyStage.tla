------------------------------ MODULE ApplyStage ------------------------------
(***************************************************************************)
(* The apply stage (stages/apply.py): `honestapply apply' loads the queue  *)
(* of prepared jobs once, spreads the employers over it, and takes the     *)
(* jobs one by one through the dedup checks, the employer caps, the guards *)
(* for hosts it does not apply to, the dry-run canary and the daily cap,   *)
(* to a browser agent that fills the form and, unless the job is a dry     *)
(* run, submits it.  What the agent reports is written back.               *)
(*                                                                         *)
(* The agent runs for minutes and nothing is locked meanwhile: humans and  *)
(* other processes move jobs, the process may die, the agent may be killed *)
(* by its timeout after it has submitted.  `sent' is what the employers    *)
(* really received; the code only sees `rows', its own record of it.       *)
(*                                                                         *)
(* Left out: the rows of mode dry_run (no check reads them), the pacing    *)
(* between two submissions to one domain, the instructions, and the guards *)
(* one by one (Walled stands for Indeed, source-only, account-walled and   *)
(* LinkedIn, which all end in needs_human).                                *)
(***************************************************************************)
EXTENDS PipelineStatus, Sequences, FiniteSets

CONSTANTS NJobs,           \* job ids are 1..NJobs
          Company,         \* Company[j]: the employer, lower case and trimmed, or ""
          UrlHash,         \* UrlHash[j]: jobs.url_hash, or ""
          Walled,          \* the jobs a guard routes to a human
          Consumers,       \* apply processes
          Modes,           \* how they are called: see RunModes
          FirstN,          \* honestapply_dry_run_first_n
          DailyCap,        \* min(effective_daily_cap, HARD_DAILY_CEILING)
          CompanyDailyCap, \* honestapply_per_company_daily_cap; 0: none
          CompanyTotalCap, \* honestapply_per_company_total_cap; 0: none
          StartStatuses,   \* statuses jobs have at first
          Slips,           \* what may go wrong: see SlipKinds
          Moves,           \* <<from, to>>: moves of jobs by other processes
          MaxDisturbances, \* bound: such moves, crashes and applications held back
          MaxNow           \* bound: the clock

Jobs == 1..NJobs

\* --dry-run (the default), --no-dry-run, --no-dry-run --no-safety.
RunModes == {"dry", "guarded", "unguarded"}

\* The report is not what happened: the agent is killed by its timeout, its RESULT
\* is missing, garbled or lost with the reader thread, or it is simply wrong; an
\* application is submitted although the agent was told to stop before; the agent
\* stops although it was told to submit; it reports a status of its own making; the
\* code after the checks raises; the process dies.
SlipKinds == {"misreported", "finished_by_hand", "held_back", "odd_report", "raise", "crash"}

ASSUME ApplyAssumption ==
    /\ NJobs \in Nat
    /\ IsFiniteSet(Consumers) /\ Consumers # {}
    /\ DOMAIN Company = Jobs /\ DOMAIN UrlHash = Jobs
    /\ Walled \subseteq Jobs
    /\ Modes \subseteq RunModes
    /\ {FirstN, DailyCap, CompanyDailyCap, CompanyTotalCap} \subseteq Nat
    /\ StartStatuses \subseteq ALL
    /\ Slips \subseteq SlipKinds
    /\ Moves \subseteq ALL \X ALL
    /\ MaxDisturbances \in Nat /\ MaxNow \in Nat

VARIABLES status,    \* jobs.status
          rows,      \* the rows of applications with mode real, in order
          run,       \* run[c]: where the apply process c is
          now,       \* the clock; Day ticks are 24 hours
          sent,      \* history: the submissions employers received, in order
          lost,      \* history: those of which the report never reached _persist
          disturbances  \* what MaxDisturbances bounds, so far

vars == <<status, rows, run, now, sent, lost, disturbances>>

Day == 1

Idle == [at |-> "idle"]

\* What the agent may report: "submitted" and "odd" are not in the protocol.
REPORTS == {"applied", "dry_run_completed", "needs_human", "failed", "submitted", "odd"}

Runs == [at : {"next", "gate", "agent", "persist"}, mode : RunModes,
         queue : Seq(Jobs), processed : 0..NJobs, dry : BOOLEAN,
         report : REPORTS \union {"none"}, submission : Nat]

TypeOK ==
    /\ status \in [Jobs -> ALL]
    /\ rows \in Seq([job : Jobs, status : REPORTS, at : 0..MaxNow])
    /\ run \in [Consumers -> Runs \union {Idle}]
    /\ now \in 0..MaxNow
    /\ sent \in Seq([job : Jobs, at : 0..MaxNow, dry : BOOLEAN, report : REPORTS,
                     recorded : BOOLEAN])
    /\ lost \subseteq Nat
    /\ disturbances \in 0..MaxDisturbances

Init ==
    /\ status \in [Jobs -> StartStatuses]
    /\ rows = <<>>
    /\ run = [c \in Consumers |-> Idle]
    /\ now = 0
    /\ sent = <<>> /\ lost = {}
    /\ disturbances = 0

-----------------------------------------------------------------------------
(***************************************************************************)
(* The queue.                                                              *)
(***************************************************************************)
QUEUED == {"covered", "dry_run_completed"}

InQueue == {j \in Jobs : status[j] \in QUEUED}

\* The query has no ORDER BY: SQLite returns the rows by id if it scans the
\* table, by status and id if it uses the index on status.
Listed(byStatus, i, j) ==
    IF byStatus /\ status[i] # status[j] THEN status[i] = "covered" ELSE i < j

\* _interleave_by_company: one job of each employer in turn, the employers in
\* the order of their first job, the jobs of an employer in the order listed.
Interleaved(S, byStatus) ==
    LET Rank(j) == Cardinality({i \in S : Company[i] = Company[j] /\ Listed(byStatus, i, j)})
        First(j) == CHOOSE i \in S : /\ Company[i] = Company[j]
                                     /\ Rank(i) = 0
        Precedes(i, j) == \/ Rank(i) < Rank(j)
                          \/ Rank(i) = Rank(j) /\ Listed(byStatus, First(i), First(j))
        Position(j) == Cardinality({i \in S : Precedes(i, j)}) + 1
    IN [n \in 1..Cardinality(S) |-> CHOOSE j \in S : Position(j) = n]

\* run_apply, MODE A; an empty queue ends the run at once.
StartRun(c, mode) ==
    /\ run[c] = Idle
    /\ mode \in Modes
    /\ InQueue # {}
    /\ \E byStatus \in BOOLEAN :
          run' = [run EXCEPT ![c] =
                     [at |-> "next", mode |-> mode, queue |-> Interleaved(InQueue, byStatus),
                      processed |-> 0, dry |-> TRUE, report |-> "none",
                      submission |-> 0]]
    /\ UNCHANGED <<status, rows, now, sent, lost, disturbances>>

EndRun(c) ==
    /\ run[c].at = "next"
    /\ run[c].queue = <<>>
    /\ run' = [run EXCEPT ![c] = Idle]
    /\ UNCHANGED <<status, rows, now, sent, lost, disturbances>>

TheJob(c) == Head(run[c].queue)

AtJob(c) == run[c].at = "next" /\ run[c].queue # <<>>

\* Mutated form of Advance: the job is not counted.
Advance_NotCounted(c) ==
    run' = [run EXCEPT ![c].at = "next", ![c].queue = Tail(@), ![c].report = "none",
                       ![c].submission = 0, ![c].dry = TRUE]

\* The loop goes on with the next job, which counts whatever became of it.
Advance(c) ==
    run' = [run EXCEPT ![c].at = "next", ![c].queue = Tail(@), ![c].report = "none",
                       ![c].submission = 0, ![c].dry = TRUE,
                       ![c].processed = @ + 1]

-----------------------------------------------------------------------------
(***************************************************************************)
(* The checks of _process_job, up to the guards.                           *)
(***************************************************************************)
has_real_submission(j) ==
    \E n \in DOMAIN rows : rows[n].job = j /\ rows[n].status \in {"applied", "submitted"}

SamePosting(k, j) == k = j \/ (UrlHash[k] = UrlHash[j] /\ UrlHash[j] # "")

\* Mutated form of Duplicate: only the job itself is looked up.
Duplicate_JobIdOnly(j) == has_real_submission(j)

\* (a) this job, or (b) another one with its url_hash, was really submitted.
Duplicate(j) == \E k \in Jobs : SamePosting(k, j) /\ has_real_submission(k)

\* The distinct jobs of the employer really applied to since a point in time.
AppliedTo(company, since) ==
    {rows[n].job : n \in {m \in DOMAIN rows : /\ Company[rows[m].job] = company
                                               /\ rows[m].status = "applied"
                                               /\ rows[m].at >= since}}

\* Mutated form of over_company_cap: one more than the cap.
over_company_cap_OffByOne(j) ==
    /\ CompanyDailyCap > 0 /\ Company[j] # ""
    /\ Cardinality(AppliedTo(Company[j], now - Day)) > CompanyDailyCap

over_company_cap(j) ==
    /\ CompanyDailyCap > 0 /\ Company[j] # ""
    /\ Cardinality(AppliedTo(Company[j], now - Day)) >= CompanyDailyCap

OverTotalCap(j) ==
    /\ CompanyTotalCap > 0 /\ Company[j] # ""
    /\ Cardinality(AppliedTo(Company[j], 0)) >= CompanyTotalCap

\* Dedup and the rolling cap leave the job where it is.
Skip(c) ==
    /\ AtJob(c)
    /\ Duplicate(TheJob(c)) \/ over_company_cap(TheJob(c))
    /\ Advance(c)
    /\ UNCHANGED <<status, rows, now, sent, lost, disturbances>>

Passes(c) ==
    /\ AtJob(c)
    /\ ~ Duplicate(TheJob(c))
    /\ ~ over_company_cap(TheJob(c))

\* The lifetime cap retires it.
Retire(c) ==
    /\ Passes(c)
    /\ OverTotalCap(TheJob(c))
    /\ status' = [status EXCEPT ![TheJob(c)] = "skipped_company_cap"]
    /\ Advance(c)
    /\ UNCHANGED <<rows, now, sent, lost, disturbances>>

\* A guard routes it to a human (and writes a dry_run row).
Wall(c) ==
    /\ Passes(c)
    /\ ~ OverTotalCap(TheJob(c))
    /\ TheJob(c) \in Walled
    /\ status' = [status EXCEPT ![TheJob(c)] = "needs_human"]
    /\ Advance(c)
    /\ UNCHANGED <<rows, now, sent, lost, disturbances>>

\* The run's own mode and the first-N canary.
Admit(c) ==
    /\ Passes(c)
    /\ ~ OverTotalCap(TheJob(c))
    /\ TheJob(c) \notin Walled
    /\ LET r == run[c] IN
       run' = [run EXCEPT ![c].at = "gate",
                          ![c].dry = \/ r.mode = "dry"
                                     \/ r.mode = "guarded" /\ r.processed < FirstN]
    /\ UNCHANGED <<status, rows, now, sent, lost, disturbances>>

-----------------------------------------------------------------------------
(***************************************************************************)
(* The daily cap, the agent, and the record of what it did.                *)
(***************************************************************************)

\* Real rows of any status count.
RealToday == Cardinality({n \in DOMAIN rows : rows[n].at >= now - Day})

\* Mutated form of DailyCapReached: one more than the cap.
DailyCapReached_OffByOne == RealToday > DailyCap

DailyCapReached == RealToday >= DailyCap

\* Over the daily cap, what would be submitted becomes a dry run.
Gate(c) ==
    /\ run[c].at = "gate"
    /\ run' = [run EXCEPT ![c].at = "agent", ![c].dry = @ \/ DailyCapReached]
    /\ UNCHANGED <<status, rows, now, sent, lost, disturbances>>

Outcomes(reports, submits) == [report : reports, submits : submits]

\* A dry run ends in a submission only when a human makes it one.
MaySubmit(dry) == ~ dry \/ "finished_by_hand" \in Slips

\* What the agent may do and report.
AgentMay(dry) ==
    UNION {
      Outcomes({"needs_human", "failed"}, {FALSE}),
      IF dry \/ "held_back" \in Slips THEN Outcomes({"dry_run_completed"}, {FALSE}) ELSE {},
      IF MaySubmit(dry) THEN Outcomes({"applied"}, {TRUE}) ELSE {},
      IF "misreported" \in Slips
          THEN Outcomes({"applied"}, {FALSE})
                   \union Outcomes({"dry_run_completed", "needs_human", "failed"},
                                   {MaySubmit(dry)})
          ELSE {},
      IF "odd_report" \in Slips
          THEN Outcomes({"submitted", "odd"}, {FALSE, MaySubmit(dry)}) ELSE {}}

\* The job stays in the queue although it is no canary, or was sent.
Repeats(dry, o) == o.report = "dry_run_completed" /\ (~ dry \/ o.submits)

Submission(c, report) == [job |-> TheJob(c), at |-> now, dry |-> run[c].dry,
                          report |-> report, recorded |-> FALSE]

\* _execute_agent.
Agent(c) ==
    /\ run[c].at = "agent"
    /\ \E o \in AgentMay(run[c].dry) :
          /\ LET again == Repeats(run[c].dry, o)
             IN  /\ again => disturbances < MaxDisturbances
                 /\ disturbances' = IF again THEN disturbances + 1 ELSE disturbances
          /\ sent' = IF o.submits THEN Append(sent, Submission(c, o.report)) ELSE sent
          /\ run' = [run EXCEPT ![c].at = "persist", ![c].report = o.report,
                                ![c].submission = IF o.submits THEN Len(sent') ELSE 0]
    /\ UNCHANGED <<status, rows, now, lost>>

\* Mutated form of status_map: a report it does not know is stored as it is.
status_map_NoDefault(report) == report

status_map(report) == IF report \in {"submitted", "odd"} THEN "failed" ELSE report

\* Mutated form of IsReal: the mode is the one the run was started in.
IsReal_AsStarted(r) == ~ r.dry

\* The mode of the application's row: a dry run that ended in a submission
\* counts as real.
IsReal(r) == ~ r.dry \/ r.report = "applied"

\* _persist: the row, and the job's status, whatever it is by now.
Persist(c) ==
    LET r == run[c]
        j == TheJob(c)
    IN
    /\ r.at = "persist"
    /\ rows' = IF IsReal(r) THEN Append(rows, [job |-> j, status |-> r.report, at |-> now])
                            ELSE rows
    /\ status' = [status EXCEPT ![j] = status_map(r.report)]
    /\ sent' = IF r.submission # 0 /\ IsReal(r) /\ r.report \in {"applied", "submitted"}
               THEN [sent EXCEPT ![r.submission].recorded = TRUE]
               ELSE sent
    /\ Advance(c)
    /\ UNCHANGED <<now, lost, disturbances>>

\* The report of what the run has submitted, if anything, is gone.
LoseReport(c) == lost' = lost \union ({run[c].submission} \ {0})

\* Anything after the checks raises, the final commit included: the job is
\* failed, and so is its row, in the mode the command was called with.
Raise(c) ==
    /\ "raise" \in Slips
    /\ run[c].at \in {"gate", "agent", "persist"}
    /\ status' = [status EXCEPT ![TheJob(c)] = "failed"]
    /\ rows' = IF run[c].mode = "dry" THEN rows
               ELSE Append(rows, [job |-> TheJob(c), status |-> "failed", at |-> now])
    /\ LoseReport(c)
    /\ Advance(c)
    /\ UNCHANGED <<now, sent, disturbances>>

\* The process dies; nothing is written.
Crash(c) ==
    /\ "crash" \in Slips
    /\ disturbances < MaxDisturbances
    /\ disturbances' = disturbances + 1
    /\ run[c] # Idle
    /\ run' = [run EXCEPT ![c] = Idle]
    /\ LoseReport(c)
    /\ UNCHANGED <<status, rows, now, sent>>

-----------------------------------------------------------------------------
(***************************************************************************)
(* The environment.                                                        *)
(***************************************************************************)

\* A human (mark, the dashboard) or a prepare stage moves a job.
Elsewhere ==
    /\ disturbances < MaxDisturbances
    /\ disturbances' = disturbances + 1
    /\ \E m \in Moves, j \in Jobs :
          /\ status[j] = m[1]
          /\ status' = [status EXCEPT ![j] = m[2]]
    /\ UNCHANGED <<rows, run, now, sent, lost>>

Tick ==
    /\ now < MaxNow
    /\ now' = now + 1
    /\ UNCHANGED <<status, rows, run, sent, lost, disturbances>>

-----------------------------------------------------------------------------
RunStep(c) ==
    \/ EndRun(c)
    \/ Skip(c)
    \/ Retire(c)
    \/ Wall(c)
    \/ Admit(c)
    \/ Gate(c)
    \/ Agent(c)
    \/ Persist(c)
    \/ Raise(c)

Next ==
    \/ \E c \in Consumers :
          \/ \E mode \in Modes : StartRun(c, mode)
          \/ RunStep(c)
          \/ Crash(c)
    \/ Elsewhere
    \/ Tick

Spec == Init /\ [][Next]_vars

\* apply_consumer.sh and the scheduled cycles start run after run, a run goes on
\* to its end (the agent has a timeout of 600 s), and time passes.
FairSpec ==
    /\ Spec
    /\ \A c \in Consumers : /\ WF_vars(RunStep(c))
                            /\ \A mode \in Modes : WF_vars(StartRun(c, mode))
    /\ WF_vars(Tick)

-----------------------------------------------------------------------------
(***************************************************************************)
(* Properties.                                                             *)
(***************************************************************************)
InWindow(S, t) == {n \in S : sent[n].at \in (t - Day)..t}

\* The jobs among some submissions that are of an employer.
RolesAt(c, S) == {j \in Jobs : Company[j] = c /\ \E n \in S : sent[n].job = j}

\* What the apply runs beside one may add: each looks at a cap before it submits,
\* and records the submission afterwards.
Overlap == Cardinality(Consumers) - 1

\* An employer receives the same posting again only if the first submission is not
\* on record as one (it was not reported, or the report was lost): after one that
\* is, no run submits the job, or another job with the same url_hash (README,
\* "Triple dedup"), as long as no second run is at work.
SentAgainOnlyIfLost ==
    Overlap = 0 =>
        \A m, n \in DOMAIN sent :
            m < n /\ SamePosting(sent[m].job, sent[n].job) => ~ sent[m].recorded

\* A submission that the agent reports as applied is recorded as one, unless the
\* process dies or the code raises before it is: also in a dry run that a human
\* finished, also when the job was moved meanwhile (_persist: "if a submission
\* really happened it must be recorded"; of one that is not reported as applied
\* the code learns nothing).
SendsAreRecorded ==
    \A n \in DOMAIN sent :
        sent[n].report = "applied" =>
            \/ sent[n].recorded
            \/ n \in lost
            \/ \E c \in Consumers : run[c].at = "persist" /\ run[c].submission = n

\* Where every submission is recorded as one, no employer is applied to for more
\* roles than the caps allow, in any 24 hours and in total, but for one more for
\* each run beside another.
CompanyCapsHold ==
    Slips \subseteq {"finished_by_hand", "held_back"} =>
        \A c \in {Company[j] : j \in Jobs} \ {""} :
            /\ CompanyTotalCap > 0 =>
                  Cardinality(RolesAt(c, DOMAIN sent)) <= CompanyTotalCap + Overlap
            /\ CompanyDailyCap > 0 =>
                  \A t \in 0..now :
                     Cardinality(RolesAt(c, InWindow(DOMAIN sent, t)))
                         <= CompanyDailyCap + Overlap

\* Runs that do not die and are not told to stop before submitting submit no more
\* than the daily cap in any 24 hours (README, "Safety, in detail"), whatever goes
\* wrong in them, but for one more for each run beside another.
DailyCapHolds ==
    "crash" \notin Slips =>
        \A t \in 0..now :
            Cardinality({n \in InWindow(DOMAIN sent, t) : ~ sent[n].dry})
                <= DailyCap + Overlap

\* Whatever the order of runs, dry runs and reopened jobs, no cap is exceeded.
CapsHold == DailyCapHolds /\ CompanyCapsHold

\* Run after run, what is left to apply to shrinks to a canary's worth of jobs
\* (a job that dedup skips stays in the queue for good, and is not counted).
QueueDrains == <>[](Cardinality({j \in InQueue : ~ Duplicate(j)}) <= FirstN)
=============================================================================
