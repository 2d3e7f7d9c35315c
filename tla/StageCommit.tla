----------------------------- MODULE StageCommit -----------------------------
(***************************************************************************)
(* One job database shared by everything that moves jobs: worker threads   *)
(* (of one or of several processes) that run a prepare stage through       *)
(* run_stage_on_job, and plain writers -- honestapply mark, the dashboard, *)
(* prefilter, run_enrich, ... -- that load a job and commit it in a        *)
(* session_scope.                                                          *)
(*                                                                         *)
(* A stage reads the job, works for a long time with no lock held (the LLM *)
(* call), and commits through commit_if_status: BEGIN IMMEDIATE takes the  *)
(* write lock, the status is read again under it, and the write lands only *)
(* if the status still is the one the stage expects.  Under that lock the  *)
(* re-read and the commit are one step here.  A SELECT takes no lock, so   *)
(* reads and writes of the plain writers are separate steps.               *)
(*                                                                         *)
(* Left out: what the stages compute (only the verdict is kept), the       *)
(* columns other than status, and the same-status marker rows that carry a *)
(* note (events holds the transitions).                                    *)
(***************************************************************************)
EXTENDS PipelineStatus, Sequences

CONSTANTS Jobs,         \* job ids
          Workers,      \* threads running stages, of any number of processes
          Writers,      \* sessions of the plain writers
          PlainKinds,   \* the commands the plain writers run
          Targets,      \* bound: the statuses they assign in the model
          MaxEvents     \* bound: events per job in the model

ASSUME StageCommitAssumption ==
    /\ PlainKinds \subseteq PLAIN_KINDS
    /\ Targets \subseteq ALL
    /\ MaxEvents \in Nat

VARIABLES status,   \* status[j]: jobs.status, as committed
          events,   \* events[j]: the transitions job_events holds for j
          worker,   \* worker[w]: the stage w is running, or Idle
          writer    \* writer[p]: the change p has loaded a job for, or Idle

vars == <<status, events, worker, writer>>

Transition(from, to, by) == [from |-> from, to |-> to, by |-> by]

EventSet == [from : ALL \union {"none"}, to : ALL,
             by : {"insert", "stage", "plain"}]

Idle == [on |-> "nothing"]

\* A stage under way.  verdict is "none" until work() returns.  basis is how
\* many events the job had when the stage read it: history, not code.
Runs == [on : {"stage"}, job : Jobs, stage : STAGE_NAMES, mark_failed : BOOLEAN,
         verdict : ALL \union {"none"}, basis : Nat]

\* A plain change under way: the status the session loaded and the new one.
Changes == [on : {"change"}, job : Jobs, seen : ALL, to : ALL]

Busy(w) == worker[w].on = "stage"

TypeOK ==
    /\ status \in [Jobs -> ALL]
    /\ events \in [Jobs -> Seq(EventSet)]
    /\ worker \in [Workers -> Runs \union {Idle}]
    /\ writer \in [Writers -> Changes \union {Idle}]

Init ==
    /\ status = [j \in Jobs |-> "discovered"]
    /\ events = [j \in Jobs |-> <<Transition("none", "discovered", "insert")>>]
    /\ worker = [w \in Workers |-> Idle]
    /\ writer = [p \in Writers |-> Idle]

\* Mutated form of Record: the change of a plain writer goes past the listener.
Record_PlainUnlogged(j, from, to, by) ==
    /\ status' = [status EXCEPT ![j] = to]
    /\ events' = [events EXCEPT ![j] = IF from = to \/ by = "plain" THEN @
                                       ELSE Append(@, Transition(from, to, by))]

\* The before_flush listener: the new status, and one event if it changed.
Record(j, from, to, by) ==
    /\ status' = [status EXCEPT ![j] = to]
    /\ events' = [events EXCEPT ![j] = IF from = to THEN @
                                       ELSE Append(@, Transition(from, to, by))]

-----------------------------------------------------------------------------
(***************************************************************************)
(* A worker: run_stage_on_job.                                             *)
(***************************************************************************)

\* session.get and the first status check.  A job that is not where the stage
\* expects it is skipped, which changes nothing.
ReadJob(w, j, s) ==
    /\ ~ Busy(w)
    /\ status[j] = Expects[s]
    /\ \E mf \in BOOLEAN :
       /\ mf => s \in MarkingStages
       /\ worker' = [worker EXCEPT ![w] =
                        [on |-> "stage", job |-> j, stage |-> s, mark_failed |-> mf,
                         verdict |-> "none", basis |-> Len(events[j])]]
    /\ UNCHANGED <<status, events, writer>>

\* work(job) returns, having put its verdict on the ORM object.
Work(w) ==
    /\ Busy(w)
    /\ worker[w].verdict = "none"
    /\ \E v \in Verdicts[worker[w].stage] :
          worker' = [worker EXCEPT ![w].verdict = v]
    /\ UNCHANGED <<status, events, writer>>

\* Mutated form of WorkRaises: the error message ends up in the status column.
WorkRaises_MessageAsStatus(w) ==
    /\ Busy(w)
    /\ worker[w].verdict = "none"
    /\ worker[w].mark_failed
    /\ worker' = [worker EXCEPT ![w].verdict = "message"]
    /\ UNCHANGED <<status, events, writer>>

\* work(job) raises something that is not a rate limit, and the caller asked
\* for such jobs to be marked: the verdict is failed.
WorkRaises(w) ==
    /\ Busy(w)
    /\ worker[w].verdict = "none"
    /\ worker[w].mark_failed
    /\ worker' = [worker EXCEPT ![w].verdict = "failed"]
    /\ UNCHANGED <<status, events, writer>>

\* Nothing is written: the exception propagates and the session rolls back (an
\* unmarked error, a rate limit, a write lock not obtained in three attempts),
\* or the process dies.
Abandon(w) ==
    /\ Busy(w)
    /\ worker' = [worker EXCEPT ![w] = Idle]
    /\ UNCHANGED <<status, events, writer>>

\* Mutated form of CommitIfStatus: the re-read sees the session's own pending
\* status (autoflush left on), so the comparison always succeeds.
CommitIfStatus_Autoflushed(w) ==
    LET r == worker[w] IN
    /\ Busy(w)
    /\ r.verdict # "none"
    /\ Len(events[r.job]) < MaxEvents
    /\ Record(r.job, Expects[r.stage], r.verdict, "stage")
    /\ worker' = [worker EXCEPT ![w] = Idle]
    /\ UNCHANGED writer

\* commit_if_status: the write lands only if the job is where the stage found
\* it; otherwise the result is discarded.
CommitIfStatus(w) ==
    LET r == worker[w] IN
    /\ Busy(w)
    /\ r.verdict # "none"
    /\ \/ /\ status[r.job] = Expects[r.stage]
          /\ Len(events[r.job]) < MaxEvents
          /\ Record(r.job, Expects[r.stage], r.verdict, "stage")
       \/ /\ status[r.job] # Expects[r.stage]
          /\ UNCHANGED <<status, events>>
    /\ worker' = [worker EXCEPT ![w] = Idle]
    /\ UNCHANGED writer

-----------------------------------------------------------------------------
(***************************************************************************)
(* A plain writer: load, assign, commit.  One job per session: prefilter   *)
(* and the like change several in one transaction, which nothing below     *)
(* tells apart.                                                            *)
(***************************************************************************)

\* The SELECT of the session, with the command's own condition on the status,
\* and the assignment.  Assigning the status the job already has writes nothing.
PlainLoad(p, j, k) ==
    /\ writer[p] = Idle
    /\ k \in PlainKinds
    /\ status[j] \in PlainWrites[k].from
    /\ \E to \in (PlainWrites[k].to \intersect Targets) \ {status[j]} :
          writer' = [writer EXCEPT ![p] =
                        [on |-> "change", job |-> j, seen |-> status[j], to |-> to]]
    /\ UNCHANGED <<status, events, worker>>

\* session.commit(): an unconditional UPDATE by id.  The event's `from' is the
\* status the session loaded.
PlainCommit(p) ==
    LET c == writer[p] IN
    /\ c # Idle
    /\ Len(events[c.job]) < MaxEvents
    /\ Record(c.job, c.seen, c.to, "plain")
    /\ writer' = [writer EXCEPT ![p] = Idle]
    /\ UNCHANGED worker

\* _commit_with_retry: "database is locked".  The session rolls back, refreshes
\* the row and re-applies the new status; if the row now has it already there
\* is nothing left to write.
PlainReplay(p) ==
    LET c == writer[p] IN
    /\ c # Idle
    /\ writer' = [writer EXCEPT ![p] = IF status[c.job] = c.to THEN Idle
                                       ELSE [@ EXCEPT !.seen = status[c.job]]]
    /\ UNCHANGED <<status, events, worker>>

\* The retries are used up, or the process dies, before the commit.
PlainAbandon(p) ==
    /\ writer[p] # Idle
    /\ writer' = [writer EXCEPT ![p] = Idle]
    /\ UNCHANGED <<status, events, worker>>

-----------------------------------------------------------------------------
WorkerStep(w) ==
    \/ \E j \in Jobs, s \in STAGE_NAMES : ReadJob(w, j, s)
    \/ Work(w)
    \/ WorkRaises(w)
    \/ Abandon(w)
    \/ CommitIfStatus(w)

WriterStep(p) ==
    \/ \E j \in Jobs, k \in PlainKinds : PlainLoad(p, j, k)
    \/ PlainCommit(p)
    \/ PlainReplay(p)
    \/ PlainAbandon(p)

Next ==
    \/ \E w \in Workers : WorkerStep(w)
    \/ \E p \in Writers : WriterStep(p)

Spec == Init /\ [][Next]_vars

-----------------------------------------------------------------------------
(***************************************************************************)
(* Properties.                                                             *)
(***************************************************************************)

\* A stage's event always continues the history: its `from' is the status the
\* previous event left, and the status column is where the history ends --
\* whatever humans and other commands do while the stage's LLM call runs
\* (commit_if_status: "a stage could clobber a status a human set meanwhile").
StageEventsContinueHistory ==
    \A j \in Jobs :
        /\ status[j] = events[j][Len(events[j])].to
        /\ \A i \in 2..Len(events[j]) :
              events[j][i].by = "stage" => events[j][i].from = events[j][i - 1].to

\* The stages take a job out of the same status twice only if a plain writer
\* wrote it in between: two workers, or two processes, never advance the same
\* job by the same stage (README, "Pipeline"; _workers.py, the second rule).
AdvancedOnce ==
    \A j \in Jobs : \A i, k \in 1..Len(events[j]) :
        (i < k /\ events[j][i].from = events[j][k].from)
            => \E m \in i..k : events[j][m].by = "plain"

\* As far as the stages go, comparing the status is as good as comparing a
\* version: whenever the compare-and-set of a stage under way would succeed, no
\* other stage has written the job since that one read it.
StatusIsAVersion ==
    \A w \in Workers :
        (Busy(w) /\ status[worker[w].job] = Expects[worker[w].stage])
            => \/ worker[w].basis = Len(events[worker[w].job])
               \/ \E m \in (worker[w].basis + 1)..Len(events[worker[w].job]) :
                     events[worker[w].job][m].by = "plain"

\* The database behaves as if every stage were one atomic step from the status
\* the job has at that moment.
Lifecycle == INSTANCE JobLifecycle WITH Overridable <- (Writers # {})
LifecycleSpec == Lifecycle!LifeSpec
=============================================================================
