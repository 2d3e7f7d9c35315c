----------------------------- MODULE PreparePool -----------------------------
(***************************************************************************)
(* The prepare pool (stages/prepare.py, drive_jobs): a thread pool drives  *)
(* a list of jobs through the prepare stages while the main thread books   *)
(* finished jobs, counts the covered ones and stops at the target.  A      *)
(* thread pauses before its next LLM stage when any of them ran into a     *)
(* rate limit, and gives up when the limit persists.  SIGINT and SIGTERM   *)
(* stop the drive; other processes move jobs meanwhile.                    *)
(*                                                                         *)
(* The stage itself is StageCommit's: read, work, compare-and-set.  Here   *)
(* it is cut at the places where the pool can be stopped.  Time is left    *)
(* out: a pause ends some time after it was triggered.                     *)
(***************************************************************************)
EXTENDS PipelineStatus, Sequences, FiniteSets

CONSTANTS NJobs,         \* the ids are 1..NJobs, in the order given to drive_jobs
          Workers,       \* the pool's threads
          Target,        \* stop at that many covered jobs; 0: no target
          GiveUpAfter,   \* llm_pause_give_up_after; 0: never give up
          Stages,        \* the selected stages, in order
          StartStatuses, \* the statuses jobs are in when the drive starts
          CanLimit,      \* BOOLEAN: may an LLM call hit a rate limit?
          CanFail,       \* BOOLEAN: may a stage raise another error?
          MaxElsewhere,  \* bound: moves of jobs by other processes
          MaxSignals,    \* bound: signals delivered
          MaxUnbooked    \* bound: finished jobs the main thread is behind by

Jobs == 1..NJobs

ASSUME PoolAssumption ==
    /\ NJobs \in Nat \ {0}
    /\ Workers # {} /\ IsFiniteSet(Workers)
    /\ Target \in Nat /\ GiveUpAfter \in Nat
    /\ Stages \in Seq(STAGE_NAMES)
    /\ StartStatuses \subseteq ALL
    /\ CanLimit \in BOOLEAN /\ CanFail \in BOOLEAN
    /\ MaxElsewhere \in Nat /\ MaxSignals \in Nat /\ MaxUnbooked \in Nat \ {0}

VARIABLES status,         \* jobs.status
          future,         \* the state of each job's future
          outcome,        \* what _drive_one returned for the job
          thread,         \* each thread: where it is, its job, its stage
          stop,           \* ctx.stop
          target_reached, \* ctx.target_reached
          paused,         \* the shared pause has not run out yet
          consecutive,    \* LLMPause.consecutive
          main,           \* where the main thread is in drive_jobs
          booked,         \* jobs whose future record() has seen
          elsewhere,      \* moves by other processes so far
          signals,        \* signals delivered so far
          called,         \* history: threads whose work at hand has made an LLM call
          streak,         \* history: LLM calls that hit the limit since a stage that
                          \* made one got through
          spared,         \* history: times the count was reset meanwhile with no call
          grace           \* history: threads past their last check when stop was set

jobVars == <<status, future, outcome>>
stopVars == <<stop, grace>>
pauseVars == <<paused, consecutive, called, streak, spared>>
mainVars == <<main, booked, target_reached>>
envVars == <<elsewhere, signals>>
vars == <<jobVars, thread, stopVars, pauseVars, mainVars, envVars>>

Free == [at |-> "free", job |-> 0, stage |-> 0, verdict |-> "none"]

ThreadStates ==
    [at : {"free", "start", "loop", "gate", "pause", "read", "work", "commit", "final"},
     job : 0..NJobs, stage : 0..(Len(Stages) + 1), verdict : ALL \union {"none"}]

TypeOK ==
    /\ status \in [Jobs -> ALL]
    /\ future \in [Jobs -> {"pending", "running", "finished", "cancelled"}]
    /\ outcome \in [Jobs -> ALL \union {"none", "skipped"}]
    /\ thread \in [Workers -> ThreadStates]
    /\ stop \in BOOLEAN /\ target_reached \in BOOLEAN /\ paused \in BOOLEAN
    /\ consecutive \in Nat /\ streak \in Nat /\ spared \in Nat
    /\ called \subseteq Workers
    /\ main \in {"collect", "drain", "join", "done", "unwind", "interrupted"}
    /\ booked \subseteq Jobs
    /\ elsewhere \in 0..MaxElsewhere /\ signals \in 0..MaxSignals
    /\ grace \subseteq Workers

Init ==
    /\ status \in [Jobs -> StartStatuses]
    /\ future = [j \in Jobs |-> "pending"]
    /\ outcome = [j \in Jobs |-> "none"]
    /\ thread = [w \in Workers |-> Free]
    /\ stop = FALSE /\ target_reached = FALSE
    /\ paused = FALSE /\ consecutive = 0
    /\ main = "collect" /\ booked = {}
    /\ elsewhere = 0 /\ signals = 0
    /\ called = {} /\ streak = 0 /\ spared = 0 /\ grace = {}

-----------------------------------------------------------------------------
(***************************************************************************)
(* A thread: _drive_one.                                                   *)
(***************************************************************************)

Job(w) == thread[w].job
StageName(w) == Stages[thread[w].stage]

GoTo(w, place) == thread' = [thread EXCEPT ![w].at = place]

NextStage(w) == thread' = [thread EXCEPT ![w].at = "loop", ![w].stage = @ + 1,
                                         ![w].verdict = "none"]

\* ctx.stop.set(); grace notes who is already past its last look at it.
SetStop ==
    /\ stop' = TRUE
    /\ grace' = IF stop THEN grace ELSE {w \in Workers : thread[w].at = "read"}

\* The executor hands the oldest queued job to a free thread.
TakeJob(w) ==
    /\ thread[w].at = "free"
    /\ \E j \in Jobs :
          /\ future[j] = "pending"
          /\ \A k \in Jobs : k < j => future[k] # "pending"
          /\ future' = [future EXCEPT ![j] = "running"]
          /\ thread' = [thread EXCEPT ![w] = [Free EXCEPT !.at = "start", !.job = j]]
    /\ UNCHANGED <<status, outcome, stopVars, pauseVars, mainVars, envVars>>

\* A stopped drive skips the job without touching it.
Start(w) ==
    /\ thread[w].at = "start"
    /\ \/ /\ stop
          /\ outcome' = [outcome EXCEPT ![Job(w)] = "skipped"]
          /\ future' = [future EXCEPT ![Job(w)] = "finished"]
          /\ thread' = [thread EXCEPT ![w] = Free]
       \/ /\ ~ stop
          /\ NextStage(w)
          /\ UNCHANGED <<outcome, future>>
    /\ UNCHANGED <<status, stopVars, pauseVars, mainVars, envVars>>

\* The top of the loop over the stages.
Loop(w) ==
    /\ thread[w].at = "loop"
    /\ GoTo(w, IF stop \/ thread[w].stage > Len(Stages) THEN "final"
               ELSE IF UsesLLM[StageName(w)] THEN "gate" ELSE "read")
    /\ UNCHANGED <<jobVars, stopVars, pauseVars, mainVars, envVars>>

\* Mutated form of should_give_up: one pause too many.
should_give_up_OffByOne == GiveUpAfter > 0 /\ consecutive > GiveUpAfter

should_give_up == GiveUpAfter > 0 /\ consecutive >= GiveUpAfter

\* Before an LLM stage: a persistent limit stops the whole drive.
Gate(w) ==
    /\ thread[w].at = "gate"
    /\ \/ /\ should_give_up
          /\ SetStop
          /\ GoTo(w, "final")
       \/ /\ ~ should_give_up
          /\ GoTo(w, "pause")
          /\ UNCHANGED stopVars
    /\ UNCHANGED <<jobVars, pauseVars, mainVars, envVars>>

\* Mutated form of Wait: no second look at stop after the pause.
Wait_NoStopCheck(w) ==
    /\ thread[w].at = "pause"
    /\ ~ paused \/ stop
    /\ GoTo(w, "read")
    /\ UNCHANGED <<jobVars, stopVars, pauseVars, mainVars, envVars>>

\* LLMPause.wait returns when the pause is over or stop is set; stop is looked
\* at again.
Wait(w) ==
    /\ thread[w].at = "pause"
    /\ ~ paused \/ stop
    /\ GoTo(w, IF stop THEN "final" ELSE "read")
    /\ UNCHANGED <<jobVars, stopVars, pauseVars, mainVars, envVars>>

\* note_progress() after a stage that uses the LLM and did not raise -- whether
\* or not it made a call.  The history tells the two apart.
note_progress(w) ==
    /\ consecutive' = IF UsesLLM[StageName(w)] THEN 0 ELSE consecutive
    /\ streak' = IF w \in called THEN 0 ELSE streak
    /\ spared' = IF w \in called THEN 0
                 ELSE IF consecutive' < consecutive THEN spared + 1 ELSE spared
    /\ called' = called \ {w}

\* run_stage_on_job reads the job.  If it is not where the stage expects it the
\* stage returns None -- which still counts as progress -- and the next one is
\* tried.
Read(w) ==
    /\ thread[w].at = "read"
    /\ grace' = grace \ {w}
    /\ \/ /\ status[Job(w)] # Expects[StageName(w)]
          /\ note_progress(w)
          /\ NextStage(w)
       \/ /\ status[Job(w)] = Expects[StageName(w)]
          /\ GoTo(w, "work")
          /\ UNCHANGED <<consecutive, called, streak, spared>>
    /\ UNCHANGED <<jobVars, stop, paused, mainVars, envVars>>

\* The work returns with its verdict: after the LLM has answered, or, where the
\* stage uses none or turns the job down beforehand, without a call.
Work(w) ==
    /\ thread[w].at = "work"
    /\ \E v \in Verdicts[StageName(w)] :
          /\ thread' = [thread EXCEPT ![w].at = "commit", ![w].verdict = v]
          /\ \/ UsesLLM[StageName(w)] /\ called' = called \union {w}
             \/ ~ UsesLLM[StageName(w)] /\ UNCHANGED called
             \/ v \in UncalledVerdicts[StageName(w)] /\ UNCHANGED called
    /\ UNCHANGED <<jobVars, stopVars, paused, consecutive, streak, spared, mainVars, envVars>>

\* The LLM call hits a rate limit: LLMPause.trigger, and the job's drive ends.
RateLimited(w) ==
    /\ CanLimit
    /\ thread[w].at = "work"
    /\ UsesLLM[StageName(w)]
    /\ paused' = TRUE
    /\ consecutive' = consecutive + 1
    /\ streak' = streak + 1
    /\ GoTo(w, "final")
    /\ UNCHANGED <<jobVars, stopVars, called, spared, mainVars, envVars>>

\* The stage raises something else (in its work or for want of the write lock).
StageError(w) ==
    /\ CanFail
    /\ thread[w].at \in {"work", "commit"}
    /\ GoTo(w, "final")
    /\ called' = called \ {w}
    /\ UNCHANGED <<jobVars, stopVars, paused, consecutive, streak, spared, mainVars, envVars>>

\* commit_if_status, and what _drive_one makes of the status it returns.
Commit(w) ==
    LET j == Job(w)
        s == StageName(w)
        v == thread[w].verdict
    IN
    /\ thread[w].at = "commit"
    /\ \/ /\ status[j] = Expects[s]
          /\ status' = [status EXCEPT ![j] = v]
          /\ IF v = Produces[s] THEN NextStage(w) ELSE GoTo(w, "final")
       \/ /\ status[j] # Expects[s]
          /\ NextStage(w)
          /\ UNCHANGED status
    /\ note_progress(w)
    /\ UNCHANGED <<future, outcome, stopVars, paused, mainVars, envVars>>

Unbooked == {j \in Jobs : future[j] = "finished"} \ booked

\* Mutated form of Final: the job is reported as the stages left it, not read
\* again, so a job no stage applied to has no status.
Final_NoPeek(w) ==
    /\ thread[w].at = "final"
    /\ main \in {"collect", "drain"} => Cardinality(Unbooked) < MaxUnbooked
    /\ outcome' = [outcome EXCEPT ![Job(w)] = "unread"]
    /\ future' = [future EXCEPT ![Job(w)] = "finished"]
    /\ thread' = [thread EXCEPT ![w] = Free]
    /\ UNCHANGED <<status, stopVars, pauseVars, mainVars, envVars>>

\* The final peek: the job's status as it now is.  The bound says how far the
\* main thread, which only books and prints, can fall behind the threads.
Final(w) ==
    /\ thread[w].at = "final"
    /\ main \in {"collect", "drain"} => Cardinality(Unbooked) < MaxUnbooked
    /\ outcome' = [outcome EXCEPT ![Job(w)] = status[Job(w)]]
    /\ future' = [future EXCEPT ![Job(w)] = "finished"]
    /\ thread' = [thread EXCEPT ![w] = Free]
    /\ UNCHANGED <<status, stopVars, pauseVars, mainVars, envVars>>

-----------------------------------------------------------------------------
(***************************************************************************)
(* The main thread: the loop over as_completed in drive_jobs.              *)
(***************************************************************************)

CoveredIn(S) == Cardinality({j \in S : outcome[j] = "covered"})

\* pool.shutdown(cancel_futures=True): what no thread has taken is cancelled.
CancelQueued ==
    future' = [j \in Jobs |-> IF future[j] = "pending" THEN "cancelled" ELSE future[j]]

\* Mutated form of HitsTarget: one covered job more than asked for.
HitsTarget_OffByOne(S) == Target > 0 /\ CoveredIn(S) > Target

HitsTarget(S) == Target > 0 /\ CoveredIn(S) >= Target

\* Mutated form of Collect: the loop goes on iterating after it has cancelled
\* the queued futures, which as_completed never yields.
Collect_KeepIterating ==
    /\ main = "collect"
    /\ \E j \in Unbooked :
          /\ booked' = booked \union {j}
          /\ \/ /\ HitsTarget(booked')
                /\ target_reached' = TRUE
                /\ SetStop
                /\ CancelQueued
                /\ UNCHANGED main
             \/ /\ ~ HitsTarget(booked')
                /\ UNCHANGED <<target_reached, stopVars, future, main>>
    /\ UNCHANGED <<status, outcome, thread, pauseVars, envVars>>

\* record(), and the end of the drive when the target is reached.
Collect ==
    /\ main = "collect"
    /\ \E j \in Unbooked :
          /\ booked' = booked \union {j}
          /\ \/ /\ HitsTarget(booked')
                /\ target_reached' = TRUE
                /\ SetStop
                /\ CancelQueued
                /\ main' = "drain"
             \/ /\ ~ HitsTarget(booked')
                /\ UNCHANGED <<target_reached, stopVars, future, main>>
    /\ UNCHANGED <<status, outcome, thread, pauseVars, envVars>>

\* as_completed has yielded every future.
CollectEnds ==
    /\ main = "collect"
    /\ booked = Jobs
    /\ main' = "join"
    /\ UNCHANGED <<jobVars, thread, stopVars, pauseVars, booked, target_reached, envVars>>

\* After the target: the running futures are booked too.
Drain ==
    /\ main = "drain"
    /\ \E j \in Unbooked : booked' = booked \union {j}
    /\ UNCHANGED <<jobVars, thread, stopVars, pauseVars, main, target_reached, envVars>>

\* Mutated form of DrainEnds: the running futures are not waited for.
DrainEnds_AtOnce ==
    /\ main = "drain"
    /\ main' = "join"
    /\ UNCHANGED <<jobVars, thread, stopVars, pauseVars, booked, target_reached, envVars>>

DrainEnds ==
    /\ main = "drain"
    /\ \A j \in Jobs : future[j] = "cancelled" \/ j \in booked
    /\ main' = "join"
    /\ UNCHANGED <<jobVars, thread, stopVars, pauseVars, booked, target_reached, envVars>>

\* Leaving the `with' block joins the threads: drive_jobs returns its summary,
\* or lets the KeyboardInterrupt through.
Join ==
    /\ main \in {"join", "unwind"}
    /\ \A j \in Jobs : future[j] \in {"finished", "cancelled"}
    /\ main' = IF main = "join" THEN "done" ELSE "interrupted"
    /\ UNCHANGED <<jobVars, thread, stopVars, pauseVars, booked, target_reached, envVars>>

-----------------------------------------------------------------------------
(***************************************************************************)
(* The environment.                                                        *)
(***************************************************************************)

\* on_signal: sets stop, or, if it is set already, cancels what is queued and
\* raises KeyboardInterrupt in the main thread -- which, if it is joining the
\* threads for an earlier one, no longer waits for them.
Signal ==
    /\ signals < MaxSignals
    /\ main \in {"collect", "drain", "join", "unwind"}
    /\ signals' = signals + 1
    /\ \/ /\ ~ stop
          /\ SetStop
          /\ UNCHANGED <<future, main>>
       \/ /\ stop
          /\ CancelQueued
          /\ main' = IF main = "unwind" THEN "interrupted" ELSE "unwind"
          /\ UNCHANGED stopVars
    /\ UNCHANGED <<status, outcome, thread, pauseVars, booked, target_reached, elsewhere>>

\* The pause's deadline passes.
PauseEnds ==
    /\ paused
    /\ paused' = FALSE
    /\ UNCHANGED <<jobVars, thread, stopVars, consecutive, called, streak, spared, mainVars, envVars>>

\* Another process moves a job: a stage of its own, or a human's verdict.
Elsewhere ==
    /\ elsewhere < MaxElsewhere
    /\ elsewhere' = elsewhere + 1
    /\ \E j \in Jobs :
          \/ \E s \in STAGE_NAMES :
                /\ status[j] = Expects[s]
                /\ status' = [status EXCEPT ![j] = Produces[s]]
          \/ /\ status[j] # "needs_human"
             /\ status' = [status EXCEPT ![j] = "needs_human"]
    /\ UNCHANGED <<future, outcome, thread, stopVars, pauseVars, mainVars, signals>>

-----------------------------------------------------------------------------
ThreadStep(w) ==
    \/ TakeJob(w)
    \/ Start(w)
    \/ Loop(w)
    \/ Gate(w)
    \/ Wait(w)
    \/ Read(w)
    \/ Work(w)
    \/ RateLimited(w)
    \/ StageError(w)
    \/ Commit(w)
    \/ Final(w)

MainStep ==
    \/ Collect
    \/ CollectEnds
    \/ Drain
    \/ DrainEnds
    \/ Join

Next ==
    \/ \E w \in Workers : ThreadStep(w)
    \/ MainStep
    \/ Signal
    \/ PauseEnds
    \/ Elsewhere

Spec == Init /\ [][Next]_vars

\* Threads and the main thread are scheduled, an LLM call ends (claude -p has a
\* timeout of 300 s), and a pause runs out.  Signals and other processes are not
\* bound to do anything.
FairSpec ==
    /\ Spec
    /\ \A w \in Workers : WF_vars(ThreadStep(w))
    /\ WF_vars(MainStep)
    /\ WF_vars(PauseEnds)

-----------------------------------------------------------------------------
(***************************************************************************)
(* Properties.                                                             *)
(***************************************************************************)

\* drive_jobs returns or raises, whatever signals, rate limits, errors and
\* other processes do (DECISIONS.md, "Parallel prepare": the loop that cancels
\* and keeps iterating hangs forever).
DriveEnds == <>(main \in {"done", "interrupted"})

\* Once stop is set no thread gets past another check: only the threads that
\* were about to read their job at that moment still run a stage (prepare.py:
\* in-flight jobs "stop after their current stage").
StopIsPrompt ==
    stop => \A w \in Workers : thread[w].at = "read" => w \in grace

\* When drive_jobs returns, no thread is at work, every job that was driven is
\* in the summary, nothing is left out unless the drive was stopped, and
\* target_reached is claimed only if that many booked jobs were covered.
SummaryIsComplete ==
    main = "done" =>
        /\ \A w \in Workers : thread[w] = Free
        /\ \A j \in Jobs : future[j] = "finished" => j \in booked
        /\ ~ stop => \A j \in Jobs : j \in booked /\ outcome[j] # "skipped"
        /\ target_reached => CoveredIn(booked) >= Target

\* A usage limit that persists is met by at most give_up_after calls, and one
\* more by each other thread that was past the gate already (_workers.py,
\* should_give_up: "the run should stop rather than sleep through every
\* remaining job") -- and by as many again for each time the count was reset
\* meanwhile by a stage that had made no call: one that found its job elsewhere,
\* or turned it down before calling (note_progress: "A call succeeded").
LimitIsBounded ==
    GiveUpAfter > 0 =>
        streak <= (spared + 1) * (GiveUpAfter + Cardinality(Workers) - 1)

\* The drive's covered jobs: reported as such, or still with a thread.
CoveredHere ==
    {j \in Jobs : outcome[j] = "covered" \/ (future[j] = "running" /\ status[j] = "covered")}

\* The jobs covered beyond the target are bounded by the worker count
\* (prepare.py, concurrency model) and by how far the main thread, which alone
\* counts them, is behind.
OvershootIsBounded ==
    Target > 0 =>
        Cardinality(CoveredHere) <= Target - 1 + MaxUnbooked + Cardinality(Workers)
=============================================================================
