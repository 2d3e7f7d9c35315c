# HonestApply in TLA+

HonestApply is a job-application pipeline. Jobs are rows of one SQLite database.
Prepare stages (enrich, score, tailor, cover letter) move a job forward, mostly by
asking an LLM; the apply stage has a browser agent fill and submit the form; the
inbox stage reads the mail that comes back. Several threads, several processes
(scripts, the dashboard, the command line) and a human work on the same rows. This
directory holds the specifications of the parts where that goes right or wrong, the
TLC runs that check them on small instances, and TLAPS proofs.

Paths below are relative to `src/honestapply/` unless they start with `scripts/`,
`dashboard/` or `tests/`.

## 1. Inventory

| Component | State it keeps | Operations | Talks to |
|---|---|---|---|
| Status model, audit trail (`db/models.py`, `db/events.py`) | `jobs.status`, `archived_at`, `job_events`, `applications`, `email_messages` | a `before_flush` listener writes one event per status change; notes are events too | every writer |
| Sessions (`db/session.py`) | SQLite's single write lock; pending ORM changes | `session_scope`, `_commit_with_retry` (snapshot, rollback, replay), `commit_if_status` | every writer |
| Migrations (`db/migrate.py`, `migrations/`) | the schema, the row of `alembic_version` | inspect, stamp a database from before Alembic, upgrade statement by statement | every process, when it starts |
| Stage workers (`stages/_workers.py`) | the shared `LLMPause` (deadline, streak) | `run_stage_on_job` (read, work, compare-and-set), `trigger`, `wait`, `note_progress`; `run_pool` | stages, sessions, LLM |
| Prepare pool (`stages/prepare.py`) | `DriveContext` (stop, target, pause), futures, summary | `drive_jobs`, `_drive_one`, signal handler | stage workers; other processes through the database |
| Stages (`enrich`, `score`, `tailor`, `cover_letter`) | fields of the posting; files under `data/outputs` | one function per job, bulk moves of tailor and enrich | LLM, ATS adapters |
| Plain writers (`prefilter`, `manual_assist`, `cli.py mark`, dashboard `patch_job`, `scripts/verify_letters.py`) | -- | load, assign, commit, without compare-and-set | the same rows |
| Apply stage (`stages/apply.py`) | the queue loaded at start, the count of jobs this run, the last submission per domain | `run_apply`, `_process_job`, `_execute_agent`, `_persist` | browser agent (a subprocess), `track.py` counts |
| Inbox (`email/sync.py`, `email/agent.py`) | `email_messages` | `run_inbox`: shortlist, agent, guards, one transaction per message | Gmail agent, humans, another sync |
| Discovery, ATS adapters (`stages/discover.py`, `stages/arbeitsagentur.py`, `ats/`) | rows, one transaction per batch | fetch, filter, relink, look, insert | third-party feeds, resolver, prefilter |
| Board resolver (`ats/resolve.py`) | a cache file of boards; what boards listed in this run | guess boards, probe, match by title, confirm, expire | discovery |
| LLM providers (`llm/`) | the gate on concurrent `claude` processes | `complete`, `complete_json` with one retry, widening of the gate | stages |
| Vault, secret proxy (`vault.py`, `secret_proxy.py`) | secret store and index file | ensure, peek, rotate, delete; type a secret | apply agent, human |
| Dashboard (`dashboard/api.py`) | the one subprocess of `_Runner`, the answers cache | `patch_job`, notes, funnel, start and stop a run | everything, through the database |
| Analytics, provenance (`analytics.py`, `provenance.py`) | -- | outcomes from the events; claims against the PDF | dashboard |
| Scripts (`scripts/*.sh`, `scripts/*.py`) | process table, files | producer and consumer loops, watchdog, cycle; pick candidates; verify letters | command line |
| Track, rendering, notifications, mail source, markets, taxonomy, configuration | -- | counts, files, text | -- |

What is hard here:

* an LLM call or a browser session takes minutes, no lock is held meanwhile, and the
  row may have been written by somebody else when the answer arrives;
* some writers compare before they write, some do not;
* a commit may lose the lock and be replayed on rows that have changed;
* the pool is stopped by a target, by a persistent usage limit, by a signal, or by
  several of them at once, while threads sit between any two checks;
* the apply stage acts on the world before it records that it did: a crash, an
  exception or a timeout in between loses the record its own dedup depends on;
* the caps and the canary count what the code recorded, not what was sent;
* files, caches, indexes and the schema are written outside of any transaction with what
  names them, one statement or one file after the other, by several processes;
* the loops meet in counts of statuses and in the process table, read some steps before
  they are acted on.

What makes each part correct: one event per change and histories that continue;
no stage advancing a job twice; stages never writing over a human; a drive that ends,
stops promptly and reports everything it did; nothing sent twice, nothing sent
unrecorded, caps kept in every rolling window; mail moving a job forward only; new jobs
counted once and stored once; a posting losing no field, and a job applied with checked
files only; a schema that is complete when a command works on it; accounts that open;
panels that agree; one apply run at a time, and no loop waiting for ever.
`PROJECT.json` lists every hazard with its line and the property about it.

## 2. Modules

    PipelineStatus          statuses, stage tables, who may write what (data only)
      JobLifecycle          abstract: stages are atomic, every change leaves an event
      StageCommit           read / work / compare-and-set against plain writers
      PreparePool           the thread pool around the stages
      ApplyStage            the apply loop, its record and the world
      InboxSync             mail moving jobs after the application
      JobBoard              archiving, notes, and what funnel and analytics count
    BoardResolver           pure operators: a company's boards, the match, the cache
      Intake                discovery runs, relinking, inserts, prefilter
    Automation              producer, consumer, watchdog and cycle: the loops composed
    Enrich                  the fields of a posting through the cascade of tiers
    Materials               tailor, cover letter, the files, provenance, verify_letters
    Migrations              processes that bring the schema up to date
    Vault                   secret store, index, proxies and the human's commands
    RunControl              the dashboard's subprocess and its pump threads
    AnswersCache            the dashboard's cache of parsed answers
    PickCandidates          which open jobs a drive is given
    LlmGate                 the gate around claude processes and its widening
    <M>_proofs              theorems about StageCommit, PreparePool, ApplyStage, InboxSync,
                            JobBoard, Intake (with BoardResolver) and Automation
    Services_proofs         theorems about the eight modules that MCServices runs
    MC<M>                   values of the constants for TLC; MCServices runs eight parts
                            that share no state, one part to a behaviour

**PipelineStatus** translates the status lists, `STAGES` and each stage's possible
verdicts, and for every writer without compare-and-set the statuses it selects by and
assigns.

**JobLifecycle** is what the database promises, with no sessions and no locks:
`StageMove` takes an edge of the stage table from the status the job has at that very
moment, `Override` is any write of a plain writer.

**StageCommit** has one action per step at which other processes can intervene.
`ReadJob` is `session.get` and the first status check, `Work` and `WorkRaises` the LLM
call, `CommitIfStatus` the `BEGIN IMMEDIATE`, re-read and commit (one step, because
the write lock is held through it), `Abandon` every way out without a write.
`PlainLoad`, `PlainCommit`, `PlainReplay` and `PlainAbandon` are a `session_scope`
that assigns a status: a SELECT takes no lock, so load and commit are separate, and a
lost lock reloads and re-applies. `Record` is the flush listener. `basis` in a run is
history: the version of the job it read.

**PreparePool** cuts `_drive_one` at each place the pool can be stopped or another
thread can intervene (start, top of the loop, gate, pause, read, work, commit, final
peek). The main thread is the loop over `as_completed` (`Collect`, `Drain`, `Join`).
`Signal` is the handler: sets stop, or, when stop is set, cancels and raises. Time is
left out: a pause ends at some point after it was triggered. `called` (whose work at hand
made an LLM call), `streak` (calls limited in a row), `spared` (resets of the code's count
without a call) and `grace` (threads past their last check when stop was set) are history.
A verdict that tailor or cover reach without a call is in `UncalledVerdicts`.

**ApplyStage** keeps two accounts: `sent`, what employers received, and `rows`, the code's
own record, the only one its checks can read. `Skip`, `Retire`, `Wall`, `Admit` and `Gate`
are the checks of `_process_job` in their order, `Agent` is the browser session, `Persist`
the record, `Raise` the handler around the loop body, `Crash` the process dying at any
point. What the agent does and what it reports are chosen apart (`AgentMay`): a RESULT
that is missing, garbled, lost or wrong, or a timeout, is a report of something else than
what happened. `lost` is history: the submissions whose report never reached `_persist`.
`Elsewhere` is a human or a stage moving a job. One tick of the clock is 24 hours, the
length of both rolling windows.

**InboxSync** is `run_inbox`. `StartRun` is its first session (shortlist, messages
already recorded), `AgentReturns` the Gmail agent, `SkipKnown`, `Read` and `Record` the
loop over its messages, `RunFails` the agent's timeout, a lost lock or a crash. `Read` and
`Record` are separate because `s.get` takes no lock; from the flush to the commit the
write lock is held, so they are one step. What the agent makes of a message is chosen
anew in every run. `moves` is history; each entry keeps the status the writer had read.

**JobBoard** has `archived_at` next to the status. `PatchLoads`, `MarkLoads`, `NoteLoads`,
`ArchiveLoads` and `ApplyLoads` are the SELECTs of the writers that compare nothing,
`Commit` their flush: it writes what was loaded to be written, and the listener compares
with what was loaded. `FunnelBegins` and `FunnelQueries` are `/api/funnel`, two queries to
a stage without a snapshot; `Outcomes` is `analytics.compute`. Imported jobs start with a
status and no history.

**BoardResolver** and **Intake**: a discovery run goes through its sources (`Fetch`; what an
adapter may return of its source's offers is `Fetches`: all or nothing, or any number of
pages), swaps agency pages for the employer's own posting (`Relink`, through the pure
operators of BoardResolver: `Lookup`, `BestMatches`, `Confirm`), then looks (`Look`), and
inserts (`Flush`) job by job in one transaction per batch (`Commit`). The look takes no
lock, the first flush takes the write lock until the commit; a violated constraint
rolls the batch back, a lock that is not to be had ends the command (`Locked`).
`run_prefilter` is one transaction. `Change` is the world: postings come and go, boards
cannot be reached for a while.

**Automation** has the phases of a producer's round (`Count`, `Discover`, `Pick`,
`DriveJob`, `EndDrive`, `EndRound`), those of a round of `cycle.sh` (`StartCycle`, its own
drives one after the other, `CycleVerifies`, `CycleApplies`), a poll of the consumer
(`Poll`) separate from the start that follows (`StartApply`), the inside of an apply run
as far as its queue, canaries, dedup and caps go (`ApplyJob`), `KillConsumer`, `Restart`
(the watchdog) and `HumanApplies`, a run from the shell or the dashboard. A drive goes on
past its target by at most `OVERSHOOT` jobs, those its threads are at. `sent` is what the
consumer counts (submitted in the last day), `real` what the apply stage counts (every
real attempt); the cap is the same number. Both `overnight.sh` (counts covered jobs) and
`de_producer.sh` (counts dry runs as well) are instances of it, by `COUNTRIES` and
`Counted`.

**Enrich** takes a page as what each tier would find in it; `Cascade` is the order of the
tiers, `AppliedTo` which fields are overwritten and which filled in. **Materials** takes a
résumé as the set of its facts and whether the model wrote its summary, and a letter as
the two things its checks look for: `strip_model_preamble` trims both ends only, so any
talk of the model may be left in a letter. Its point is the order: `WriteKept` and
`RenderResume` write files before `CommitStage` compares, so a loser's files stay, and the
apply stage uploads what is on disk. `VerifyLoads`, `VerifyReads`, `VerifyRoutes` are
`verify_letters.py`, `Unverified` is `provenance.attest_job`, `Mark` is a human who sets
any status from any; `vouched` is history, the stages whose work a human so said is done.

**Migrations** has one action per statement: pysqlite commits every CREATE by itself, only
the row of `alembic_version` is transactional. **Vault** has each read and write of the
secret store and of the index as a step, for proxies and for the human's commands alike.
The store is the keyring, which sets a password at once, or the file, which is loaded
(`Stores`), emptied (`Saves`) and written whole (`Saved`) without a lock; `torn` is a file
that a process was cut off at, or that two wrote at once. `account` is the portal's side.
**RunControl** keeps apart the two times a pump reads `self._proc`. **AnswersCache** keeps
apart the signature and the entries. **PickCandidates** is the selection, as pure
operators on a growing pool. **LlmGate** numbers the semaphores: `Resolve` replaces the
one in use, whoever has the old one keeps it.

## 3. Runs

| Run | Modules | Shows |
|---|---|---|
| `commit` | StageCommit | types; a stage's event continues the history whatever plain writers do (`StageEventsContinueHistory`); no status is left twice by stages without a plain write in between (`AdvancedOnce`); a compare-and-set that would succeed compares with the latest version a stage wrote (`StatusIsAVersion`); the module implements JobLifecycle (`LifecycleSpec`) |
| `pool_stop` | PreparePool | types; after stop only threads already past their last check run a stage (`StopIsPrompt`); the summary has every job that was driven (`SummaryIsComplete`) |
| `pool_ends` | PreparePool | `DriveEnds`; what a drive covers beyond its target is bounded (`OvershootIsBounded`), reported or still with a thread; so is how often a persisting limit is met (`LimitIsBounded`), by a number that each reset of the streak without a call adds to |
| `apply_caps` | ApplyStage | `CapsHold`: the daily cap and both employer caps |
| `apply_lost` | ApplyStage | types; what the agent reports as sent is on record (`SendsAreRecorded`); only what is not on record is sent again (`SentAgainOnlyIfLost`); `QueueDrains` |
| `inbox_mail` | InboxSync | types; a message moves one job once (`MovedOnce`); an outcome that mail brought stands, and progress counts, in any order of mail (`OutcomeStands`) |
| `intake` | Intake, BoardResolver | types; what a run counts as new is what it stores (`CountedAreStored`), and nothing twice (`NothingTwice`); a URL that is not the listing's own was up during the run (`RelinksAreFresh`); an agency page is kept only after its boards were asked in time (`UnlinkedWereAsked`); prefilter drops no engineering job whose listing had a link to neither a dead host nor an agency page (`AppliableAreKept`) |
| `services` | MCServices: eight modules | `OpenIsComplete`, `OpensAgain` (Migrations); `VaultHolds` (Vault); `OneAtATime` (RunControl); `CurrentIsFresh` (AnswersCache); `EmployersAreSpared` (PickCandidates); `GateHolds` (LlmGate); `NothingIsLost` (Enrich); `FilesWereChecked`, `KeptIsRendered` (Materials) |
| `board` | JobBoard | the funnel's bars narrow, up to jobs written meanwhile (`FunnelNarrows`); funnel and analytics count the same jobs as in process (`PanelsAgree`) |
| `automation` | Automation | one apply run at a time unless `cycle.sh` or a human starts one (`OneApplyAtATime`); the queue exceeds its limit by no more than target and overshoot of each country's drive, and as much for each round of `cycle.sh` (`QueueIsBounded`); every covered job is attempted in the end unless its posting was submitted under another job (`CoveredAreAttempted`) |
| `board_archived` | JobBoard | **violated** `ArchivedStayPut`: the pipeline takes up archived jobs |
| `automation_stuck` | Automation | **violated** `PauseEnds`: producer and consumer wait for each other |

Every property of a passing run has a mutant: the code's definition changed the way a
plausible bug would change it, under which TLC finds the property violated.

### Bounds, and why they are enough

* `commit`: one job, because no action relates two jobs; two workers and one plain
  writer, which is every pairwise race plus a third party between a read and a
  commit; five events, which leaves room for a reset by a human and both workers
  going over the same stage again. The theorems remove these bounds.
* `pool_stop`: two threads and three jobs, so that one job is queued while two run; a
  target of one; three signals (first, second, and one while unwinding); one move by
  another process. `pool_ends`: four jobs, so that a job is queued, two are running and
  one is finished and unbooked; jobs before tailor and before cover, so that a stage is
  skipped, or ends without a call, between two calls that are limited; a give-up after one
  limited call, exceeded by a second thread and by each reset. `MaxUnbooked` says how far
  the main thread may lag behind the threads: it only books and prints between two
  futures, and without a bound on its lag the overshoot has none.
* `apply_caps`: three roles at one employer and one at another, because the lifetime
  cap of two needs a third; dry and guarded runs; five days (0 to 4), because the rolling
  cap lets one through every second tick. `apply_lost`: three jobs, two of which share a
  posting; all six slips; two disturbances (crashes, moves, jobs that stay in the queue
  without need): one to lose a record, one to put the job back. Wrong reports and
  exceptions are not counted.
* `inbox_mail`: two messages of one job is the least an order needs, two jobs so that two
  runs can disagree about whose a message is, two syncs, two messages a run.
* `intake`: an agency source, a job board that lists one posting twice under two
  spellings, and an employer's own board with a posting the agency also has; two runs,
  overlapping or not; two boards for one employer, one of which belongs to somebody
  else; one change of the world or crash; an answer that stands for one tick, and one
  tick. `ResolveEmployer` and the default of not applying through agency pages.
* `services`: two processes of each kind (three callers of the gate: two within a width of
  two and one waiting), one kill of a migration; two processes at the vault (proxies or
  commands, any of which may die), one edit by the human, two passwords, two sites, both
  backends; four versions of the answers; four rows on file, from a set that has two
  spellings of one employer, every country, dead links and both kinds of rejection; picks
  of two with two slots to an employer, so that what was submitted and what the batch
  holds each bind; two semaphores; two enrichments; two workers on one job and two marks
  of a human, and one answer of the model for each way to be accepted or refused, with its
  own summary or the base's. A behaviour moves one part only: they share no state, so
  nothing is lost. Symmetric are the workers and the vault's processes.
* `board`: two jobs, two writers of any kind, three writes, which is what two stale
  writers and the pipeline need around one reading. `automation`: one market, two roles at
  one employer, and a role at another that is one of them posted again; limits of one and
  two, so that each is reached; an overshoot of one; one disturbance, which is a kill of
  the consumer, a round of the cycle or a run started by hand: each of them alone brings a
  second party into the loop. For several countries and rounds the safety properties are
  theorems, and `CoveredAreAttempted` is not checked. `automation_stuck`: three jobs in
  one market, a daily cap of one and a full queue of two.
* Each bound is a named constant (`MaxEvents`, `MaxElsewhere`, `MaxSignals`,
  `MaxUnbooked`, `MaxDisturbances`, `MaxNow`, `MaxBatch`, `MaxHuman`, `MaxRuns`,
  `MaxChanges`, `MaxKills`, `MaxPasswords`, `MaxEdits`, `MaxSpawned`, `MaxVersion`,
  `PoolSize`, `MaxGates`, `MaxCalls`, `MaxRounds`, `MaxMarks`, `MaxWrites`) and a guard.
* Runs do not check for deadlock: a drive returns, a queue is empty, a bounded history
  is full. Where stopping would be wrong, a liveness property says so (`DriveEnds`,
  `QueueDrains`, `CoveredAreAttempted`).

### Fairness

`PreparePool!FairSpec`: weak fairness of each thread and of the main thread (the operating
system schedules them; an LLM call returns or times out after 300 s) and of the end of a
pause (a deadline). Signals and other processes are free to do nothing.
`ApplyStage!FairSpec`: weak fairness of a run's steps (the agent is killed at its
timeout), of starting the next run (`scripts/apply_consumer.sh` and the cycles do) and of
the clock. Nothing is assumed of crashes, humans or the agent's verdicts.
`Automation!Spec`: weak fairness of the producer's round, of a cycle's, of apply runs, of
the watchdog (a loop of its own that starts what has died) and of the passing of a day;
strong fairness of the consumer's poll, because it polls every half minute and the phases
of a round in which no drive is at work last longer, so a poll meets one of them again and
again although none lasts. Kills, new cycles and runs by hand are free not to happen.

## 4. Proofs

Eight modules hold theorems; each rests on the named assumptions about the constants of
the module it is about, and on nothing else. Nothing in them reaches a RECURSIVE operator.
Every safety property that a passing run checks is the statement of a theorem here.

`StageCommit_proofs`, for all jobs, workers, writers and bounds:

1. `TypeCorrect`: `TypeOK`. By itself inductive.
2. `HistoryContinues`: `StageEventsContinueHistory`. Not inductive alone: a plain
   writer must be known to change the status it saw (otherwise it moves the status
   with no event) and every job to have its insertion event. `HistoryInv` adds both;
   `RecordKeepsHistory` is the one lemma about appending an event.
3. `ImplementsLifecycle`: the refinement. A successful `CommitIfStatus` is a
   `StageMove`, because the comparison and the write are one step; this needs
   `VerdictInv` (a pending verdict is one its stage can return, or `failed` where the
   runner marks). A `PlainCommit` is an `Override`; every other step stutters.
4. `NoDoubleAdvance`: `AdvancedOnce`. Stages move a job forward in `Rank`, so while
   only stages write, every status left ranks below the present one: `RisingHistory`.
5. `StatusCheckSuffices`: `StatusIsAVersion`. `InFlightVersion`: a stage under way has
   either the latest version of its job or, if only stages wrote since, the job ranks
   above what the stage expects. So the compare-and-set on a status, which looks open
   to a value coming back, is safe between stages; only a plain writer resetting a
   status can bring it back.

`PreparePool_proofs`, for any number of jobs and threads, any target, threshold,
list of stages and bounds:

1. `TypeCorrect`: `TypeOK`, with `Held` (which places have a job, a stage of the list, a
   verdict) to make it inductive: no thread looks up a stage beyond the list.
2. `PromptStop`: `StopIsPrompt`. Inductive: every way to `read` goes through a check of
   stop, and the step that sets it notes who is past the check.
3. `CompleteSummary`: `SummaryIsComplete`. `Books` adds what makes it true: a thread at
   work holds a running future no other thread holds, booked futures have finished, only
   a stopped drive cancels or skips, and when the main thread joins every future is
   booked or cancelled. `ThreadKinds` reduces the eleven steps of a thread to three: take
   a job, go on, leave it.
4. `LimitIsMet`: `LimitIsBounded`. `LimitInv`: the calls limited in a row by the code's
   count and the threads that are past the gate with an LLM stage, which may each meet the
   limit once more, are together at most the threshold and the other threads: a thread
   passes the gate only while nobody has given up, and moves from the second count to the
   first. So the code's counter `consecutive` is bounded by itself; `streak`, what really
   happened, starts over from there each time a stage without a call resets the counter
   (`spared`).
5. `BoundedOvershoot`: `OvershootIsBounded`. `OvershootInv` divides the covered jobs into
   those the main thread has counted, those reported and not counted yet (never more than
   `MaxUnbooked`), and those whose threads have not returned.

`ApplyStage_proofs`, for any number of consumers and jobs, any caps, modes and any of the
things that may go wrong (`Slips`):

1. `TypeCorrect`: `TypeOK`. `ApplyInv` adds that a run counts each job once, so that its
   counters are bounded by the jobs; `Positions` (what ranks the elements of a finite
   set by how many are before them is a bijection to 1..n) shows that the ordered queue
   is a sequence of the chosen jobs, each of them once.
2. `RecordedOrPending`: `SendsAreRecorded`. `HistoryInv`: the submission a run has in hand
   is of the job it is at, the way it is going and the report it has. Of a submission that
   is not reported as applied nothing is claimed, because the code learns nothing of it.
3. `NotSentTwice`: `SentAgainOnlyIfLost`. `RowsInv`: what is marked as recorded is in the
   rows, no earlier than it was sent, and as a status the checks look for. `DedupInv`:
   with one run, a job that has passed its checks is no posting whose submission is
   recorded, because nobody submits between the check and the agent.
4. `CapsAreKept`: `CapsHold`, in two halves. `DailyCapIsKept`: the code counts rows, the
   property counts submissions. `LedgerInv` relates them by an injection: unless a process
   dies, every submission that is over has a row of its own, no older than itself.
   `DailyInv` bounds the submissions of the last 24 hours and the runs about to make
   another (`Going`) together; beyond the cap there is one for each run beside another.
   `CompanyCapsAreKept`: `CompanyInv` is the same for the roles at an employer, submitted
   or in flight, as sets, so that a role submitted twice counts once.

`StepKinds` reduces the steps to those that submit nothing and write no row (`Passing`,
`Waiting`), those that let a job pass (`Admit`, `Gate`), the agent's, and those that end a
job (`Closing`); each invariant is carried over these kinds instead of over every action.

`InboxSync_proofs`, for all jobs, messages, syncs, verdicts and bounds:

1. `TypeCorrect`: `TypeOK`, with `InHand` (a run about to write has a message and, if it
   moves a job, has read it) to make it inductive.
2. `OneMove`: `MovedOnce`. Inductive next to the types: a message without a row has moved
   nothing, because the row of a move names a job.
3. `OutcomesStand`: `OutcomeStands`. Not inductive alone, as a run may record "no change"
   decided on an older status. `StandInv` adds that the job can only have advanced
   since (`AdvancedFrom`), so "no change" is still right. `RecordStands` is the step
   that carries it: it looks at one transaction from one job.

`Intake_proofs`, for any number of overlapping runs, any sources, listings, boards and
companies, whatever comes, goes or cannot be reached meanwhile:

1. `TypeCorrect`: `TypeOK`. `TypesInv` adds where a run can be in its batch (`Placed`).
2. `CountsAreStored` and `NothingIsStoredTwice`: `CountedAreStored`, `NothingTwice`, from
   `StoreInv`. Who has inserted something holds the write lock, counts what it has
   inserted and stamps it (`Books`). What a run is about to insert it has looked for and
   not found; the look takes no lock, but if the run had inserted before, it held the lock
   from the look to the insert, and if it had not, the constraint decides (`Holds`).
3. `AppliableAlwaysKept`: `AppliableAreKept`. `LinkInv`: a listing with a usable link
   keeps it from the adapter to the rows, since only an item with the agency's page is
   relinked, and the agency's adapter gives a listing that page only for want of a usable
   link.
4. `RelinksAlwaysFresh`: `RelinksAreFresh`. `SeenInv`: what a board answered in a run is
   among the postings that were up during it, and nothing a resolver knows of postings
   outlives its run; the cache file keeps boards only.
5. `WhoIsUnlinkedWasAsked`: the action property `UnlinkedWereAsked`. `AskedInv`: behind a
   negative entry of a cache, in the file or in a run, every guessed board was asked on
   its day or later. The world's clock stands still while a run is under way, which is the
   model's way to say that runs are short against 30 days.

`Automation_proofs`, for any jobs, countries, limits and batches:

1. `TypeCorrect`: `TypeOK`.
2. `OneApply`: `OneApplyAtATime`. `Alone` adds why: a consumer about to start a run saw
   none, a consumer that is down is about to do nothing, and only a run of `cycle.sh` or
   of a human can come between the look and the start, which is then noted as careless.
   Killing a consumer forgets that it was about to start one.
3. `BoundedQueue`: `QueueIsBounded`. `Filling`: the covered jobs and the places the drives
   under way may still fill (`Full`) are together below `Limit`, which is the limit and a
   `Share` (target and overshoot of every country) for the producer's round and for each
   round of the cycle so far. A round of the producer opens its places only after it has
   counted, one of the cycle with the share it adds; an apply run only takes jobs away, a
   drive fills a place with each job it covers. It assumes a limit above zero and that the
   producer counts covered jobs, as both scripts do (`AutomationAssumption`), that a drive
   goes no further than `OVERSHOOT` (`BoundedOvershoot` is about that) and that nobody
   else covers jobs: no drive by hand, no mark.

`JobBoard_proofs`:

1. `PanelsAlwaysAgree`: `PanelsAgree`. `BoardInv`: a job that was not imported has its
   status in its history, whatever a writer had loaded, because a writer that finds the
   status it wants records nothing and changes nothing.
2. `FunnelAlwaysNarrows`: `FunnelNarrows`. `Bars`: a bar that has been read lies within
   the jobs it should show now, give or take those touched since the reading began; then
   each bar's jobs being among those of the bar before gives the property.

`Services_proofs`, about the parts that share no state:

1. `GateIsHeld`: `GateHolds`. `GateInv` bounds the holders of every semaphore made, not
   only of the one in use, since a replaced one is still released by its holders; and
   says that before a replacement under its users all of them use the last.
2. `OneStageAtATime`: `OneAtATime`. `RunInv`: a request past the look is the one in the
   lock, only the process started last can be alive, and none is when one is about to
   start.
3. `VaultIsKept`: `VaultHolds`. `VaultInv` adds what each process relies on where it is
   (`Relies`): the names it has read, which it will write back, still have passwords; what
   it has loaded of the file still is what is in it but for its own change; past the store
   there is a password. Two processes in the middle of `ensure_password` for one site, or
   between loading and writing the file, have excused their sites, and a file that is
   emptied has a process that is about to write it, or every site is excused: these are
   the ways to lose a password.
4. `AnswersAreFresh`: `CurrentIsFresh`. `AnswersInv`: nobody is ahead of the archive, and
   between parses that neither overlapped nor raised what is kept is at least as new as the
   signature, which is written before the files are read.
5. `OpenedIsComplete`: `OpenIsComplete`, for any number of processes killed anywhere.
   `MigrationsInv`: what the version row says is there, is there; so is what a process
   that adopts a database takes for granted, and what one that migrates it has created or
   passed; a database Alembic has not seen is empty, or has the whole baseline.
6. `OpensAlwaysAgain`: `OpensAgain`. `Reopens`: undisturbed, a database is either not yet
   adopted, or at one revision with the first statements of the next, and then exactly one
   process is going on with them (`Clean`); whoever else tries one finds the object there
   and ends. The objects of the migrations are numbered to tell them apart.
7. `EmployersAreAlwaysSpared`: `EmployersAreSpared`, over any backlog. `Ranking` is a
   strict order (`RanksDiffer`), so the first n of a set are at most n (`TopIsBounded`),
   and no pick has more jobs of a name than it had slots left; `FilterLive` only takes
   jobs away.
8. `FilesAreChecked`: `FilesWereChecked`. `MaterialsInv` says of each worker what it holds
   at each place (`Held`): what is about to be rendered was accepted. That is enough for
   the facts of the résumé and the claims of the letter, whoever wrote them last. That a
   letter stays as it was passed needs more: nobody is in the stage that the job is past
   unless two workers were in it at once, or a human's mark moved the job past it
   (`vouched`). `AttestedIsRendered`, `KeptIsRendered`, has the same invariant.
9. `CascadeLosesNothing`: `NothingIsLost` of Enrich, inductive next to the types.

Types are proved for every module that theorems are about. StageCommit, PreparePool,
ApplyStage, InboxSync and Intake have them checked by a run too; `GateTypeCorrect`,
`RunTypeCorrect`, `VaultTypeCorrect`, `AnswersTypeCorrect`, `MigrationsTypeCorrect`,
`MaterialsTypeCorrect`, `EnrichTypeCorrect`, `BoardTypeCorrect` and Automation's
`TypeCorrect` are proved and not run.

Model-checked and not proved: liveness, that is `DriveEnds`, `QueueDrains` and
`CoveredAreAttempted`. They need fairness and ENABLED, which are out of the prover's reach.
What BoardResolver's operators promise is proved only as far as Intake's theorems use it;
`BestMatches`, the choice among several matching postings, is run and not specified apart.

## 5. What does not hold

Two are recorded under `findings`, each with a run:

* Archived jobs are in the pipeline (`board_archived`): no query of a stage looks at
  `archived_at`, although `dashboard/api.py:308-309` says they are out of it entirely.
* `de_producer.sh` counts dry runs as queue, `apply_consumer.sh` does not
  (`automation_stuck`): when the daily cap turns the rest of a run into dry runs, the
  producer pauses for the consumer, which has nothing to start for.

The rest were met while modelling. Most are in the models as steps that the properties
make an exception for, and the exception is the shortest statement of them.

* Stages: `run_enrich` writes without compare-and-set (`stages/enrich.py:419`). A human
  who moves a job away and back during a stage's LLM call is not noticed; JobLifecycle
  allows it.
* Pool: a stage that made no call resets the give-up streak (`stages/prepare.py:210-213`):
  one that skips its job, because the job was past it from the start or another process
  moved it, and a tailoring or a letter that goes to a human for want of a base résumé
  that fits (`stages/tailor.py:314-331`). The streak is to end when "a call succeeded"
  (`stages/_workers.py:99`). So a persistent limit may be met many times before it ends a
  drive; `LimitIsBounded` multiplies by these resets. The first signal after the target is
  taken for the second (`stages/prepare.py:289`).
* Apply: a queue no longer than the canary is validated again and again and never sent
  (`stages/apply.py:485`); the queue is as old as the run (`stages/apply.py:519`), and
  `_persist` assigns a status over a human's (`stages/apply.py:429`); the canary counts
  jobs, not submissions (`stages/apply.py:542`), although `scripts/cycle.sh:8` says
  submissions; with the daily cap reached jobs still go to the agent as dry runs, and a
  dry run can end in a submission (`stages/apply.py:393-407`), so `DailyCapHolds` is about
  what was not told to stop. What the agent sent and did not report as applied is on no
  record, and no cap or dedup sees it: its RESULT block is missing or garbled
  (`stages/apply.py:203-212`), left in the reader thread when `t.join(5)` gives up
  (`stages/apply.py:281`), cut off by the timeout (`:247`, `:278`), or says something
  else. Such a posting may be sent again.
* Inbox: the sync writes over a verdict a human gives between its read and its flush
  (`email/sync.py:265`).
* Discovery: an agency listing that was relinked is known by its number in the next
  run and left alone (`stages/arbeitsagentur.py:189`); under its agency page, which is not
  on file, it is then stored as a new job.
  An outage at a probe is kept as "no board" for 30 days, and a confirmed board is not
  asked about again. The cache file is written as a whole, last writer wins. A violated
  constraint discards what the batch had flushed (`stages/discover.py:243-245`); the look
  before it is what keeps that from happening in a run by itself.
* Enrich: a usage limit in the LLM tier counts as an empty answer, and the job is enriched
  with no description (`stages/enrich.py:253`, `:429`).
* Materials: the summary the model writes is rendered (`stages/tailor.py:445-449`) and
  checked by nothing: `validate_selection` looks at facts only. With a base résumé that is
  not a master, the check is that all facts are mentioned; what was added to them is not
  seen (`ResumeWasChecked` is about masters). `strip_model_preamble` trims lines at both
  ends, so talk of the model in the middle stays (`stages/cover_letter.py:206-223`), and
  what looks for it is `verify_letters` alone. `cycle.sh:69`, `cycle_parallel.sh:65`,
  `german_established.sh:26`, `india_run.sh:40` and `de_eu_prepare.sh:52` run that;
  `overnight.sh:10` says it does and has no such step, and `apply_consumer.sh` applies
  without one. `verify_letters` routes an offender without looking whether its letter was
  written again. A human's mark moves a job past files that are not there, or of different
  versions.
* Migrations: a process killed between a CREATE and the version row, or two that adopt one
  database from before Alembic at once, leave a database that no later launch opens
  (the exceptions of `OpensAgain`).
* Vault: two proxies that create the first password of a site at once may sign up with one
  and keep the other (`vault.py:221`). The file backend loads the whole map, changes it
  and writes it whole, with no lock and in place (`vault.py:138-153`): of two overlapping
  changes, of any sites, one is lost, and a write that is cut off loses every password.
* Picks: a name of which nothing is left as a key is never blocked for its rejections
  (`scripts/pick_candidates.py:269-270`).
* Gate: widening it replaces the semaphore; those inside the old one come on top.
* Dashboard: a pump reads `self._proc` again to wait (`dashboard/api.py:406`) and may keep
  the return code of the next run; entries of an overlapped or failed parse stay until a
  file changes.
* Scripts: the two picks of a cycle each apply the cap per employer, so together they can
  take twice as many; postings that have gone use up slots before they are probed. The
  queue is counted before a round and not during it, drives go past their target, and
  `cycle.sh` adds to the queue without looking. A covered job whose posting was submitted
  under another id is passed over in every run (`stages/apply.py:645-647`) and stays
  covered: with nothing else to do the consumer goes on starting runs for it. The
  consumer's count of the day has what was applied (`apply_consumer.sh:30`), the apply
  stage's every real attempt (`stages/apply.py:783-788`), so runs may go on as dry runs
  only.
* Work authorisation: the country is taken from the last segment of a location
  (`work_authorization.py:139`).

## 6. Not modelled

Text and its conversions (prompts, parsing of feeds and of model answers, keyword rules,
the words validators look for, rendering): no state that steps of two actors can
interleave on. Read-only commands and lists, webhooks, the mail source, the simulator,
loading and validating configuration. `PROJECT.json` names every such component.

Left out inside the modelled parts: `run_pool`, which is a drive of one stage without a
target; the seconds between two submissions on a domain and their jitter
(`stages/apply.py:808`), which no other check depends on; the order in which employers
alternate in a queue (`stages/apply.py:562`); columns other than the status, rows of mode
`dry_run` (no check reads them), the four guards of the agent one by one (they all end in
`needs_human`); the one-country variants of the shell loops, which run the same steps in
other orders; how the key of the encrypted store is found or made (`vault.py:156-169`).

## 7. Plan

1. **Two apply runs.** The caps are proved up to `Overlap`; ApplyStage run with two
   consumers in `Consumers` would show that the bound is met, and JobLifecycle could be
   refined by the apply stage and the inbox sync as it is by the prepare stages.
2. **Abstract specifications** for the vault (one store, one step) and for the dashboard's
   runner (start, stop, ended), and the refinements.
3. **Pure operators**: `_interleave_by_company`, the spacing of submissions, the scoring
   rules, against reference definitions on bounded inputs.
4. Liveness stays with TLC; what can be proved of it are the safety facts it rests on
   (that `Room` of a drive shrinks, that a queue position never grows).
