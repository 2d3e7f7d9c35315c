------------------------------ MODULE Automation ------------------------------
(***************************************************************************)
(* The unattended loops of scripts/: a producer that discovers, picks      *)
(* candidates for each country and drives them to covered (overnight.sh,   *)
(* de_producer.sh, pick_candidates.py, batch_drive.py), a consumer that    *)
(* starts an apply run when the queue is worth one (apply_consumer.sh),    *)
(* the watchdog that restarts it (goal_watchdog.sh), a scheduled cycle     *)
(* that drives jobs itself and applies at its end (cycle.sh), and the      *)
(* apply runs a human starts, from the shell or on the dashboard.          *)
(*                                                                         *)
(* They meet in the database and in the process table only.  The inside of *)
(* a drive is PreparePool's, that of an apply run ApplyStage's: here a job *)
(* ends in a status that they may leave it in.                             *)
(***************************************************************************)
EXTENDS Naturals, FiniteSets

CONSTANTS Jobs,
          Employer,     \* Employer[j]
          Posting,      \* Posting[j]: its url_hash
          Markets,      \* Markets[j]: the countries the location of j matches
          COUNTRIES,    \* the countries that are prepared, one drive each
          Counted,      \* the statuses the producer's covered_count counts
          PICK_LIMIT,   \* --limit
          TARGET,       \* --target of a drive
          OVERSHOOT,    \* what a drive may cover beyond it: PreparePool's bound for it
          MAX_QUEUE, MIN_BATCH,
          FirstN,       \* canaries of an apply run
          DailyCap,     \* effective_daily_cap
          CompanyDaily, \* the apply stage's limit for one employer in a day
          MaxDisturbances \* bound: kills of the consumer, runs started by hand and
                        \* rounds of cycle.sh, together

ASSUME AutomationAssumption ==
    /\ IsFiniteSet(Jobs) /\ IsFiniteSet(COUNTRIES)
    /\ {PICK_LIMIT, TARGET, OVERSHOOT, MAX_QUEUE, MIN_BATCH, FirstN, DailyCap, CompanyDaily,
        MaxDisturbances} \subseteq Nat
    /\ MAX_QUEUE > 0 /\ "covered" \in Counted

VARIABLES status,    \* where each job is: "new" before it is on file, "open" in any
                     \* status before covered, "out" in any it stays in for good
          submitted, \* the jobs that were really submitted, ever
          sent,      \* those of the last 24 hours, which the consumer counts
          real,      \* the attempts of the last 24 hours that were real, whatever came
                     \* of them, which the apply stage counts
          producer,  \* where the producer's round is
          cycle,     \* where the cycle's is
          drive,     \* drive[d]: the pick and the drive of one of them for a country
          consumer,  \* the consumer: whether it runs, and where
          run,       \* the apply runs there are, two at most
          disturbances, cycles,
          careless   \* history: a run was started beside another, not by the consumer

vars == <<status, submitted, sent, real, producer, cycle, drive, consumer, run, disturbances, cycles,
          careless>>
sentVars == <<submitted, sent, real>>
makers == <<producer, cycle, cycles, drive>>
applyVars == <<sentVars, consumer, run, disturbances, careless>>

Off == [on |-> FALSE, queue |-> {}, canaries |-> 0]
NoDrive == [at |-> "off", ids |-> {}, left |-> 0]

\* The drives that there may be at once.
Producers == {"producer"} \X COUNTRIES
Cycles == {"cycle"} \X COUNTRIES
Drives == Producers \union Cycles

\* For the canaries of a run that is a dry run altogether.
AllDry == FirstN + 1

Init ==
    /\ status = [j \in Jobs |-> "new"]
    /\ submitted = {} /\ sent = {} /\ real = 0
    /\ producer = "count" /\ cycle = "off"
    /\ drive = [d \in Drives |-> NoDrive]
    /\ consumer = [up |-> TRUE, at |-> "poll"]
    /\ run = [n \in 1..2 |-> Off]
    /\ disturbances = 0 /\ cycles = 0
    /\ careless = FALSE

In(statuses) == {j \in Jobs : status[j] \in statuses}
At(e, S) == {j \in S : Employer[j] = e}
Open == In({"open"})
Driving == \E d \in Drives : drive[d].at = "drive"
Applying == {n \in 1..2 : run[n].on}

\* discover and prefilter: some of the new postings are on file now.
NewOnFile ==
    \E S \in SUBSET In({"new"}) :
       status' = [j \in Jobs |-> IF j \in S THEN "open" ELSE status[j]]

\* The drives D are put at the point a.
Set(D, a) == [d \in Drives |-> IF d \in D THEN [NoDrive EXCEPT !.at = a] ELSE drive[d]]

-----------------------------------------------------------------------------
(* The producer *)

\* Mutated form of Count: the producer does not look at the queue.
Count_Blind ==
    /\ producer = "count"
    /\ producer' = "discover"
    /\ UNCHANGED <<status, cycle, cycles, drive, applyVars>>

\* covered_count: with a full queue the producer sleeps, and counts again.
Count ==
    /\ producer = "count" /\ Cardinality(In(Counted)) < MAX_QUEUE
    /\ producer' = "discover"
    /\ UNCHANGED <<status, cycle, cycles, drive, applyVars>>

Discover ==
    /\ producer = "discover" /\ NewOnFile
    /\ producer' = "prepare"
    /\ drive' = Set(Producers, "pick")
    /\ UNCHANGED <<cycle, cycles, applyVars>>

\* The pick, which PickCandidates has the rules of; nothing is driven if nothing was
\* picked.  The producer drives for its countries at once, the cycle for one after the
\* other.
Pick(d) ==
    /\ drive[d].at = "pick"
    /\ d \in Cycles => \A e \in Cycles : drive[e].at # "drive"
    /\ \E ids \in SUBSET {j \in Open : d[2] \in Markets[j]} :
          /\ Cardinality(ids) <= PICK_LIMIT
          /\ drive' = [drive EXCEPT ![d] =
                          IF ids = {} THEN [NoDrive EXCEPT !.at = "done"]
                          ELSE [at |-> "drive", ids |-> ids, left |-> TARGET + OVERSHOOT]]
    /\ UNCHANGED <<status, producer, cycle, cycles, applyVars>>

\* drive_jobs: a job is covered, drops out, or stays where it is; another drive
\* or a human may have taken it.
DriveJob(d) ==
    /\ drive[d].at = "drive" /\ drive[d].left > 0
    /\ \E j \in drive[d].ids :
          \E to \in IF j \in Open THEN {"covered", "out", status[j]} ELSE {status[j]} :
             LET covers == j \in Open /\ to = "covered" IN
             /\ status' = [status EXCEPT ![j] = to]
             /\ drive' = [drive EXCEPT ![d].ids = @ \ {j},
                                       ![d].left = IF covers THEN @ - 1 ELSE @]
    /\ UNCHANGED <<producer, cycle, cycles, applyVars>>

\* The drive is over: all its jobs done, or the target reached.  Then no job is started
\* any more, but those that threads are at come to an end first, and may be covered.
EndDrive(d) ==
    /\ drive[d].at = "drive" /\ (drive[d].ids = {} \/ drive[d].left <= OVERSHOOT)
    /\ drive' = [drive EXCEPT ![d] = [NoDrive EXCEPT !.at = "done"]]
    /\ UNCHANGED <<status, producer, cycle, cycles, applyVars>>

\* wait: all countries are done; the producer goes on to its next round.
EndRound ==
    /\ producer = "prepare" /\ \A d \in Producers : drive[d].at = "done"
    /\ drive' = Set(Producers, "off")
    /\ producer' = "count"
    /\ UNCHANGED <<status, cycle, cycles, applyVars>>

-----------------------------------------------------------------------------
(* The cycle.  It does not look at the queue. *)

StartCycle ==
    /\ cycle = "off" /\ cycles + disturbances < MaxDisturbances
    /\ cycles' = cycles + 1
    /\ NewOnFile
    /\ cycle' = "drive"
    /\ drive' = Set(Cycles, "pick")
    /\ UNCHANGED <<producer, applyVars>>

\* verify_letters: some of the covered jobs go to a human.
CycleVerifies ==
    /\ cycle = "drive" /\ \A d \in Cycles : drive[d].at = "done"
    /\ \E S \in SUBSET In({"covered"}) :
          status' = [j \in Jobs |-> IF j \in S THEN "out" ELSE status[j]]
    /\ cycle' = "apply"
    /\ drive' = Set(Cycles, "off")
    /\ UNCHANGED <<producer, cycles, applyVars>>

-----------------------------------------------------------------------------
(* The consumer, and the apply runs *)

\* Mutated form of WorthARun: a batch is always waited for.
WorthARun_BatchOnly == Cardinality(In({"covered"})) >= MIN_BATCH

\* A batch is there, or something is and no drive is at work on more.
WorthARun ==
    LET n == Cardinality(In({"covered"})) IN n >= MIN_BATCH \/ (n > 0 /\ ~Driving)

\* Mutated form of Poll: the consumer goes by the queue alone.
Poll_QueueOnly ==
    /\ consumer.up /\ consumer.at = "poll"
    /\ Cardinality(sent) < DailyCap
    /\ WorthARun
    /\ consumer' = [consumer EXCEPT !.at = "start"]
    /\ UNCHANGED <<status, sentVars, makers, run, disturbances, careless>>

\* One poll: no apply process, the day's cap not reached, and a queue worth it.
\* Otherwise the consumer sleeps.
Poll ==
    /\ consumer.up /\ consumer.at = "poll"
    /\ Applying = {}
    /\ Cardinality(sent) < DailyCap
    /\ WorthARun
    /\ consumer' = [consumer EXCEPT !.at = "start"]
    /\ UNCHANGED <<status, sentVars, makers, run, disturbances, careless>>

\* run_apply: the covered and the dry-run jobs are its queue.
Starts(canaries) ==
    \E n \in 1..2 :
       /\ ~run[n].on /\ n = 2 => run[1].on
       /\ run' = [run EXCEPT ![n] = [on |-> TRUE, queue |-> In({"covered", "dry_run_completed"}),
                                     canaries |-> canaries]]

\* The consumer's run; it polls again when no apply process is left.
StartApply ==
    /\ consumer.up /\ consumer.at = "start"
    /\ Starts(FirstN)
    /\ consumer' = [consumer EXCEPT !.at = "poll"]
    /\ UNCHANGED <<status, sentVars, makers, disturbances, careless>>

\* A run that somebody else starts, whatever else runs.
Beside(canaries) ==
    /\ Starts(canaries)
    /\ careless' = (careless \/ Applying # {} \/ (consumer.up /\ consumer.at = "start"))
    /\ UNCHANGED <<status, sentVars, producer, cycles, drive, consumer>>

\* cycle.sh, step 6.
CycleApplies ==
    /\ cycle = "apply" /\ Beside(FirstN)
    /\ cycle' = "off"
    /\ UNCHANGED disturbances

\* honestapply apply, or the dashboard's button, which is a dry run.
HumanApplies ==
    /\ cycles + disturbances < MaxDisturbances
    /\ \E canaries \in {FirstN, AllDry} : Beside(canaries)
    /\ disturbances' = disturbances + 1
    /\ UNCHANGED cycle

\* The first jobs of a run are canaries, whatever comes of them.
CanariesLeft(n) == IF run[n].canaries \in {0, AllDry} THEN run[n].canaries
                                                 ELSE run[n].canaries - 1

\* The posting of the job was really submitted, under this job or another.
Duplicate(j) == \E k \in submitted : Posting[k] = Posting[j]

\* The apply run comes to a job.  One whose posting was submitted already, or whose
\* employer has had its day's share, stays as it is; a canary, or any job when the
\* day's cap is reached, gets no further than a dry run.  The agent may also give a
\* job up, in a real attempt as in a dry one.
ApplyJob(n) ==
    \E j \in run[n].queue :
       LET passed == Duplicate(j) \/ Cardinality(At(Employer[j], sent)) >= CompanyDaily
           dry == run[n].canaries > 0 \/ real >= DailyCap
       IN  /\ \E to \in IF passed THEN {status[j]}
                        ELSE {"out", IF dry THEN "dry_run_completed" ELSE "applied"} :
                 LET submits == ~passed /\ to = "applied" IN
                 /\ status' = [status EXCEPT ![j] = to]
                 /\ submitted' = IF submits THEN submitted \union {j} ELSE submitted
                 /\ sent' = IF submits THEN sent \union {j} ELSE sent
           /\ real' = IF passed \/ dry THEN real ELSE real + 1
           /\ run' = [run EXCEPT ![n].queue = @ \ {j}, ![n].canaries = CanariesLeft(n)]
           /\ UNCHANGED <<makers, consumer, disturbances, careless>>

EndApply(n) ==
    /\ run[n].on /\ run[n].queue = {}
    /\ run' = [run EXCEPT ![n] = Off]
    /\ UNCHANGED <<status, sentVars, makers, consumer, disturbances, careless>>

\* The consumer is killed; a run it started goes on.
KillConsumer ==
    /\ consumer.up /\ cycles + disturbances < MaxDisturbances
    /\ disturbances' = disturbances + 1
    /\ consumer' = [up |-> FALSE, at |-> "poll"]
    /\ UNCHANGED <<status, sentVars, makers, run, careless>>

\* goal_watchdog.sh: a consumer that is down is started.
Restart ==
    /\ ~consumer.up
    /\ consumer' = [consumer EXCEPT !.up = TRUE]
    /\ UNCHANGED <<status, sentVars, makers, run, disturbances, careless>>

-----------------------------------------------------------------------------
\* 24 hours pass.
Tomorrow ==
    /\ real # 0
    /\ sent' = {} /\ real' = 0
    /\ UNCHANGED <<status, submitted, makers, consumer, run, disturbances, careless>>

Produce ==
    \/ Count \/ Discover \/ EndRound
    \/ \E d \in Producers : Pick(d) \/ DriveJob(d) \/ EndDrive(d)

Cycle ==
    \/ CycleVerifies \/ CycleApplies
    \/ \E d \in Cycles : Pick(d) \/ DriveJob(d) \/ EndDrive(d)

Apply == StartApply \/ \E n \in 1..2 : ApplyJob(n) \/ EndApply(n)

Next ==
    \/ Produce \/ StartCycle \/ Cycle \/ Poll \/ Apply \/ HumanApplies
    \/ KillConsumer \/ Restart \/ Tomorrow

\* The loops go on and time passes.  The consumer polls every half minute, the
\* phases of a round without a drive are longer: a poll meets them again and again.
Spec == /\ Init /\ [][Next]_vars
        /\ WF_vars(Produce) /\ WF_vars(Cycle) /\ WF_vars(Apply)
        /\ WF_vars(Restart) /\ WF_vars(Tomorrow)
        /\ SF_vars(Poll)

-----------------------------------------------------------------------------
TypeOK ==
    /\ status \in [Jobs -> {"new", "open", "covered", "out", "dry_run_completed", "applied"}]
    /\ submitted \subseteq Jobs /\ sent \subseteq submitted /\ real \in Nat
    /\ producer \in {"count", "discover", "prepare"}
    /\ cycle \in {"off", "drive", "apply"}
    /\ drive \in [Drives -> [at : {"off", "pick", "drive", "done"}, ids : SUBSET Jobs,
                             left : 0..(TARGET + OVERSHOOT)]]
    /\ consumer \in [up : BOOLEAN, at : {"poll", "start"}]
    /\ run \in [1..2 -> [on : BOOLEAN, queue : SUBSET Jobs, canaries : 0..AllDry]]
    /\ disturbances \in 0..MaxDisturbances /\ cycles \in 0..MaxDisturbances
    /\ careless \in BOOLEAN

\* apply_consumer.sh:11: one apply process runs at a time, although consumers are
\* killed and restarted under their runs, unless cycle.sh or a human starts one beside it.
OneApplyAtATime == careless \/ Cardinality(Applying) <= 1

\* overnight.sh:40: the producer does not run the queue away from the consumer.  It
\* looks once a round, before the drives, so what they add comes on top, the jobs that
\* were under way when the target was reached included; and each round of cycle.sh,
\* which does not look, may add as much.
QueueIsBounded ==
    Cardinality(In({"covered"}))
        < MAX_QUEUE + Cardinality(COUNTRIES) * (TARGET + OVERSHOOT) * (1 + cycles)

\* A job that is covered is attempted in the end, if not on the same day, unless its
\* posting is submitted under another job: then it stays where it is for good.
CoveredAreAttempted ==
    \A j \in Jobs : status[j] = "covered" ~> status[j] # "covered" \/ Duplicate(j)

\* de_producer.sh:19: a producer that pauses for the consumer goes on again.
PauseEnds == []<>(Cardinality(In(Counted)) < MAX_QUEUE)
=============================================================================
