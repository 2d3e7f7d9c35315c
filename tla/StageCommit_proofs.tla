-------------------------- MODULE StageCommit_proofs -------------------------
(***************************************************************************)
(* Proofs about StageCommit, for any jobs, workers, writers and bound.     *)
(***************************************************************************)
EXTENDS StageCommit, TLAPS

\* Facts about the tables that every proof below uses.
LEMMA TableFacts ==
    /\ \A s \in STAGE_NAMES :
          Expects[s] \in ALL /\ Verdicts[s] \subseteq ALL
    /\ "failed" \in ALL /\ "discovered" \in ALL /\ "none" \notin ALL
    /\ \A k \in PLAIN_KINDS : PlainWrites[k].to \subseteq ALL
BY DEF STAGE_NAMES, Expects, Verdicts, ALL, PIPELINE, POST_APPLY, PLAIN_KINDS,
       PlainWrites, Writes, MarkWrites, DashboardWrites, PrefilterWrites,
       RunEnrichWrites, RetireWrites, SkipGeoWrites, ManualAssistWrites,
       VerifyLettersWrites, DASHBOARD_SETTABLE,
       EnrichVerdicts, ScoreVerdicts, TailorVerdicts, CoverVerdicts

\* A busy worker holds a run, and a writer that is not idle holds a change.
LEMMA InFlight ==
    ASSUME TypeOK
    PROVE  /\ \A w \in Workers : Busy(w) => worker[w] \in Runs
           /\ \A p \in Writers : writer[p] # Idle => writer[p] \in Changes
BY DEF TypeOK, Busy, Idle

\* Recording a transition keeps the database columns typed.
LEMMA RecordTyped ==
    ASSUME NEW j \in Jobs, NEW from \in ALL, NEW to \in ALL,
           NEW by \in {"stage", "plain"},
           status \in [Jobs -> ALL], events \in [Jobs -> Seq(EventSet)],
           Record(j, from, to, by)
    PROVE  status' \in [Jobs -> ALL] /\ events' \in [Jobs -> Seq(EventSet)]
<1>1. Transition(from, to, by) \in EventSet
  BY DEF Transition, EventSet
<1> QED
  BY <1>1 DEF Record

\* Every status, history row and in-flight record is of its declared type:
\* stages and commands never write a status outside Status.ALL.
THEOREM TypeCorrect == Spec => []TypeOK
<1>1. Init => TypeOK
  BY TableFacts DEF Init, TypeOK, Transition, EventSet
<1>2. TypeOK /\ [Next]_vars => TypeOK'
  <2> SUFFICES ASSUME TypeOK, [Next]_vars PROVE TypeOK'
    OBVIOUS
  <2> USE TableFacts DEF TypeOK
  <2>1. ASSUME NEW w \in Workers, NEW j \in Jobs, NEW s \in STAGE_NAMES, ReadJob(w, j, s)
        PROVE  TypeOK'
    <3>1. PICK mf \in BOOLEAN :
             worker' = [worker EXCEPT ![w] =
                           [on |-> "stage", job |-> j, stage |-> s, mark_failed |-> mf,
                            verdict |-> "none", basis |-> Len(events[j])]]
      BY <2>1 DEF ReadJob
    <3>2. Len(events[j]) \in Nat
      OBVIOUS
    <3> QED
      BY <2>1, <3>1, <3>2 DEF ReadJob, Runs
  <2>2. ASSUME NEW w \in Workers, Work(w)
        PROVE  TypeOK'
    <3>1. worker[w] \in Runs
      BY <2>2, InFlight DEF Work
    <3>2. PICK v \in ALL : worker' = [worker EXCEPT ![w].verdict = v]
      BY <2>2, <3>1 DEF Work, Runs
    <3>3. [worker[w] EXCEPT !.verdict = v] \in Runs
      BY <3>1, <3>2 DEF Runs
    <3> QED
      BY <2>2, <3>2, <3>3 DEF Work
  <2>3. ASSUME NEW w \in Workers, WorkRaises(w)
        PROVE  TypeOK'
    <3>1. worker[w] \in Runs
      BY <2>3, InFlight DEF WorkRaises
    <3>2. [worker[w] EXCEPT !.verdict = "failed"] \in Runs
      BY <3>1 DEF Runs
    <3> QED
      BY <2>3, <3>2 DEF WorkRaises
  <2>4. ASSUME NEW w \in Workers, Abandon(w)
        PROVE  TypeOK'
    BY <2>4 DEF Abandon
  <2>5. ASSUME NEW w \in Workers, CommitIfStatus(w)
        PROVE  TypeOK'
    <3> DEFINE r == worker[w]
    <3>1. r \in Runs
      BY <2>5, InFlight DEF CommitIfStatus
    <3>2. r.job \in Jobs /\ Expects[r.stage] \in ALL
      BY <3>1 DEF Runs
    <3>3. r.verdict # "none" => r.verdict \in ALL
      BY <3>1 DEF Runs
    <3>4. status' \in [Jobs -> ALL] /\ events' \in [Jobs -> Seq(EventSet)]
      BY <2>5, <3>2, <3>3, RecordTyped DEF CommitIfStatus
    <3>5. worker' = [worker EXCEPT ![w] = Idle] /\ UNCHANGED writer
      BY <2>5 DEF CommitIfStatus
    <3> QED
      BY <3>4, <3>5
  <2>6. ASSUME NEW p \in Writers, NEW j \in Jobs, NEW k \in PlainKinds, PlainLoad(p, j, k)
        PROVE  TypeOK'
    BY <2>6, StageCommitAssumption DEF PlainLoad, Changes
  <2>7. ASSUME NEW p \in Writers, PlainCommit(p)
        PROVE  TypeOK'
    <3> DEFINE c == writer[p]
    <3>1. c \in Changes
      BY <2>7, InFlight DEF PlainCommit
    <3>2. c.job \in Jobs /\ c.seen \in ALL /\ c.to \in ALL
      BY <3>1 DEF Changes
    <3>3. Record(c.job, c.seen, c.to, "plain")
      BY <2>7 DEF PlainCommit
    <3>4. status' \in [Jobs -> ALL] /\ events' \in [Jobs -> Seq(EventSet)]
      BY <3>2, <3>3, RecordTyped
    <3>5. writer' = [writer EXCEPT ![p] = Idle] /\ UNCHANGED worker
      BY <2>7 DEF PlainCommit
    <3> QED
      BY <3>4, <3>5
  <2>8. ASSUME NEW p \in Writers, PlainReplay(p)
        PROVE  TypeOK'
    <3>1. writer[p] \in Changes
      BY <2>8, InFlight DEF PlainReplay
    <3>2. [writer[p] EXCEPT !.seen = status[writer[p].job]] \in Changes
      BY <3>1 DEF Changes
    <3> QED
      BY <2>8, <3>2 DEF PlainReplay
  <2>9. ASSUME NEW p \in Writers, PlainAbandon(p)
        PROVE  TypeOK'
    BY <2>9 DEF PlainAbandon
  <2>10. CASE UNCHANGED vars
    BY <2>10 DEF vars
  <2> QED
    BY <2>1, <2>2, <2>3, <2>4, <2>5, <2>6, <2>7, <2>8, <2>9, <2>10
       DEF Next, WorkerStep, WriterStep
<1> QED
  BY <1>1, <1>2, PTL DEF Spec

\* A stage under way has a verdict of its own work, or failed if it may mark.
VerdictInv ==
    \A w \in Workers : Busy(w) =>
        /\ worker[w].mark_failed => worker[w].stage \in MarkingStages
        /\ worker[w].verdict # "none" =>
              \/ worker[w].verdict \in Verdicts[worker[w].stage]
              \/ worker[w].verdict = "failed" /\ worker[w].mark_failed

LEMMA VerdictInvHolds == Spec => []VerdictInv
<1>1. Init => VerdictInv
  BY DEF Init, VerdictInv, Busy, Idle
<1>2. TypeOK /\ VerdictInv /\ [Next]_vars => VerdictInv'
  <2> SUFFICES ASSUME TypeOK, VerdictInv, [Next]_vars,
                      NEW u \in Workers, Busy(u)'
               PROVE  /\ worker'[u].mark_failed => worker'[u].stage \in MarkingStages
                      /\ worker'[u].verdict # "none" =>
                            \/ worker'[u].verdict \in Verdicts[worker'[u].stage]
                            \/ worker'[u].verdict = "failed" /\ worker'[u].mark_failed
    BY DEF VerdictInv
  <2>1. CASE worker'[u] = worker[u]
    BY <2>1 DEF VerdictInv, Busy
  <2>2. ASSUME NEW j \in Jobs, NEW s \in STAGE_NAMES, ReadJob(u, j, s)
        PROVE  /\ worker'[u].verdict = "none"
               /\ worker'[u].mark_failed => worker'[u].stage \in MarkingStages
    BY <2>2 DEF ReadJob, TypeOK
  <2>3. ASSUME Work(u)
        PROVE  /\ worker'[u].verdict \in Verdicts[worker'[u].stage]
               /\ worker'[u].mark_failed => worker'[u].stage \in MarkingStages
    <3>1. worker[u] \in Runs
      BY <2>3, InFlight DEF Work
    <3> QED
      BY <2>3, <3>1 DEF Work, VerdictInv, TypeOK, Runs
  <2>4. ASSUME WorkRaises(u)
        PROVE  /\ worker'[u].verdict = "failed" /\ worker'[u].mark_failed
               /\ worker'[u].mark_failed => worker'[u].stage \in MarkingStages
    <3>1. worker[u] \in Runs
      BY <2>4, InFlight DEF WorkRaises
    <3> QED
      BY <2>4, <3>1 DEF WorkRaises, VerdictInv, TypeOK, Runs
  <2>5. ASSUME Abandon(u) \/ CommitIfStatus(u)
        PROVE  FALSE
    BY <2>5 DEF Abandon, CommitIfStatus, TypeOK, Busy, Idle
  <2>6. ASSUME NEW w \in Workers, WorkerStep(w), w # u
        PROVE  worker'[u] = worker[u]
    BY <2>6 DEF WorkerStep, ReadJob, Work, WorkRaises, Abandon, CommitIfStatus, TypeOK
  <2>7. ASSUME NEW p \in Writers, WriterStep(p)
        PROVE  worker'[u] = worker[u]
    BY <2>7 DEF WriterStep, PlainLoad, PlainCommit, PlainReplay, PlainAbandon
  <2>8. CASE UNCHANGED vars
    BY <2>1, <2>8 DEF vars
  <2>9. CASE WorkerStep(u)
    BY <2>2, <2>3, <2>4, <2>5, <2>9 DEF WorkerStep
  <2> QED
    BY <2>1, <2>6, <2>7, <2>8, <2>9 DEF Next
<1> QED
  BY <1>1, <1>2, TypeCorrect, PTL DEF Spec

-----------------------------------------------------------------------------
(***************************************************************************)
(* The history.                                                            *)
(***************************************************************************)

LEMMA AppendFacts ==
    ASSUME NEW S, NEW s \in Seq(S), NEW x \in S
    PROVE  /\ Len(Append(s, x)) = Len(s) + 1
           /\ \A i \in 1..Len(s) : Append(s, x)[i] = s[i]
           /\ Append(s, x)[Len(s) + 1] = x
OBVIOUS

\* What makes StageEventsContinueHistory inductive: a job has its insertion
\* event, and a writer under way really changes the status it saw.
HistoryInv ==
    /\ TypeOK
    /\ StageEventsContinueHistory
    /\ \A j \in Jobs : Len(events[j]) >= 1
    /\ \A p \in Writers : writer[p] # Idle => writer[p].seen # writer[p].to

\* One recorded transition keeps the history of its job well formed, provided
\* that a stage records it from the status the job has.
LEMMA RecordKeepsHistory ==
    ASSUME HistoryInv, NEW j \in Jobs, NEW from \in ALL, NEW to \in ALL,
           NEW by \in {"stage", "plain"}, Record(j, from, to, by),
           by = "stage" => status[j] = from,
           by = "plain" => from # to
    PROVE  /\ StageEventsContinueHistory'
           /\ \A k \in Jobs : Len(events'[k]) >= 1
<1> DEFINE e == Transition(from, to, by)
<1>1. /\ status \in [Jobs -> ALL] /\ events \in [Jobs -> Seq(EventSet)]
      /\ \A k \in Jobs : events[k] \in Seq(EventSet) /\ Len(events[k]) \in Nat
  BY DEF HistoryInv, TypeOK
<1>2. e \in EventSet
  BY DEF Transition, EventSet
<1>3. \A k \in Jobs : k # j => events'[k] = events[k] /\ status'[k] = status[k]
  BY <1>1 DEF Record
<1>4. status'[j] = to
  BY <1>1 DEF Record
<1>5. SUFFICES ASSUME NEW k \in Jobs
               PROVE  /\ Len(events'[k]) >= 1
                      /\ status'[k] = events'[k][Len(events'[k])].to
                      /\ \A i \in 2..Len(events'[k]) :
                            events'[k][i].by = "stage"
                                => events'[k][i].from = events'[k][i - 1].to
  BY DEF StageEventsContinueHistory
<1>6. CASE k # j
  BY <1>3, <1>6 DEF HistoryInv, StageEventsContinueHistory
<1>7. CASE k = j /\ from = to
  <2>1. by = "stage" /\ events'[j] = events[j] /\ status'[j] = status[j]
    BY <1>1, <1>4, <1>7 DEF Record
  <2> QED
    BY <2>1, <1>7 DEF HistoryInv, StageEventsContinueHistory
<1>8. CASE k = j /\ from # to
  <2> DEFINE n == Len(events[j])
  <2>1. events'[j] = Append(events[j], e)
    BY <1>1, <1>8 DEF Record
  <2>2. /\ Len(events'[j]) = n + 1
        /\ \A i \in 1..n : events'[j][i] = events[j][i]
        /\ events'[j][n + 1] = e
    BY <2>1, <1>1, <1>2, AppendFacts
  <2>3. n \in Nat /\ n >= 1 /\ status[j] = events[j][n].to
    BY <1>1 DEF HistoryInv, StageEventsContinueHistory
  <2>4. e.to = to /\ e.from = from /\ e.by = by
    BY DEF Transition
  <2>5. ASSUME NEW i \in 2..(n + 1), events'[j][i].by = "stage"
        PROVE  events'[j][i].from = events'[j][i - 1].to
    <3>1. CASE i = n + 1
      BY <2>2, <2>3, <2>4, <2>5, <3>1
    <3>2. CASE i \in 2..n
      BY <2>2, <2>3, <2>5, <3>2 DEF HistoryInv, StageEventsContinueHistory
    <3> QED
      BY <3>1, <3>2, <2>3
  <2> QED
    BY <1>8, <1>4, <2>2, <2>3, <2>4, <2>5
<1> QED
  BY <1>6, <1>7, <1>8

LEMMA HistoryInvInit == Init => HistoryInv
<1> SUFFICES ASSUME Init PROVE HistoryInv
  OBVIOUS
<1>1. TypeOK
  BY TableFacts DEF Init, TypeOK, Transition, EventSet
<1> QED
  BY <1>1 DEF Init, HistoryInv, StageEventsContinueHistory, Transition, Idle

LEMMA HistoryInvStep ==
    ASSUME HistoryInv, TypeOK', [Next]_vars
    PROVE  HistoryInv'
<1> USE DEF HistoryInv
<1>1. ASSUME NEW w \in Workers, NEW j \in Jobs, NEW s \in STAGE_NAMES, ReadJob(w, j, s)
      PROVE  HistoryInv'
  BY <1>1 DEF ReadJob, StageEventsContinueHistory
<1>2. ASSUME NEW w \in Workers, Work(w) \/ WorkRaises(w) \/ Abandon(w)
      PROVE  HistoryInv'
  BY <1>2 DEF Work, WorkRaises, Abandon, StageEventsContinueHistory
<1>3. ASSUME NEW w \in Workers, CommitIfStatus(w)
      PROVE  HistoryInv'
  <2> DEFINE r == worker[w]
  <2>1. r \in Runs /\ r.job \in Jobs /\ r.stage \in STAGE_NAMES
    BY <1>3, InFlight DEF CommitIfStatus, Runs
  <2>2. Expects[r.stage] \in ALL /\ (r.verdict # "none" => r.verdict \in ALL)
    BY <2>1, TableFacts DEF Runs
  <2>3. UNCHANGED writer
    BY <1>3 DEF CommitIfStatus
  <2>4. CASE /\ status[r.job] = Expects[r.stage]
             /\ Record(r.job, Expects[r.stage], r.verdict, "stage")
    <3>1. r.verdict \in ALL
      BY <1>3, <2>2 DEF CommitIfStatus
    <3> QED
      BY <2>1, <2>2, <2>3, <2>4, <3>1, RecordKeepsHistory
  <2>5. CASE UNCHANGED <<status, events>>
    BY <2>3, <2>5 DEF StageEventsContinueHistory
  <2> QED
    BY <1>3, <2>4, <2>5 DEF CommitIfStatus
<1>4. ASSUME NEW p \in Writers, NEW j \in Jobs, NEW k \in PlainKinds, PlainLoad(p, j, k)
      PROVE  HistoryInv'
  <2>1. PICK to : /\ to # status[j]
                  /\ writer' = [writer EXCEPT ![p] = [on |-> "change", job |-> j,
                                                      seen |-> status[j], to |-> to]]
    BY <1>4 DEF PlainLoad
  <2>2. \A q \in Writers : writer'[q] # Idle => writer'[q].seen # writer'[q].to
    BY <2>1 DEF TypeOK
  <2>3. UNCHANGED <<status, events>>
    BY <1>4 DEF PlainLoad
  <2> QED
    BY <2>2, <2>3 DEF StageEventsContinueHistory
<1>5. ASSUME NEW p \in Writers, PlainCommit(p)
      PROVE  HistoryInv'
  <2> DEFINE c == writer[p]
  <2>1. c \in Changes /\ c.job \in Jobs /\ c.seen \in ALL /\ c.to \in ALL
    BY <1>5, InFlight DEF PlainCommit, Changes
  <2>2. Record(c.job, c.seen, c.to, "plain") /\ c.seen # c.to
    BY <1>5 DEF PlainCommit
  <2>3. /\ StageEventsContinueHistory'
        /\ \A k \in Jobs : Len(events'[k]) >= 1
    BY <2>1, <2>2, RecordKeepsHistory
  <2>4. \A q \in Writers : writer'[q] # Idle => writer'[q].seen # writer'[q].to
    BY <1>5 DEF PlainCommit, TypeOK
  <2> QED
    BY <2>3, <2>4
<1>6. ASSUME NEW p \in Writers, PlainReplay(p)
      PROVE  HistoryInv'
  <2>1. writer[p] \in Changes
    BY <1>6, InFlight DEF PlainReplay
  <2>2. \A q \in Writers : writer'[q] # Idle => writer'[q].seen # writer'[q].to
    BY <1>6, <2>1 DEF PlainReplay, TypeOK, Changes
  <2> QED
    BY <1>6, <2>2 DEF PlainReplay, StageEventsContinueHistory
<1>7. ASSUME NEW p \in Writers, PlainAbandon(p)
      PROVE  HistoryInv'
  BY <1>7 DEF PlainAbandon, StageEventsContinueHistory, TypeOK
<1>8. CASE UNCHANGED vars
  BY <1>8 DEF vars, StageEventsContinueHistory
<1> QED
  BY <1>1, <1>2, <1>3, <1>4, <1>5, <1>6, <1>7, <1>8 DEF Next, WorkerStep, WriterStep

LEMMA HistoryInvHolds == Spec => []HistoryInv
<1> QED
  BY HistoryInvInit, HistoryInvStep, TypeCorrect, PTL DEF Spec

\* Whatever other commands write to a job while a stage's LLM call runs, a stage
\* only ever moves the job on from the status it has at the commit, and the
\* status column is where the recorded history ends.
THEOREM HistoryContinues == Spec => []StageEventsContinueHistory
<1>1. HistoryInv => StageEventsContinueHistory
  BY DEF HistoryInv
<1> QED
  BY <1>1, HistoryInvHolds, PTL

-----------------------------------------------------------------------------
(***************************************************************************)
(* Refinement: the database with its slow, unlocked stages implements      *)
(* JobLifecycle, whose stages are atomic.                                  *)
(***************************************************************************)

\* The commit of a stage is one abstract move, or writes nothing.
LEMMA CommitIsAMove ==
    ASSUME TypeOK, VerdictInv, NEW w \in Workers, CommitIfStatus(w)
    PROVE  (\E j \in Jobs : Lifecycle!StageMove(j)) \/ UNCHANGED <<status, events>>
<1> DEFINE r == worker[w]
           v == r.verdict
<1>1. r \in Runs /\ r.job \in Jobs /\ r.stage \in STAGE_NAMES
  BY InFlight DEF CommitIfStatus, Runs
<1>2. CASE UNCHANGED <<status, events>>
  BY <1>2
<1>3. CASE /\ status[r.job] = Expects[r.stage]
           /\ Record(r.job, Expects[r.stage], v, "stage")
  <2>1. CASE v = Expects[r.stage]
    <3>1. status \in [Jobs -> ALL] /\ events \in [Jobs -> Seq(EventSet)]
      BY DEF TypeOK
    <3> QED
      BY <1>1, <1>3, <2>1, <3>1 DEF Record
  <2>2. CASE v # Expects[r.stage]
    <3>1. v \in Verdicts[r.stage] \/ (v = "failed" /\ r.stage \in MarkingStages)
      BY DEF CommitIfStatus, VerdictInv
    <3>2. v \in ALL
      BY <1>1 DEF CommitIfStatus, Runs
    <3>3. Lifecycle!StageEdge(Expects[r.stage], v)
      BY <1>1, <2>2, <3>1
      DEF Lifecycle!StageEdge, Lifecycle!STAGE_NAMES, STAGE_NAMES,
          Lifecycle!Expects, Expects, Lifecycle!Verdicts, Verdicts,
          Lifecycle!EnrichVerdicts, EnrichVerdicts, Lifecycle!ScoreVerdicts, ScoreVerdicts,
          Lifecycle!TailorVerdicts, TailorVerdicts, Lifecycle!CoverVerdicts, CoverVerdicts,
          Lifecycle!MarkingStages, MarkingStages
    <3>4. events' = [events EXCEPT ![r.job] =
                        Append(@, Lifecycle!Transition(status[r.job], v, "stage"))]
      BY <1>3, <2>2 DEF Record, Transition, Lifecycle!Transition
    <3>5. status' = [status EXCEPT ![r.job] = v]
      BY <1>3 DEF Record
    <3> QED
      BY <1>1, <1>3, <3>2, <3>3, <3>4, <3>5
         DEF Lifecycle!StageMove, Lifecycle!ALL, Lifecycle!PIPELINE, Lifecycle!POST_APPLY,
             ALL, PIPELINE, POST_APPLY
  <2> QED
    BY <2>1, <2>2
<1> QED
  BY <1>2, <1>3 DEF CommitIfStatus

\* The commit of a plain writer is one override.
LEMMA PlainCommitIsAnOverride ==
    ASSUME HistoryInv, NEW p \in Writers, PlainCommit(p)
    PROVE  \E j \in Jobs : Lifecycle!Override(j)
<1> DEFINE c == writer[p]
<1>1. /\ c.job \in Jobs /\ c.seen \in ALL /\ c.to \in ALL /\ c.seen # c.to
      /\ Record(c.job, c.seen, c.to, "plain")
  <2>1. TypeOK
    BY DEF HistoryInv
  <2> QED
    BY <2>1, InFlight DEF PlainCommit, HistoryInv, Changes
<1>2. /\ status' = [status EXCEPT ![c.job] = c.to]
      /\ events' = [events EXCEPT ![c.job] =
                       Append(@, Lifecycle!Transition(c.seen, c.to, "plain"))]
  BY <1>1 DEF Record, Transition, Lifecycle!Transition
<1>3. Lifecycle!ALL = ALL
  BY DEF Lifecycle!ALL, Lifecycle!PIPELINE, Lifecycle!POST_APPLY, ALL, PIPELINE, POST_APPLY
<1>4. c.seen \in Lifecycle!ALL \ {c.to} /\ c.to \in Lifecycle!ALL /\ Writers # {}
  BY <1>1, <1>3
<1>5. Lifecycle!Override(c.job)
  BY <1>2, <1>4 DEF Lifecycle!Override
<1> QED
  BY <1>1, <1>5

LEMMA StepRefines ==
    ASSUME HistoryInv, VerdictInv, [Next]_vars
    PROVE  [Lifecycle!LifeNext]_<<status, events>>
<1>1. ASSUME NEW w \in Workers, CommitIfStatus(w)
      PROVE  [Lifecycle!LifeNext]_<<status, events>>
  BY <1>1, CommitIsAMove DEF HistoryInv, Lifecycle!LifeNext
<1>2. ASSUME NEW p \in Writers, PlainCommit(p)
      PROVE  [Lifecycle!LifeNext]_<<status, events>>
  BY <1>2, PlainCommitIsAnOverride DEF Lifecycle!LifeNext
<1>3. ASSUME NEW w \in Workers, WorkerStep(w), ~ CommitIfStatus(w)
      PROVE  UNCHANGED <<status, events>>
  BY <1>3 DEF WorkerStep, ReadJob, Work, WorkRaises, Abandon
<1>4. ASSUME NEW p \in Writers, WriterStep(p), ~ PlainCommit(p)
      PROVE  UNCHANGED <<status, events>>
  BY <1>4 DEF WriterStep, PlainLoad, PlainReplay, PlainAbandon
<1>5. CASE UNCHANGED vars
  BY <1>5 DEF vars
<1> QED
  BY <1>1, <1>2, <1>3, <1>4, <1>5 DEF Next

\* The compare-and-set makes every stage atomic: whatever runs next to it, the
\* database goes through the steps of JobLifecycle only.
THEOREM ImplementsLifecycle == Spec => LifecycleSpec
<1>1. Init => Lifecycle!LifeInit
  BY DEF Init, Lifecycle!LifeInit, Transition, Lifecycle!Transition
<1>2. HistoryInv /\ VerdictInv /\ [Next]_vars => [Lifecycle!LifeNext]_<<status, events>>
  BY StepRefines
<1> QED
  BY <1>1, <1>2, HistoryInvHolds, VerdictInvHolds, PTL
  DEF Spec, LifecycleSpec, Lifecycle!LifeSpec, Lifecycle!lifeVars

-----------------------------------------------------------------------------
(***************************************************************************)
(* Every stage moves a job forward in the pipeline, so between two writes  *)
(* of plain writers the status never comes back to an earlier value, and   *)
(* comparing it is as good as comparing a version number.                  *)
(***************************************************************************)

Rank(s) == CASE s = "none"       -> 0
             [] s = "discovered" -> 1
             [] s = "enriched"   -> 2
             [] s = "scored"     -> 3
             [] s = "tailored"   -> 4
             [] s = "covered"    -> 5
             [] OTHER            -> 6

LEMMA RankIsInt == \A s : Rank(s) \in 0..6
BY DEF Rank

LEMMA StagesMoveForward ==
    ASSUME NEW s \in STAGE_NAMES, NEW v,
           v \in Verdicts[s] \/ v = "failed", v # Expects[s]
    PROVE  Rank(Expects[s]) < Rank(v)
BY DEF STAGE_NAMES, Verdicts, EnrichVerdicts, ScoreVerdicts, TailorVerdicts,
       CoverVerdicts, Expects, Rank

\* No plain writer recorded the events i to k of a job.
StagesOnly(j, i, k) == \A m \in i..k : events[j][m].by # "plain"

\* Since the last plain write, every status a job has left ranks below the one
\* it has, in the order left.
RisingHistory ==
    \A j \in Jobs :
        /\ \A i \in 1..Len(events[j]) :
              StagesOnly(j, i, Len(events[j])) => Rank(events[j][i].from) < Rank(status[j])
        /\ \A i, k \in 1..Len(events[j]) :
              i < k /\ StagesOnly(j, i, k)
                 => Rank(events[j][i].from) < Rank(events[j][k].from)

\* A stage under way either read the job's latest version, and then the status
\* is what it expects, or only stages wrote the job since, and then it has moved
\* past that status.
InFlightVersion ==
    \A w \in Workers : Busy(w) =>
        LET r == worker[w] IN
        /\ r.basis <= Len(events[r.job])
        /\ r.basis = Len(events[r.job]) => status[r.job] = Expects[r.stage]
        /\ r.basis < Len(events[r.job]) /\ StagesOnly(r.job, r.basis + 1, Len(events[r.job]))
              => Rank(Expects[r.stage]) < Rank(status[r.job])

\* A write of a job's status together with its event: by a plain writer, or by a
\* stage that moves the job forward from where it is.
Written(j, to, e) ==
    /\ \/ e.by = "plain"
       \/ e.by = "stage" /\ e.from = status[j] /\ Rank(status[j]) < Rank(to)
    /\ status' = [status EXCEPT ![j] = to]
    /\ events' = [events EXCEPT ![j] = Append(@, e)]

\* A stage's commit appends one event to a later status, or changes nothing.
LEMMA CommitMovesForward ==
    ASSUME TypeOK, VerdictInv, NEW w \in Workers, CommitIfStatus(w)
    PROVE  \/ UNCHANGED <<status, events>>
           \/ \E j \in Jobs, to \in ALL, e \in EventSet : Written(j, to, e)
<1> DEFINE r == worker[w]
           v == r.verdict
<1>1. r \in Runs /\ r.job \in Jobs /\ r.stage \in STAGE_NAMES /\ v \in ALL
  BY InFlight DEF CommitIfStatus, Runs
<1>2. v \in Verdicts[r.stage] \/ v = "failed"
  BY DEF CommitIfStatus, VerdictInv
<1>3. CASE UNCHANGED <<status, events>>
  BY <1>3
<1>4. CASE /\ status[r.job] = Expects[r.stage]
           /\ Record(r.job, Expects[r.stage], v, "stage")
  <2>1. CASE v = Expects[r.stage]
    <3>1. status \in [Jobs -> ALL] /\ events \in [Jobs -> Seq(EventSet)]
      BY DEF TypeOK
    <3> QED
      BY <1>1, <1>4, <2>1, <3>1 DEF Record
  <2>2. CASE v # Expects[r.stage]
    <3> DEFINE e == Transition(status[r.job], v, "stage")
    <3>1. Rank(status[r.job]) < Rank(v)
      BY <1>1, <1>2, <1>4, <2>2, StagesMoveForward
    <3>2. /\ status' = [status EXCEPT ![r.job] = v]
          /\ events' = [events EXCEPT ![r.job] = Append(@, e)]
      BY <1>4, <2>2 DEF Record
    <3>3. e \in EventSet /\ e.by = "stage" /\ e.from = status[r.job]
      BY <1>1 DEF Transition, EventSet, TypeOK
    <3>4. Written(r.job, v, e)
      BY <3>1, <3>2, <3>3 DEF Written
    <3> QED
      BY <1>1, <3>3, <3>4
  <2> QED
    BY <2>1, <2>2
<1> QED
  BY <1>3, <1>4 DEF CommitIfStatus

\* What every step does to the two columns.
LEMMA ColumnsWrites ==
    ASSUME HistoryInv, VerdictInv, [Next]_vars
    PROVE  \/ UNCHANGED <<status, events>>
           \/ \E j \in Jobs, to \in ALL, e \in EventSet : Written(j, to, e)
<1>1. ASSUME NEW w \in Workers, CommitIfStatus(w)
      PROVE  \/ UNCHANGED <<status, events>>
             \/ \E j \in Jobs, to \in ALL, e \in EventSet : Written(j, to, e)
  BY <1>1, CommitMovesForward DEF HistoryInv
<1>2. ASSUME NEW p \in Writers, PlainCommit(p)
      PROVE  \E j \in Jobs, to \in ALL, e \in EventSet : Written(j, to, e)
  <2> DEFINE c == writer[p]
             e == Transition(c.seen, c.to, "plain")
  <2>1. /\ c.job \in Jobs /\ c.seen \in ALL /\ c.to \in ALL /\ c.seen # c.to
        /\ Record(c.job, c.seen, c.to, "plain")
    <3>1. TypeOK
      BY DEF HistoryInv
    <3> QED
      BY <1>2, <3>1, InFlight DEF PlainCommit, HistoryInv, Changes
  <2>2. /\ status' = [status EXCEPT ![c.job] = c.to]
        /\ events' = [events EXCEPT ![c.job] = Append(@, e)]
    BY <2>1 DEF Record
  <2>3. e \in EventSet /\ e.by = "plain"
    BY <2>1 DEF Transition, EventSet
  <2>4. Written(c.job, c.to, e)
    BY <2>2, <2>3 DEF Written
  <2> QED
    BY <2>1, <2>3, <2>4
<1>3. ASSUME NEW w \in Workers, WorkerStep(w), ~ CommitIfStatus(w)
      PROVE  UNCHANGED <<status, events>>
  BY <1>3 DEF WorkerStep, ReadJob, Work, WorkRaises, Abandon
<1>4. ASSUME NEW p \in Writers, WriterStep(p), ~ PlainCommit(p)
      PROVE  UNCHANGED <<status, events>>
  BY <1>4 DEF WriterStep, PlainLoad, PlainReplay, PlainAbandon
<1>5. CASE UNCHANGED vars
  BY <1>5 DEF vars
<1> QED
  BY <1>1, <1>2, <1>3, <1>4, <1>5 DEF Next

\* What such a write leaves of the job's history, and what it adds.
LEMMA WriteFacts ==
    ASSUME TypeOK, NEW j \in Jobs, NEW to \in ALL, NEW e \in EventSet, Written(j, to, e)
    PROVE  /\ events[j] \in Seq(EventSet) /\ Len(events[j]) \in Nat
           /\ Len(events'[j]) = Len(events[j]) + 1
           /\ \A i \in 1..Len(events[j]) : events'[j][i] = events[j][i]
           /\ events'[j][Len(events[j]) + 1] = e
           /\ status'[j] = to
           /\ \A k \in Jobs : k # j => events'[k] = events[k] /\ status'[k] = status[k]
<1>1. /\ status \in [Jobs -> ALL] /\ events \in [Jobs -> Seq(EventSet)]
      /\ events[j] \in Seq(EventSet) /\ Len(events[j]) \in Nat
  BY DEF TypeOK
<1>2. events'[j] = Append(events[j], e) /\ status'[j] = to
  BY <1>1 DEF Written
<1>3. \A k \in Jobs : k # j => events'[k] = events[k] /\ status'[k] = status[k]
  BY <1>1 DEF Written
<1> QED
  BY <1>1, <1>2, <1>3, AppendFacts

LEMMA RisingStep ==
    ASSUME HistoryInv, VerdictInv, RisingHistory, [Next]_vars
    PROVE  RisingHistory'
<1>1. CASE UNCHANGED <<status, events>>
  BY <1>1 DEF RisingHistory, StagesOnly
<1>2. ASSUME NEW j \in Jobs, NEW to \in ALL, NEW e \in EventSet, Written(j, to, e)
      PROVE  RisingHistory'
  <2> DEFINE n == Len(events[j])
  <2>1. /\ n \in Nat /\ Len(events'[j]) = n + 1
        /\ \A i \in 1..n : events'[j][i] = events[j][i]
        /\ events'[j][n + 1] = e /\ status'[j] = to
        /\ \A k \in Jobs : k # j => events'[k] = events[k] /\ status'[k] = status[k]
    BY <1>2, WriteFacts DEF HistoryInv
  <2>2. ASSUME NEW i \in 1..(n + 1), \A m \in i..(n + 1) : events'[j][m].by # "plain"
        PROVE  /\ Rank(events'[j][i].from) < Rank(to)
               /\ i < n + 1 => Rank(events'[j][i].from) < Rank(e.from)
    <3>1. e.by = "stage" /\ e.from = status[j] /\ Rank(status[j]) < Rank(to)
      BY <1>2, <2>1, <2>2 DEF StagesOnly, Written
    <3>2. CASE i = n + 1
      BY <2>1, <3>1, <3>2
    <3>3. CASE i \in 1..n
      <4>1. StagesOnly(j, i, n)
        BY <2>1, <2>2, <3>3 DEF StagesOnly
      <4>2. Rank(events[j][i].from) < Rank(status[j])
        BY <3>3, <4>1 DEF RisingHistory
      <4>3. events'[j][i].from = events[j][i].from
        BY <2>1, <3>3
      <4> QED
        BY <3>1, <4>2, <4>3, RankIsInt
    <3> QED
      BY <2>1, <3>2, <3>3
  <2>3. ASSUME NEW i \in 1..(n + 1), NEW k \in 1..(n + 1), i < k, StagesOnly(j, i, k)'
        PROVE  Rank(events'[j][i].from) < Rank(events'[j][k].from)
    <3>1. CASE k = n + 1
      BY <2>1, <2>2, <2>3, <3>1 DEF StagesOnly
    <3>2. CASE k \in 1..n
      <4>1. i \in 1..n /\ StagesOnly(j, i, k)
        BY <2>1, <2>3, <3>2 DEF StagesOnly
      <4> QED
        BY <2>1, <2>3, <3>2, <4>1 DEF RisingHistory
    <3> QED
      BY <2>1, <3>1, <3>2
  <2>4. ASSUME NEW q \in Jobs
        PROVE  /\ \A i \in 1..Len(events'[q]) :
                    (\A m \in i..Len(events'[q]) : events'[q][m].by # "plain")
                       => Rank(events'[q][i].from) < Rank(status'[q])
               /\ \A i, k \in 1..Len(events'[q]) :
                    i < k /\ (\A m \in i..k : events'[q][m].by # "plain")
                       => Rank(events'[q][i].from) < Rank(events'[q][k].from)
    <3>1. CASE q # j
      BY <2>1, <3>1 DEF RisingHistory, StagesOnly
    <3>2. CASE q = j
      <4>1. \A i \in 1..Len(events'[j]) :
               (\A m \in i..Len(events'[j]) : events'[j][m].by # "plain")
                  => Rank(events'[j][i].from) < Rank(status'[j])
        BY <2>1, <2>2
      <4>2. \A i, k \in 1..Len(events'[j]) :
               i < k /\ (\A m \in i..k : events'[j][m].by # "plain")
                  => Rank(events'[j][i].from) < Rank(events'[j][k].from)
        BY <2>1, <2>3 DEF StagesOnly
      <4> QED
        BY <3>2, <4>1, <4>2
    <3> QED
      BY <3>1, <3>2
  <2> QED
    BY <2>4 DEF RisingHistory, StagesOnly
<1> QED
  BY <1>1, <1>2, ColumnsWrites

\* A stage under way and a step that leaves it alone.
LEMMA VersionOfOneRun ==
    ASSUME HistoryInv, VerdictInv, InFlightVersion, [Next]_vars,
           NEW u \in Workers, Busy(u)
    PROVE  LET r == worker[u] IN
           /\ r.basis <= Len(events'[r.job])
           /\ r.basis = Len(events'[r.job]) => status'[r.job] = Expects[r.stage]
           /\ r.basis < Len(events'[r.job])
              /\ (\A m \in (r.basis + 1)..Len(events'[r.job]) :
                     events'[r.job][m].by # "plain")
                 => Rank(Expects[r.stage]) < Rank(status'[r.job])
<1> DEFINE r == worker[u]
           n == Len(events[r.job])
<1>1. TypeOK
  BY DEF HistoryInv
<1>2. r \in Runs /\ r.job \in Jobs /\ r.basis \in Nat /\ r.stage \in STAGE_NAMES
  BY <1>1, InFlight DEF Runs
<1>3. /\ r.basis <= n
      /\ r.basis = n => status[r.job] = Expects[r.stage]
      /\ r.basis < n /\ StagesOnly(r.job, r.basis + 1, n)
            => Rank(Expects[r.stage]) < Rank(status[r.job])
  BY DEF InFlightVersion
<1>4. CASE UNCHANGED <<status, events>>
  BY <1>3, <1>4 DEF StagesOnly
<1>5. ASSUME NEW j \in Jobs, NEW to \in ALL, NEW e \in EventSet, Written(j, to, e), j # r.job
      PROVE  events'[r.job] = events[r.job] /\ status'[r.job] = status[r.job]
  BY <1>1, <1>2, <1>5, WriteFacts
<1>6. ASSUME NEW to \in ALL, NEW e \in EventSet, Written(r.job, to, e)
      PROVE  /\ r.basis < Len(events'[r.job])
             /\ (\A m \in (r.basis + 1)..Len(events'[r.job]) :
                     events'[r.job][m].by # "plain")
                 => Rank(Expects[r.stage]) < Rank(status'[r.job])
  <2>1. /\ n \in Nat /\ Len(events'[r.job]) = n + 1
        /\ \A i \in 1..n : events'[r.job][i] = events[r.job][i]
        /\ events'[r.job][n + 1] = e /\ status'[r.job] = to
    BY <1>1, <1>2, <1>6, WriteFacts
  <2>2. r.basis < n + 1
    BY <1>2, <1>3, <2>1
  <2>3. ASSUME \A m \in (r.basis + 1)..(n + 1) : events'[r.job][m].by # "plain"
        PROVE  Rank(Expects[r.stage]) < Rank(to)
    <3>1. Rank(status[r.job]) < Rank(to)
      <4>1. e.by # "plain"
        <5>1. n + 1 \in (r.basis + 1)..(n + 1)
          BY <1>2, <2>1, <2>2
        <5>2. events'[r.job][n + 1].by # "plain"
          BY <2>3, <5>1
        <5> QED
          BY <2>1, <5>2
      <4> QED
        BY <1>6, <4>1 DEF Written
    <3>2. CASE r.basis = n
      BY <1>3, <3>1, <3>2
    <3>3. CASE r.basis < n
      <4>1. StagesOnly(r.job, r.basis + 1, n)
        BY <1>2, <2>1, <2>3 DEF StagesOnly
      <4>2. Rank(Expects[r.stage]) < Rank(status[r.job])
        BY <1>3, <3>3, <4>1
      <4> HIDE DEF r
      <4> QED
        BY <3>1, <4>2, RankIsInt
    <3> QED
      BY <1>2, <1>3, <2>1, <3>2, <3>3
  <2> QED
    BY <2>1, <2>2, <2>3
<1>7. CASE \E j \in Jobs, to \in ALL, e \in EventSet : Written(j, to, e)
  <2>1. PICK j \in Jobs, to \in ALL, e \in EventSet : Written(j, to, e)
    BY <1>7
  <2>2. CASE j # r.job
    BY <1>3, <1>5, <2>1, <2>2 DEF StagesOnly
  <2>3. CASE j = r.job
    <3>1. Written(r.job, to, e)
      BY <2>1, <2>3
    <3>2. /\ r.basis < Len(events'[r.job])
          /\ (\A m \in (r.basis + 1)..Len(events'[r.job]) :
                     events'[r.job][m].by # "plain")
                 => Rank(Expects[r.stage]) < Rank(status'[r.job])
      BY <1>6, <3>1
    <3>3. Len(events'[r.job]) \in Nat
      BY <1>1, <1>2, <3>1, WriteFacts
    <3> QED
      BY <1>2, <3>2, <3>3
  <2> QED
    BY <2>2, <2>3
<1> QED
  BY <1>4, <1>7, ColumnsWrites

LEMMA VersionStep ==
    ASSUME HistoryInv, VerdictInv, InFlightVersion, [Next]_vars
    PROVE  InFlightVersion'
<1> SUFFICES ASSUME NEW u \in Workers, Busy(u)'
             PROVE  LET r == worker'[u] IN
                    /\ r.basis <= Len(events'[r.job])
                    /\ r.basis = Len(events'[r.job]) => status'[r.job] = Expects[r.stage]
                    /\ r.basis < Len(events'[r.job])
                       /\ (\A m \in (r.basis + 1)..Len(events'[r.job]) :
                              events'[r.job][m].by # "plain")
                          => Rank(Expects[r.stage]) < Rank(status'[r.job])
  BY DEF InFlightVersion, StagesOnly
<1> TypeOK
  BY DEF HistoryInv
<1> DEFINE SameRun == /\ Busy(u)
                      /\ worker'[u].job = worker[u].job
                      /\ worker'[u].stage = worker[u].stage
                      /\ worker'[u].basis = worker[u].basis
<1>1. CASE SameRun
  BY <1>1, VersionOfOneRun
<1>2. ASSUME NEW j \in Jobs, NEW s \in STAGE_NAMES, ReadJob(u, j, s)
      PROVE  /\ worker'[u].job = j /\ worker'[u].stage = s
             /\ worker'[u].basis = Len(events[j]) /\ Len(events[j]) \in Nat
             /\ status[j] = Expects[s] /\ UNCHANGED <<status, events>>
  BY <1>2 DEF ReadJob, TypeOK
<1>3. ASSUME Work(u) \/ WorkRaises(u)
      PROVE  SameRun
  <2>1. worker[u] \in Runs
    BY <1>3, InFlight DEF Work, WorkRaises
  <2> QED
    BY <1>3, <2>1 DEF Work, WorkRaises, TypeOK, Runs
<1>4. ASSUME Abandon(u) \/ CommitIfStatus(u)
      PROVE  FALSE
  BY <1>4 DEF Abandon, CommitIfStatus, TypeOK, Busy, Idle
<1>5. ASSUME NEW w \in Workers, WorkerStep(w), w # u
      PROVE  SameRun
  BY <1>5 DEF WorkerStep, ReadJob, Work, WorkRaises, Abandon, CommitIfStatus, TypeOK, Busy
<1>6. ASSUME NEW p \in Writers, WriterStep(p)
      PROVE  SameRun
  BY <1>6 DEF WriterStep, PlainLoad, PlainCommit, PlainReplay, PlainAbandon, Busy
<1>7. CASE UNCHANGED vars
  BY <1>1, <1>7 DEF vars, Busy
<1>8. CASE WorkerStep(u)
  <2>1. ASSUME NEW j \in Jobs, NEW s \in STAGE_NAMES, ReadJob(u, j, s)
        PROVE  LET r == worker'[u] IN
               /\ r.basis <= Len(events'[r.job])
               /\ r.basis = Len(events'[r.job]) => status'[r.job] = Expects[r.stage]
               /\ ~ r.basis < Len(events'[r.job])
    BY <1>2, <2>1
  <2> QED
    BY <1>1, <1>3, <1>4, <1>8, <2>1 DEF WorkerStep
<1> QED
  BY <1>1, <1>5, <1>6, <1>7, <1>8 DEF Next

ForwardInv == HistoryInv /\ VerdictInv /\ RisingHistory /\ InFlightVersion

LEMMA ForwardInvHolds == Spec => []ForwardInv
<1>1. Init => RisingHistory /\ InFlightVersion
  <2> SUFFICES ASSUME Init PROVE RisingHistory /\ InFlightVersion
    OBVIOUS
  <2>1. \A j \in Jobs : /\ Len(events[j]) = 1 /\ events[j][1].from = "none"
                        /\ status[j] = "discovered"
    BY DEF Init, Transition
  <2>2. RisingHistory
    BY <2>1 DEF RisingHistory, Rank
  <2>3. InFlightVersion
    BY DEF Init, InFlightVersion, Busy, Idle
  <2> QED
    BY <2>2, <2>3
<1>2. HistoryInv /\ VerdictInv /\ RisingHistory /\ InFlightVersion /\ [Next]_vars
         => RisingHistory' /\ InFlightVersion'
  BY RisingStep, VersionStep
<1> QED
  BY <1>1, <1>2, HistoryInvHolds, VerdictInvHolds, PTL DEF Spec, ForwardInv

\* Two workers, or two processes, never advance the same job by the same stage:
\* no status is left twice unless a plain writer wrote the job in between.
THEOREM NoDoubleAdvance == Spec => []AdvancedOnce
<1>1. ForwardInv => AdvancedOnce
  <2> SUFFICES ASSUME ForwardInv, NEW j \in Jobs,
                      NEW i \in 1..Len(events[j]), NEW k \in 1..Len(events[j]), i < k,
                      \A m \in i..k : events[j][m].by # "plain"
               PROVE  events[j][i].from # events[j][k].from
    BY DEF AdvancedOnce
  <2>1. Rank(events[j][i].from) < Rank(events[j][k].from)
    BY DEF ForwardInv, RisingHistory, StagesOnly
  <2> QED
    BY <2>1, RankIsInt
<1> QED
  BY <1>1, ForwardInvHolds, PTL

\* A stage whose compare-and-set would succeed has read the latest version any
\* stage wrote of its job: comparing the status loses nothing against comparing
\* a version.
THEOREM StatusCheckSuffices == Spec => []StatusIsAVersion
<1>1. ForwardInv => StatusIsAVersion
  <2> SUFFICES ASSUME ForwardInv, NEW w \in Workers, Busy(w),
                      status[worker[w].job] = Expects[worker[w].stage],
                      \A m \in (worker[w].basis + 1)..Len(events[worker[w].job]) :
                          events[worker[w].job][m].by # "plain"
               PROVE  worker[w].basis = Len(events[worker[w].job])
    BY DEF StatusIsAVersion
  <2> DEFINE r == worker[w]
  <2> TypeOK
    BY DEF ForwardInv, HistoryInv
  <2>1. r \in Runs /\ r.job \in Jobs /\ r.basis \in Nat
    BY InFlight DEF Runs
  <2>2. Len(events[r.job]) \in Nat
    BY <2>1 DEF TypeOK
  <2>3. r.basis <= Len(events[r.job])
    BY DEF ForwardInv, InFlightVersion
  <2>4. ASSUME r.basis < Len(events[r.job]) PROVE FALSE
    <3>1. Rank(Expects[r.stage]) < Rank(status[r.job])
      BY <2>4 DEF ForwardInv, InFlightVersion, StagesOnly
    <3> QED
      BY <3>1, RankIsInt
  <2> QED
    BY <2>1, <2>2, <2>3, <2>4
<1> QED
  BY <1>1, ForwardInvHolds, PTL
=============================================================================
