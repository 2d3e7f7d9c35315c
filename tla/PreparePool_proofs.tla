-------------------------- MODULE PreparePool_proofs --------------------------
(***************************************************************************)
(* Proofs about PreparePool, for any number of jobs and threads, any       *)
(* target, give-up threshold, stages and bounds.                           *)
(***************************************************************************)
EXTENDS PreparePool, FunctionTheorems, FiniteSetTheorems, TLAPS

AtStage == {"gate", "pause", "read", "work", "commit"}

\* A thread at work has a job, and from the loop on a stage of the list.
Held(w) ==
    LET t == thread[w] IN
    /\ t.at = "free" => t = Free
    /\ t.at # "free" => t.job \in Jobs
    /\ t.at = "start" => t.stage = 0
    /\ t.at = "loop" => t.stage \in 1..(Len(Stages) + 1)
    /\ t.at \in AtStage => t.stage \in 1..Len(Stages)
    /\ t.at = "commit" => t.verdict \in ALL

TypeInv == TypeOK /\ \A w \in Workers : Held(w)

\* The stage tables hold statuses, and "skipped" is not one.
LEMMA TableFacts ==
    /\ "none" \notin ALL /\ "skipped" \notin ALL /\ "needs_human" \in ALL
    /\ \A s \in STAGE_NAMES : /\ Expects[s] \in ALL /\ Produces[s] \in ALL
                              /\ Verdicts[s] \subseteq ALL
BY DEF STAGE_NAMES, Expects, Produces, Verdicts, ALL, PIPELINE, POST_APPLY,
       EnrichVerdicts, ScoreVerdicts, TailorVerdicts, CoverVerdicts

\* The list of stages is a sequence with a length.
LEMMA StageFacts ==
    /\ Len(Stages) \in Nat
    /\ \A i \in 1..Len(Stages) : Stages[i] \in STAGE_NAMES
BY PoolAssumption

\* A thread's record keeps its type when it goes to another place.
LEMMA GoToTyped ==
    ASSUME TypeInv, NEW w \in Workers, NEW place, GoTo(w, place),
           place \in AtStage \union {"final"},
           thread[w].at # "free",
           place \in AtStage => thread[w].stage \in 1..Len(Stages),
           place = "commit" => thread[w].verdict \in ALL
    PROVE  thread' \in [Workers -> ThreadStates] /\ \A v \in Workers : Held(v)'
<1> DEFINE t == [thread[w] EXCEPT !.at = place]
<1>1. thread[w] \in ThreadStates /\ thread[w].job \in Jobs
  BY DEF TypeInv, TypeOK, Held
<1>2. thread' = [thread EXCEPT ![w] = t]
  BY DEF GoTo
<1>3. t \in ThreadStates
  BY <1>1 DEF ThreadStates, AtStage
<1>4. /\ t.at = place /\ t.job = thread[w].job /\ t.stage = thread[w].stage
      /\ t.verdict = thread[w].verdict
  BY <1>1 DEF ThreadStates
<1> HIDE DEF t
<1>5. thread' \in [Workers -> ThreadStates] /\ thread'[w] = t
      /\ \A v \in Workers : v # w => thread'[v] = thread[v]
  BY <1>2, <1>3 DEF TypeInv, TypeOK
<1>6. ASSUME NEW v \in Workers PROVE Held(v)'
  <2>1. CASE v = w
    BY <1>1, <1>4, <1>5, <2>1 DEF Held, AtStage
  <2>2. CASE v # w
    <3>1. thread'[v] = thread[v]
      BY <1>5, <2>2
    <3> QED
      BY <3>1 DEF TypeInv, Held
  <2> QED
    BY <2>1, <2>2
<1> QED
  BY <1>5, <1>6

\* And when it goes on to the next stage.
LEMMA NextStageTyped ==
    ASSUME TypeInv, NEW w \in Workers, NextStage(w),
           thread[w].at # "free", thread[w].stage \in 0..Len(Stages)
    PROVE  thread' \in [Workers -> ThreadStates] /\ \A v \in Workers : Held(v)'
<1> DEFINE t == [thread[w] EXCEPT !.at = "loop", !.stage = @ + 1, !.verdict = "none"]
<1>1. thread[w] \in ThreadStates /\ thread[w].job \in Jobs /\ Len(Stages) \in Nat
  BY StageFacts DEF TypeInv, TypeOK, Held
<1>2. thread' = [thread EXCEPT ![w] = t]
  BY DEF NextStage
<1> DEFINE n == thread[w].stage + 1
<1>a. n \in 0..(Len(Stages) + 1) /\ n \in 1..(Len(Stages) + 1)
  BY <1>1
<1>b. t = [thread[w] EXCEPT !.at = "loop", !.stage = n, !.verdict = "none"]
  OBVIOUS
<1> HIDE DEF n
<1>3. t \in ThreadStates
  BY <1>1, <1>a, <1>b DEF ThreadStates
<1>4. t.at = "loop" /\ t.job = thread[w].job /\ t.stage \in 1..(Len(Stages) + 1)
  BY <1>1, <1>a, <1>b DEF ThreadStates
<1> HIDE DEF t
<1>5. thread' \in [Workers -> ThreadStates] /\ thread'[w] = t
      /\ \A v \in Workers : v # w => thread'[v] = thread[v]
  BY <1>2, <1>3 DEF TypeInv, TypeOK
<1>6. ASSUME NEW v \in Workers PROVE Held(v)'
  <2>1. CASE v = w
    BY <1>1, <1>4, <1>5, <2>1 DEF Held, AtStage
  <2>2. CASE v # w
    <3>1. thread'[v] = thread[v]
      BY <1>5, <2>2
    <3> QED
      BY <3>1 DEF TypeInv, Held
  <2> QED
    BY <2>1, <2>2
<1> QED
  BY <1>5, <1>6

\* And when it is done with its job.
LEMMA FreeTyped ==
    ASSUME TypeInv, NEW w \in Workers, thread' = [thread EXCEPT ![w] = Free]
    PROVE  thread' \in [Workers -> ThreadStates] /\ \A v \in Workers : Held(v)'
<1>1. Free \in ThreadStates
  BY StageFacts, PoolAssumption DEF Free, ThreadStates
<1>2. thread' \in [Workers -> ThreadStates] /\ thread'[w] = Free
      /\ \A v \in Workers : v # w => thread'[v] = thread[v]
  BY <1>1 DEF TypeInv, TypeOK
<1>3. ASSUME NEW v \in Workers PROVE Held(v)'
  <2>1. CASE v = w
    BY <1>2, <2>1 DEF Held, Free, AtStage
  <2>2. CASE v # w
    <3>1. thread'[v] = thread[v]
      BY <1>2, <2>2
    <3> QED
      BY <3>1 DEF TypeInv, Held
  <2> QED
    BY <2>1, <2>2
<1> QED
  BY <1>2, <1>3

\* A thread that leaves the others alone keeps what they hold.
LEMMA SameThreads ==
    ASSUME TypeInv, thread' = thread
    PROVE  thread' \in [Workers -> ThreadStates] /\ \A v \in Workers : Held(v)'
BY DEF TypeInv, TypeOK, Held

-----------------------------------------------------------------------------
\* A step of a thread keeps the types.
LEMMA ThreadTyped ==
    ASSUME TypeInv, NEW w \in Workers, ThreadStep(w)
    PROVE  TypeInv'
<1> USE TableFacts, StageFacts
<1>0. Held(w)
  BY DEF TypeInv
<1>1. CASE TakeJob(w)
  <2>1. PICK j \in Jobs :
          /\ future' = [future EXCEPT ![j] = "running"]
          /\ thread' = [thread EXCEPT ![w] = [Free EXCEPT !.at = "start", !.job = j]]
    BY <1>1 DEF TakeJob
  <2> DEFINE t == [Free EXCEPT !.at = "start", !.job = j]
  <2>2. t.at = "start" /\ t.job = j /\ t.stage = 0
    BY DEF Free
  <2>3. t \in ThreadStates
    <3>1. j \in 0..NJobs /\ 0 \in 0..(Len(Stages) + 1)
      BY PoolAssumption DEF Jobs
    <3> QED
      BY <3>1 DEF ThreadStates, Free
  <2>4. thread' \in [Workers -> ThreadStates] /\ thread'[w] = t
        /\ \A v \in Workers : v # w => thread'[v] = thread[v]
    BY <2>1, <2>3 DEF TypeInv, TypeOK
  <2>5. ASSUME NEW v \in Workers PROVE Held(v)'
    <3>1. CASE v = w
      BY <2>2, <2>4, <3>1 DEF Held, AtStage
    <3>2. CASE v # w
      <4>1. thread'[v] = thread[v]
        BY <2>4, <3>2
      <4> QED
        BY <4>1 DEF TypeInv, Held
    <3> QED
      BY <3>1, <3>2
  <2> QED
    BY <1>1, <2>1, <2>4, <2>5 DEF TakeJob, TypeInv, TypeOK, stopVars, pauseVars,
                                  mainVars, envVars
<1>2. CASE Start(w)
  <2>1. thread' \in [Workers -> ThreadStates] /\ \A v \in Workers : Held(v)'
    BY <1>0, <1>2, FreeTyped, NextStageTyped DEF Start, Held
  <2> QED
    BY <1>2, <2>1 DEF Start, TypeInv, TypeOK, stopVars, pauseVars, mainVars, envVars
<1>3. CASE Loop(w)
  <2>1. thread[w].stage \in 1..(Len(Stages) + 1)
    BY <1>0, <1>3 DEF Loop, Held
  <2>2. PICK place \in {"final", "gate", "read"} :
          /\ GoTo(w, place)
          /\ place # "final" => thread[w].stage \in 1..Len(Stages)
    BY <1>3, <2>1 DEF Loop
  <2>3. thread' \in [Workers -> ThreadStates] /\ \A v \in Workers : Held(v)'
    BY <1>3, <2>2, GoToTyped DEF Loop, AtStage
  <2> QED
    BY <1>3, <2>3 DEF Loop, TypeInv, TypeOK, jobVars, stopVars, pauseVars, mainVars, envVars
<1>4. CASE Gate(w)
  <2>1. thread' \in [Workers -> ThreadStates] /\ \A v \in Workers : Held(v)'
    BY <1>0, <1>4, GoToTyped DEF Gate, Held, AtStage
  <2> QED
    BY <1>4, <2>1 DEF Gate, SetStop, TypeInv, TypeOK, jobVars, stopVars, pauseVars,
                      mainVars, envVars
<1>5. CASE Wait(w)
  <2>1. PICK place \in {"final", "read"} : GoTo(w, place)
    BY <1>5 DEF Wait
  <2>2. thread' \in [Workers -> ThreadStates] /\ \A v \in Workers : Held(v)'
    BY <1>0, <1>5, <2>1, GoToTyped DEF Wait, Held, AtStage
  <2> QED
    BY <1>5, <2>2 DEF Wait, TypeInv, TypeOK, jobVars, stopVars, pauseVars, mainVars, envVars
<1>6. CASE Read(w)
  <2>1. thread' \in [Workers -> ThreadStates] /\ \A v \in Workers : Held(v)'
    BY <1>0, <1>6, GoToTyped, NextStageTyped DEF Read, Held, AtStage
  <2>2. /\ consecutive' \in Nat /\ streak' \in Nat /\ spared' \in Nat
        /\ called' \subseteq Workers
    BY <1>6 DEF Read, note_progress, TypeInv, TypeOK
  <2> QED
    BY <1>6, <2>1, <2>2 DEF Read, TypeInv, TypeOK, jobVars, mainVars, envVars
<1>7. CASE Work(w)
  <2>1. PICK v \in Verdicts[StageName(w)] :
          thread' = [thread EXCEPT ![w].at = "commit", ![w].verdict = v]
    BY <1>7 DEF Work
  <2>c. called' \subseteq Workers
    BY <1>7 DEF Work, TypeInv, TypeOK
  <2> DEFINE t == [thread[w] EXCEPT !.at = "commit", !.verdict = v]
  <2>2. /\ thread[w] \in ThreadStates /\ thread[w].job \in Jobs
        /\ thread[w].stage \in 1..Len(Stages)
    BY <1>0, <1>7 DEF Work, Held, AtStage, TypeInv, TypeOK
  <2>3. v \in ALL
    BY <2>2 DEF StageName
  <2>4. /\ t \in ThreadStates /\ t.at = "commit" /\ t.job = thread[w].job
        /\ t.stage = thread[w].stage /\ t.verdict = v
    BY <2>2, <2>3 DEF ThreadStates
  <2>5. thread' = [thread EXCEPT ![w] = t]
    BY <2>1
  <2> HIDE DEF t
  <2>6. thread' \in [Workers -> ThreadStates] /\ thread'[w] = t
        /\ \A u \in Workers : u # w => thread'[u] = thread[u]
    BY <2>4, <2>5 DEF TypeInv, TypeOK
  <2>7. ASSUME NEW u \in Workers PROVE Held(u)'
    <3>1. CASE u = w
      BY <2>2, <2>3, <2>4, <2>6, <3>1 DEF Held, AtStage
    <3>2. CASE u # w
      <4>1. thread'[u] = thread[u]
        BY <2>6, <3>2
      <4> QED
        BY <4>1 DEF TypeInv, Held
    <3> QED
      BY <3>1, <3>2
  <2> QED
    BY <1>7, <2>c, <2>6, <2>7 DEF Work, TypeInv, TypeOK, jobVars, stopVars, mainVars, envVars
<1>8. CASE RateLimited(w)
  <2>1. thread' \in [Workers -> ThreadStates] /\ \A v \in Workers : Held(v)'
    BY <1>8, GoToTyped DEF RateLimited, AtStage
  <2> QED
    BY <1>8, <2>1 DEF RateLimited, TypeInv, TypeOK, jobVars, stopVars, mainVars, envVars
<1>9. CASE StageError(w)
  <2>1. thread' \in [Workers -> ThreadStates] /\ \A v \in Workers : Held(v)'
    BY <1>9, GoToTyped DEF StageError, AtStage
  <2> QED
    BY <1>9, <2>1 DEF StageError, TypeInv, TypeOK, jobVars, stopVars, pauseVars,
                      mainVars, envVars
<1>10. CASE Commit(w)
  <2>1. thread[w].at = "commit" /\ thread[w].stage \in 1..Len(Stages) /\ thread[w].verdict \in ALL
    BY <1>0, <1>10 DEF Commit, Held, AtStage
  <2>2. GoTo(w, "final") \/ NextStage(w)
    BY <1>10 DEF Commit
  <2>3. thread' \in [Workers -> ThreadStates] /\ \A v \in Workers : Held(v)'
    BY <2>1, <2>2, GoToTyped, NextStageTyped DEF AtStage
  <2>4. status' \in [Jobs -> ALL]
    BY <1>10, <2>1 DEF Commit, TypeInv, TypeOK
  <2>5. /\ consecutive' \in Nat /\ streak' \in Nat /\ spared' \in Nat
        /\ called' \subseteq Workers
    BY <1>10 DEF Commit, note_progress, TypeInv, TypeOK
  <2> QED
    BY <1>10, <2>3, <2>4, <2>5 DEF Commit, TypeInv, TypeOK, stopVars, mainVars, envVars
<1>11. CASE Final(w)
  <2>1. thread' \in [Workers -> ThreadStates] /\ \A v \in Workers : Held(v)'
    BY <1>11, FreeTyped DEF Final
  <2>2. Job(w) \in Jobs
    BY <1>0, <1>11 DEF Final, Held, Job
  <2> QED
    BY <1>11, <2>1, <2>2 DEF Final, TypeInv, TypeOK, stopVars, pauseVars, mainVars, envVars
<1> QED
  BY <1>1, <1>2, <1>3, <1>4, <1>5, <1>6, <1>7, <1>8, <1>9, <1>10, <1>11 DEF ThreadStep

\* The type invariant with what the threads hold.
LEMMA TypeInvHolds == Spec => []TypeInv
<1>1. Init => TypeInv
  <2>1. Free \in ThreadStates
    BY StageFacts, PoolAssumption DEF Free, ThreadStates
  <2> SUFFICES ASSUME Init PROVE TypeInv
    OBVIOUS
  <2>2. TypeOK
    <3>1. 0 \in 0..MaxElsewhere /\ 0 \in 0..MaxSignals
      BY PoolAssumption
    <3>2. status \in [Jobs -> ALL]
      BY PoolAssumption DEF Init
    <3> QED
      BY <2>1, <3>1, <3>2 DEF Init, TypeOK
  <2>3. \A w \in Workers : Held(w)
    BY DEF Init, Held, Free, AtStage
  <2> QED
    BY <2>2, <2>3 DEF TypeInv
<1>2. TypeInv /\ [Next]_vars => TypeInv'
  <2> SUFFICES ASSUME TypeInv, [Next]_vars PROVE TypeInv'
    OBVIOUS
  <2>1. ASSUME NEW w \in Workers, ThreadStep(w) PROVE TypeInv'
    BY <2>1, ThreadTyped
  <2>2. CASE MainStep
    <3>1. thread' = thread
      BY <2>2 DEF MainStep, Collect, CollectEnds, Drain, DrainEnds, Join
    <3>2. TypeOK'
      BY <2>2 DEF MainStep, Collect, CollectEnds, Drain, DrainEnds, Join, SetStop,
                  CancelQueued, Unbooked, TypeInv, TypeOK, jobVars, stopVars,
                  pauseVars, mainVars, envVars
    <3> QED
      BY <3>1, <3>2, SameThreads DEF TypeInv
  <2>3. CASE Signal
    <3>1. thread' = thread
      BY <2>3 DEF Signal
    <3>2. signals' \in 0..MaxSignals /\ elsewhere' \in 0..MaxElsewhere
      BY <2>3, PoolAssumption DEF Signal, TypeInv, TypeOK
    <3>3. future' \in [Jobs -> {"pending", "running", "finished", "cancelled"}]
      BY <2>3 DEF Signal, CancelQueued, TypeInv, TypeOK
    <3>4. stop' \in BOOLEAN /\ grace' \subseteq Workers
      BY <2>3 DEF Signal, SetStop, TypeInv, TypeOK, stopVars
    <3>5. main' \in {"collect", "drain", "join", "done", "unwind", "interrupted"}
      BY <2>3 DEF Signal, TypeInv, TypeOK
    <3>6. TypeOK'
      BY <2>3, <3>1, <3>2, <3>3, <3>4, <3>5 DEF Signal, TypeInv, TypeOK, pauseVars
    <3> QED
      BY <3>1, <3>6, SameThreads DEF TypeInv
  <2>4. CASE PauseEnds
    BY <2>4, SameThreads DEF PauseEnds, TypeInv, TypeOK, jobVars, stopVars, mainVars, envVars
  <2>5. CASE Elsewhere
    <3>1. thread' = thread
      BY <2>5 DEF Elsewhere
    <3>2. TypeOK'
      BY <2>5, TableFacts, PoolAssumption
         DEF Elsewhere, TypeInv, TypeOK, stopVars, pauseVars, mainVars
    <3> QED
      BY <3>1, <3>2, SameThreads DEF TypeInv
  <2>6. CASE UNCHANGED vars
    BY <2>6, SameThreads DEF vars, TypeInv, TypeOK, jobVars, stopVars, pauseVars,
                             mainVars, envVars
  <2> QED
    BY <2>1, <2>2, <2>3, <2>4, <2>5, <2>6 DEF Next
<1> QED
  BY <1>1, <1>2, PTL DEF Spec

\* Statuses, futures, outcomes and threads keep their types: no thread ever looks
\* up a stage beyond the list or stores anything but a status.
THEOREM TypeCorrect == Spec => []TypeOK
<1>1. TypeInv => TypeOK
  BY DEF TypeInv
<1> QED
  BY <1>1, TypeInvHolds, PTL

-----------------------------------------------------------------------------
\* Once stop is set no thread gets past another check: those that still run a
\* stage were about to read their job when it was set.
THEOREM PromptStop == Spec => []StopIsPrompt
<1>1. Init => StopIsPrompt
  BY DEF Init, StopIsPrompt
<1>2. TypeInv /\ StopIsPrompt /\ [Next]_vars => StopIsPrompt'
  <2> SUFFICES ASSUME TypeInv, StopIsPrompt, [Next]_vars PROVE StopIsPrompt'
    OBVIOUS
  <2>0. thread \in [Workers -> ThreadStates]
    BY DEF TypeInv, TypeOK
  <2>1. ASSUME NEW w \in Workers, ThreadStep(w) PROVE StopIsPrompt'
    <3>1. ASSUME NEW v \in Workers, v # w PROVE thread'[v] = thread[v]
      BY <2>0, <2>1, <3>1 DEF ThreadStep, TakeJob, Start, Loop, Gate, Wait, Read, Work,
           RateLimited, StageError, Commit, Final, GoTo, NextStage
    <3>2. CASE Gate(w) /\ SetStop
      <4>1. thread'[w].at # "read"
        BY <2>0, <3>2 DEF Gate, GoTo, ThreadStates
      <4> QED
        BY <3>1, <3>2, <4>1 DEF SetStop, StopIsPrompt
    <3>3. CASE ~ SetStop \/ ~ Gate(w)
      <4>1. stop' = stop
        BY <2>1, <3>3 DEF ThreadStep, TakeJob, Start, Loop, Gate, Wait, Read, Work,
             RateLimited, StageError, Commit, Final, stopVars
      <4>2. grace \ {w} \subseteq grace'
        BY <2>1, <3>3 DEF ThreadStep, TakeJob, Start, Loop, Gate, Wait, Read, Work,
             RateLimited, StageError, Commit, Final, stopVars
      <4>3. stop => thread'[w].at # "read"
        <5> SUFFICES ASSUME stop PROVE thread'[w].at # "read"
          OBVIOUS
        <5>1. ASSUME NEW place, GoTo(w, place) PROVE thread'[w].at = place
          BY <2>0, <5>1 DEF GoTo, ThreadStates
        <5>2. ASSUME NextStage(w) PROVE thread'[w].at = "loop"
          BY <2>0, <5>2 DEF NextStage, ThreadStates
        <5>3. CASE TakeJob(w)
          BY <2>0, <5>3 DEF TakeJob, Free
        <5>4. CASE Start(w) \/ Final(w)
          BY <2>0, <5>2, <5>4 DEF Start, Final, Free
        <5>5. CASE Loop(w) \/ Gate(w) \/ Wait(w)
          BY <5>1, <5>5 DEF Loop, Gate, Wait
        <5>6. CASE Read(w)
          BY <5>1, <5>2, <5>6 DEF Read
        <5>7. CASE Work(w)
          BY <2>0, <5>7 DEF Work, ThreadStates
        <5>8. CASE RateLimited(w) \/ StageError(w)
          BY <5>1, <5>8 DEF RateLimited, StageError
        <5>9. CASE Commit(w)
          BY <5>1, <5>2, <5>9 DEF Commit
        <5> QED
          BY <2>1, <5>3, <5>4, <5>5, <5>6, <5>7, <5>8, <5>9 DEF ThreadStep
      <4> QED
        BY <3>1, <4>1, <4>2, <4>3 DEF StopIsPrompt
    <3> QED
      BY <3>2, <3>3
  <2>2. CASE SetStop /\ thread' = thread
    BY <2>2 DEF SetStop, StopIsPrompt
  <2>3. CASE UNCHANGED <<thread, stop, grace>>
    BY <2>3 DEF StopIsPrompt
  <2>4. CASE MainStep \/ Signal
    BY <2>2, <2>3, <2>4 DEF MainStep, Collect, CollectEnds, Drain, DrainEnds, Join,
                            Signal, stopVars
  <2>5. CASE PauseEnds \/ Elsewhere \/ UNCHANGED vars
    BY <2>3, <2>5 DEF PauseEnds, Elsewhere, vars, stopVars
  <2> QED
    BY <2>1, <2>4, <2>5 DEF Next
<1> QED
  BY <1>1, <1>2, TypeInvHolds, PTL DEF Spec

-----------------------------------------------------------------------------
(***************************************************************************)
(* The summary.  A thread at work holds a running future that no other     *)
(* thread holds; booked futures have finished and their outcomes stay.     *)
(***************************************************************************)

Busy(w) == thread[w].at # "free"

Books ==
    /\ \A w \in Workers : Busy(w) => future[Job(w)] = "running"
    /\ \A v, w \in Workers : v # w /\ Busy(v) /\ Busy(w) => Job(v) # Job(w)
    /\ \A j \in booked : future[j] = "finished"
    /\ \A j \in Jobs : outcome[j] = "skipped" \/ future[j] = "cancelled" => stop
    /\ main \in {"join", "done"} => \A j \in Jobs : future[j] = "cancelled" \/ j \in booked
    /\ target_reached => CoveredIn(booked) >= Target

\* A thread goes on with its job.
Continues(w) ==
    /\ Busy(w) /\ Busy(w)' /\ Job(w)' = Job(w)
    /\ UNCHANGED <<future, outcome>>

\* A thread leaves its job, with an outcome.
Leaves(w) ==
    /\ Busy(w) /\ thread' = [thread EXCEPT ![w] = Free]
    /\ future' = [future EXCEPT ![Job(w)] = "finished"]
    /\ \E x \in ALL \union {"skipped"} :
          /\ x = "skipped" => stop
          /\ outcome' = [outcome EXCEPT ![Job(w)] = x]

\* What a step of a thread is to the main thread.
LEMMA ThreadKinds ==
    ASSUME TypeInv, NEW w \in Workers, ThreadStep(w)
    PROVE  /\ UNCHANGED mainVars
           /\ stop => stop'
           /\ \A v \in Workers : v # w => thread'[v] = thread[v]
           /\ TakeJob(w) \/ Continues(w) \/ Leaves(w)
<1>0. thread \in [Workers -> ThreadStates] /\ Held(w)
  BY DEF TypeInv, TypeOK
<1>1. UNCHANGED mainVars /\ (stop => stop')
  <2>1. UNCHANGED mainVars
    BY DEF ThreadStep, TakeJob, Start, Loop, Gate, Wait, Read, Work, RateLimited,
           StageError, Commit, Final
  <2>2. stop' = stop \/ stop' = TRUE
    BY DEF ThreadStep, TakeJob, Start, Loop, Gate, Wait, Read, Work, RateLimited,
           StageError, Commit, Final, SetStop, stopVars
  <2>3. stop => stop'
    BY <2>2
  <2> QED
    BY <2>1, <2>3
<1>2. ASSUME NEW v \in Workers, v # w PROVE thread'[v] = thread[v]
  BY <1>0, <1>2 DEF ThreadStep, TakeJob, Start, Loop, Gate, Wait, Read, Work,
       RateLimited, StageError, Commit, Final, GoTo, NextStage
<1>3. ASSUME NEW place, GoTo(w, place), place # "free", Busy(w),
             UNCHANGED <<future, outcome>>
      PROVE  Continues(w)
  BY <1>0, <1>3 DEF GoTo, Continues, Busy, Job, ThreadStates
<1>4. ASSUME NextStage(w), Busy(w), UNCHANGED <<future, outcome>>
      PROVE  Continues(w)
  BY <1>0, <1>4 DEF NextStage, Continues, Busy, Job, ThreadStates
<1>5. ASSUME Start(w)
      PROVE  Continues(w) \/ Leaves(w)
  <2>1. Busy(w)
    BY <1>5 DEF Start, Busy
  <2> QED
    BY <1>4, <1>5, <2>1 DEF Start, Leaves
<1>6. ASSUME Loop(w) \/ Gate(w) \/ Wait(w) \/ Read(w)
      PROVE  Continues(w) \/ Leaves(w)
  <2>1. Busy(w) /\ UNCHANGED <<future, outcome>>
    BY <1>6 DEF Loop, Gate, Wait, Read, Busy, jobVars
  <2>2. NextStage(w) \/ \E place \in AtStage \union {"final"} : GoTo(w, place)
    BY <1>6 DEF Loop, Gate, Wait, Read, AtStage
  <2> QED
    BY <1>3, <1>4, <2>1, <2>2 DEF AtStage
<1>7. ASSUME Work(w)
      PROVE  Continues(w) \/ Leaves(w)
  BY <1>0, <1>7 DEF Work, Continues, Busy, Job, ThreadStates, jobVars
<1>8. ASSUME RateLimited(w) \/ StageError(w) \/ Commit(w)
      PROVE  Continues(w) \/ Leaves(w)
  <2>1. Busy(w) /\ UNCHANGED <<future, outcome>>
    BY <1>8 DEF RateLimited, StageError, Commit, Busy, jobVars
  <2>2. NextStage(w) \/ GoTo(w, "final")
    BY <1>8 DEF RateLimited, StageError, Commit
  <2> QED
    BY <1>3, <1>4, <2>1, <2>2
<1>9. ASSUME Final(w)
      PROVE  Continues(w) \/ Leaves(w)
  <2>1. Busy(w) /\ Job(w) \in Jobs
    BY <1>0, <1>9 DEF Final, Busy, Held, Job
  <2>2. status[Job(w)] \in ALL /\ status[Job(w)] # "skipped"
    BY <2>1, TableFacts DEF TypeInv, TypeOK
  <2> QED
    BY <1>9, <2>1, <2>2 DEF Final, Leaves
<1> QED
  BY <1>1, <1>2, <1>5, <1>6, <1>7, <1>8, <1>9 DEF ThreadStep

LEMMA ThreadKeepsBooks ==
    ASSUME TypeInv, Books, NEW w \in Workers, ThreadStep(w)
    PROVE  Books'
<1>0. /\ UNCHANGED <<main, booked, target_reached>>
      /\ stop => stop'
      /\ \A v \in Workers : v # w => thread'[v] = thread[v]
      /\ TakeJob(w) \/ Continues(w) \/ Leaves(w)
  BY ThreadKinds DEF mainVars
<1>1. /\ future \in [Jobs -> {"pending", "running", "finished", "cancelled"}]
      /\ outcome \in [Jobs -> ALL \union {"none", "skipped"}]
      /\ thread \in [Workers -> ThreadStates] /\ booked \subseteq Jobs
      /\ \A v \in Workers : Busy(v) => Job(v) \in Jobs
  BY DEF TypeInv, TypeOK, Held, Busy, Job
<1>2. ASSUME \A j \in booked : outcome'[j] = outcome[j]
      PROVE  target_reached' => CoveredIn(booked)' >= Target
  <2>1. booked' = booked /\ CoveredIn(booked)' = CoveredIn(booked)
    BY <1>0, <1>2 DEF CoveredIn
  <2> QED
    BY <1>0, <2>1 DEF Books
<1>3. CASE TakeJob(w)
  <2>1. PICK j \in Jobs :
          /\ future[j] = "pending" /\ future' = [future EXCEPT ![j] = "running"]
          /\ thread' = [thread EXCEPT ![w] = [Free EXCEPT !.at = "start", !.job = j]]
    BY <1>3 DEF TakeJob
  <2>2. outcome' = outcome
    BY <1>3 DEF TakeJob
  <2>3. Job(w)' = j
    BY <1>1, <2>1 DEF Job, Free
  <2>4. \A v \in Workers : v # w => Job(v)' = Job(v) /\ Busy(v)' = Busy(v)
    BY <1>0 DEF Job, Busy
  <2>5. \A v \in Workers : Busy(v) => Job(v) # j
    BY <2>1 DEF Books
  <2>6. future'[j] = "running" /\ \A k \in Jobs : k # j => future'[k] = future[k]
    BY <1>1, <2>1
  <2>7. j \notin booked /\ main \notin {"join", "done"}
    BY <2>1 DEF Books
  <2>8. target_reached' => CoveredIn(booked)' >= Target
    BY <1>2, <2>2
  <2>9. /\ \A v \in Workers : Busy(v)' => future'[Job(v)'] = "running"
        /\ \A u, v \in Workers : u # v /\ Busy(u)' /\ Busy(v)' => Job(u)' # Job(v)'
    BY <1>1, <2>3, <2>4, <2>5, <2>6 DEF Books
  <2>10. /\ \A k \in booked' : future'[k] = "finished"
         /\ \A k \in Jobs : outcome'[k] = "skipped" \/ future'[k] = "cancelled" => stop'
    BY <1>0, <1>1, <2>2, <2>6, <2>7 DEF Books
  <2> QED
    BY <1>0, <2>7, <2>8, <2>9, <2>10 DEF Books
<1>4. CASE Continues(w)
  <2>1. /\ UNCHANGED <<future, outcome>>
        /\ \A v \in Workers : Job(v)' = Job(v) /\ Busy(v)' = Busy(v)
    BY <1>0, <1>4 DEF Continues, Job, Busy
  <2>2. target_reached' => CoveredIn(booked)' >= Target
    BY <1>2, <2>1
  <2> QED
    BY <1>0, <2>1, <2>2 DEF Books
<1>5. CASE Leaves(w)
  <2>1. /\ Busy(w) /\ Job(w) \in Jobs /\ future[Job(w)] = "running"
        /\ future'[Job(w)] = "finished"
        /\ \A k \in Jobs : k # Job(w) => future'[k] = future[k]
    BY <1>1, <1>5 DEF Leaves, Books
  <2>2. PICK x \in ALL \union {"skipped"} :
          (x = "skipped" => stop) /\ outcome' = [outcome EXCEPT ![Job(w)] = x]
    BY <1>5 DEF Leaves
  <2>3. Job(w) \notin booked /\ main \notin {"join", "done"}
    BY <2>1 DEF Books
  <2>4. ~ Busy(w)' /\ \A v \in Workers : v # w => Job(v)' = Job(v) /\ Busy(v)' = Busy(v)
    BY <1>0, <1>1, <1>5 DEF Leaves, Job, Busy, Free
  <2>5. \A k \in booked : outcome'[k] = outcome[k]
    BY <1>1, <2>2, <2>3
  <2>6. target_reached' => CoveredIn(booked)' >= Target
    BY <1>2, <2>5
  <2>7. /\ \A v \in Workers : Busy(v)' => future'[Job(v)'] = "running"
        /\ \A u, v \in Workers : u # v /\ Busy(u)' /\ Busy(v)' => Job(u)' # Job(v)'
    BY <1>1, <2>1, <2>4 DEF Books
  <2>8. \A k \in booked' : future'[k] = "finished"
    BY <1>0, <1>1, <2>1, <2>3 DEF Books
  <2>9. \A k \in Jobs : outcome'[k] = "skipped" \/ future'[k] = "cancelled" => stop'
    BY <1>0, <1>1, <2>1, <2>2 DEF Books
  <2> QED
    BY <1>0, <2>3, <2>6, <2>7, <2>8, <2>9 DEF Books
<1> QED
  BY <1>0, <1>3, <1>4, <1>5

\* Cancelling what is queued disturbs no thread and nothing booked.
LEMMA CancelFacts ==
    ASSUME TypeInv, Books, CancelQueued
    PROVE  /\ \A j \in Jobs : future[j] # "pending" => future'[j] = future[j]
           /\ \A w \in Workers : Busy(w) => future'[Job(w)] = "running"
           /\ \A j \in booked : future'[j] = "finished"
           /\ \A j \in Jobs : future[j] = "cancelled" => future'[j] = "cancelled"
<1>1. \A w \in Workers : Busy(w) => Job(w) \in Jobs
  BY DEF TypeInv, Held, Busy, Job
<1>2. booked \subseteq Jobs
  BY DEF TypeInv, TypeOK
<1> QED
  BY <1>1, <1>2 DEF CancelQueued, Books

LEMMA MainKeepsBooks ==
    ASSUME TypeInv, Books, MainStep
    PROVE  Books'
<1>0. /\ UNCHANGED <<thread, outcome>>
      /\ booked \subseteq Jobs
      /\ \A j \in Jobs : outcome'[j] = outcome[j]
  BY DEF MainStep, Collect, CollectEnds, Drain, DrainEnds, Join, jobVars, TypeInv, TypeOK
<1>1. ASSUME booked \subseteq booked', booked' \subseteq Jobs, target_reached' = target_reached
      PROVE  target_reached' => CoveredIn(booked)' >= Target
  <2>1. CoveredIn(booked) \in Nat /\ CoveredIn(booked') \in Nat
        /\ CoveredIn(booked) <= CoveredIn(booked')
    <3> DEFINE A == {j \in booked : outcome[j] = "covered"}
               B == {j \in booked' : outcome[j] = "covered"}
    <3>1. IsFiniteSet(Jobs)
      BY FS_Interval, PoolAssumption DEF Jobs
    <3>2. IsFiniteSet(B) /\ A \subseteq B
      BY <1>1, <3>1, FS_Subset
    <3>3. IsFiniteSet(A) /\ Cardinality(A) <= Cardinality(B)
      BY <3>2, FS_Subset
    <3> QED
      BY <3>2, <3>3, FS_CardinalityType DEF CoveredIn
  <2>2. CoveredIn(booked)' = CoveredIn(booked')
    BY <1>0 DEF CoveredIn
  <2> QED
    BY <1>1, <2>1, <2>2, PoolAssumption DEF Books
<1>2. CASE Collect
  <2>1. PICK j \in Unbooked :
          /\ booked' = booked \union {j}
          /\ \/ /\ HitsTarget(booked')
                /\ target_reached' = TRUE
                /\ SetStop
                /\ CancelQueued
                /\ main' = "drain"
             \/ /\ ~ HitsTarget(booked')
                /\ UNCHANGED <<target_reached, stopVars, future, main>>
    BY <1>2 DEF Collect
  <2>2. j \in Jobs /\ future[j] = "finished" /\ main = "collect"
    BY <1>2 DEF Collect, Unbooked
  <2>3. CASE HitsTarget(booked') /\ SetStop /\ CancelQueued /\ main' = "drain"
    <3>1. CoveredIn(booked)' >= Target
      BY <1>0, <2>3 DEF HitsTarget, CoveredIn
    <3>2. stop' = TRUE
      BY <2>3 DEF SetStop
    <3>3. \A k \in booked' : future'[k] = "finished"
      BY <2>1, <2>2, <2>3, CancelFacts
    <3>4. \A v \in Workers : Busy(v)' = Busy(v) /\ Job(v)' = Job(v)
      BY <1>0 DEF Busy, Job
    <3> QED
      BY <2>3, <3>1, <3>2, <3>3, <3>4, CancelFacts DEF Books
  <2>4. CASE UNCHANGED <<target_reached, stopVars, future, main>>
    <3>1. target_reached' => CoveredIn(booked)' >= Target
      BY <1>0, <1>1, <2>1, <2>2, <2>4
    <3>2. \A v \in Workers : Busy(v)' = Busy(v) /\ Job(v)' = Job(v)
      BY <1>0 DEF Busy, Job
    <3> QED
      BY <1>0, <2>1, <2>2, <2>4, <3>1, <3>2 DEF Books, stopVars
  <2> QED
    BY <2>1, <2>3, <2>4
<1>3. CASE CollectEnds \/ DrainEnds \/ Join
  <2>1. UNCHANGED <<future, outcome, thread, stop, booked, target_reached>>
    BY <1>3 DEF CollectEnds, DrainEnds, Join, jobVars, stopVars
  <2>2. main' \in {"join", "done"} => \A j \in Jobs : future[j] = "cancelled" \/ j \in booked
    BY <1>3 DEF CollectEnds, DrainEnds, Join, Books
  <2>3. target_reached' => CoveredIn(booked)' >= Target
    BY <1>0, <1>1, <2>1
  <2>4. \A v \in Workers : Busy(v)' = Busy(v) /\ Job(v)' = Job(v)
    BY <1>0 DEF Busy, Job
  <2> QED
    BY <2>1, <2>2, <2>3, <2>4 DEF Books
<1>4. CASE Drain
  <2>1. PICK j \in Unbooked : booked' = booked \union {j}
    BY <1>4 DEF Drain
  <2>2. UNCHANGED <<future, outcome, thread, stop, main, target_reached>>
    BY <1>4 DEF Drain, jobVars, stopVars
  <2>3. j \in Jobs /\ future[j] = "finished" /\ main = "drain"
    BY <1>4 DEF Drain, Unbooked
  <2>4. target_reached' => CoveredIn(booked)' >= Target
    BY <1>0, <1>1, <2>1, <2>2, <2>3
  <2>5. \A v \in Workers : Busy(v)' = Busy(v) /\ Job(v)' = Job(v)
    BY <1>0 DEF Busy, Job
  <2> QED
    BY <2>1, <2>2, <2>3, <2>4, <2>5 DEF Books
<1> QED
  BY <1>2, <1>3, <1>4 DEF MainStep

LEMMA BooksHold == Spec => []Books
<1>1. Init => Books
  BY TableFacts DEF Init, Books, Busy, Free
<1>2. TypeInv /\ Books /\ [Next]_vars => Books'
  <2> SUFFICES ASSUME TypeInv, Books, [Next]_vars PROVE Books'
    OBVIOUS
  <2>1. ASSUME NEW w \in Workers, ThreadStep(w) PROVE Books'
    BY <2>1, ThreadKeepsBooks
  <2>2. CASE MainStep
    BY <2>2, MainKeepsBooks
  <2>3. CASE Signal
    <3>1. UNCHANGED <<thread, outcome, booked, target_reached>>
      BY <2>3 DEF Signal
    <3>2. CoveredIn(booked)' = CoveredIn(booked)
      BY <3>1 DEF CoveredIn
    <3>3. \A v \in Workers : Busy(v)' = Busy(v) /\ Job(v)' = Job(v)
      BY <3>1 DEF Busy, Job
    <3>4. CASE SetStop /\ UNCHANGED <<future, main>>
      BY <3>1, <3>2, <3>3, <3>4 DEF Books, SetStop
    <3>5. CASE stop /\ CancelQueued /\ main' \in {"interrupted", "unwind"} /\ UNCHANGED stopVars
      BY <3>1, <3>2, <3>3, <3>5, CancelFacts DEF Books, stopVars
    <3> QED
      BY <2>3, <3>4, <3>5 DEF Signal
  <2>4. CASE PauseEnds \/ Elsewhere \/ UNCHANGED vars
    <3>1. UNCHANGED <<future, outcome, thread, stop, main, booked, target_reached>>
      BY <2>4 DEF PauseEnds, Elsewhere, vars, jobVars, stopVars, mainVars
    <3>2. CoveredIn(booked)' = CoveredIn(booked)
      BY <3>1 DEF CoveredIn
    <3> QED
      BY <3>1, <3>2 DEF Books, Busy, Job
  <2> QED
    BY <2>1, <2>2, <2>3, <2>4 DEF Next
<1> QED
  BY <1>1, <1>2, TypeInvHolds, PTL DEF Spec

\* When the drive returns its summary no thread is at work, everything driven is
\* in it, nothing is missing unless the drive was stopped, and the target is
\* claimed only if it was met.
THEOREM CompleteSummary == Spec => []SummaryIsComplete
<1>1. TypeInv /\ Books => SummaryIsComplete
  <2> SUFFICES ASSUME TypeInv, Books, main = "done" PROVE SummaryIsComplete
    BY DEF SummaryIsComplete
  <2>1. \A w \in Workers : ~ Busy(w)
    BY DEF TypeInv, Held, Books, Busy, Job
  <2>2. \A w \in Workers : thread[w] = Free
    BY <2>1 DEF TypeInv, Held, Busy
  <2>3. /\ \A j \in Jobs : future[j] = "finished" => j \in booked
        /\ ~ stop => \A j \in Jobs : j \in booked /\ outcome[j] # "skipped"
        /\ target_reached => CoveredIn(booked) >= Target
    BY DEF Books
  <2> QED
    BY <2>2, <2>3 DEF SummaryIsComplete
<1> QED
  BY <1>1, TypeInvHolds, BooksHold, PTL

-----------------------------------------------------------------------------
(***************************************************************************)
(* The usage limit.  Every thread past the gate with an LLM stage may      *)
(* still hit the limit once, so those threads are counted with the calls   *)
(* that have hit it.                                                       *)
(***************************************************************************)

Past == {w \in Workers : thread[w].at \in {"pause", "read", "work"} /\ UsesLLM[StageName(w)]}

LimitInv ==
    GiveUpAfter > 0 =>
        consecutive + Cardinality(Past) <= GiveUpAfter + Cardinality(Workers) - 1

LEMMA PastFacts ==
    ASSUME NEW S, S \subseteq Workers
    PROVE  /\ IsFiniteSet(S) /\ Cardinality(S) \in Nat /\ Cardinality(Workers) \in Nat
           /\ Cardinality(S) <= Cardinality(Workers)
BY PoolAssumption, FS_Subset, FS_CardinalityType

\* Nobody passes the gate, and no call is added.
LEMMA PastShrinks ==
    ASSUME TypeInv, LimitInv, Past' \subseteq Past, consecutive' \in {consecutive, 0}
    PROVE  LimitInv'
<1>1. Past \subseteq Workers /\ Past' \subseteq Workers
  BY DEF Past
<1>2. IsFiniteSet(Past) /\ Cardinality(Past') <= Cardinality(Past)
  BY <1>1, PastFacts, FS_Subset
<1>3. /\ Cardinality(Past) \in Nat /\ Cardinality(Past') \in Nat /\ Cardinality(Workers) \in Nat
      /\ consecutive \in Nat /\ GiveUpAfter \in Nat
  BY <1>1, PastFacts, PoolAssumption DEF TypeInv, TypeOK
<1> HIDE DEF Past
<1> QED
  BY <1>2, <1>3 DEF LimitInv

LEMMA ThreadKeepsLimit ==
    ASSUME TypeInv, LimitInv, NEW w \in Workers, ThreadStep(w)
    PROVE  LimitInv'
<1>0. thread \in [Workers -> ThreadStates]
  BY DEF TypeInv, TypeOK
<1>1. \A v \in Workers : v # w => (v \in Past' <=> v \in Past)
  <2>1. \A v \in Workers : v # w => thread'[v] = thread[v]
    BY ThreadKinds
  <2> QED
    BY <2>1 DEF Past, StageName
<1>2. Past \subseteq Workers /\ Past' \subseteq Workers
  BY DEF Past
<1>3. ASSUME w \notin Past' \/ w \in Past, consecutive' \in {consecutive, 0}
      PROVE  LimitInv'
  <2>1. Past' \subseteq Past
    BY <1>1, <1>2, <1>3
  <2> QED
    BY <1>3, <2>1, PastShrinks
<1>4. ASSUME NEW place, GoTo(w, place)
      PROVE  thread'[w].at = place /\ StageName(w)' = StageName(w)
  BY <1>0, <1>4 DEF GoTo, StageName, ThreadStates
<1>5. ASSUME NextStage(w) \/ thread' = [thread EXCEPT ![w] = Free]
      PROVE  w \notin Past'
  <2>1. thread'[w].at \in {"loop", "free"}
    BY <1>0, <1>5 DEF NextStage, Free, ThreadStates
  <2> QED
    BY <2>1 DEF Past
<1>6. ASSUME NEW place \in {"final", "gate", "commit"}, GoTo(w, place)
      PROVE  w \notin Past'
  BY <1>4, <1>6 DEF Past
<1>7. CASE TakeJob(w)
  <2>1. thread'[w].at = "start"
    BY <1>0, <1>7 DEF TakeJob, Free
  <2> QED
    BY <1>3, <1>7, <2>1 DEF TakeJob, pauseVars, Past
<1>8. CASE Start(w) \/ Final(w)
  BY <1>3, <1>5, <1>8 DEF Start, Final, pauseVars
<1>9. CASE Loop(w)
  <2>1. GoTo(w, "final") \/ GoTo(w, "gate") \/ (GoTo(w, "read") /\ ~ UsesLLM[StageName(w)])
    BY <1>9 DEF Loop
  <2>2. w \notin Past'
    BY <1>4, <1>6, <2>1 DEF Past
  <2> QED
    BY <1>3, <1>9, <2>2 DEF Loop, pauseVars
<1>10. CASE Gate(w)
  <2>1. CASE GoTo(w, "final")
    BY <1>3, <1>6, <1>10, <2>1 DEF Gate, pauseVars
  <2>2. CASE ~ should_give_up
    <3>1. consecutive' = consecutive
      BY <1>10 DEF Gate, pauseVars
    <3>2. /\ Cardinality(Past') \in Nat /\ Cardinality(Workers) \in Nat
          /\ Cardinality(Past') <= Cardinality(Workers)
          /\ consecutive \in Nat /\ GiveUpAfter \in Nat
      BY <1>2, PastFacts, PoolAssumption DEF TypeInv, TypeOK
    <3>3. GiveUpAfter > 0 => consecutive <= GiveUpAfter - 1
      BY <2>2, <3>2 DEF should_give_up
    <3> HIDE DEF Past
    <3> QED
      BY <3>1, <3>2, <3>3 DEF LimitInv
  <2> QED
    BY <1>10, <2>1, <2>2 DEF Gate
<1>11. CASE Wait(w)
  <2>1. GoTo(w, "final") \/ GoTo(w, "read")
    BY <1>11 DEF Wait
  <2>2. w \notin Past' \/ w \in Past
    BY <1>4, <1>11, <2>1 DEF Wait, Past
  <2> QED
    BY <1>3, <1>11, <2>2 DEF Wait, pauseVars
<1>12. CASE Read(w)
  <2>1. consecutive' \in {consecutive, 0}
    BY <1>12 DEF Read, note_progress
  <2>2. NextStage(w) \/ GoTo(w, "work")
    BY <1>12 DEF Read
  <2>3. w \notin Past' \/ w \in Past
    BY <1>4, <1>5, <1>12, <2>2 DEF Read, Past
  <2> QED
    BY <1>3, <2>1, <2>3
<1>13. CASE Work(w)
  <2>1. thread'[w].at = "commit"
    BY <1>0, <1>13 DEF Work, ThreadStates
  <2> QED
    BY <1>3, <1>13, <2>1 DEF Work, Past
<1>14. CASE RateLimited(w)
  <2>1. w \in Past /\ w \notin Past'
    BY <1>6, <1>14 DEF RateLimited, Past
  <2>2. Past' \subseteq Past \ {w}
    BY <1>1, <1>2, <2>1
  <2>3. /\ Cardinality(Past') <= Cardinality(Past \ {w})
        /\ Cardinality(Past \ {w}) = Cardinality(Past) - 1
    BY <1>2, <2>1, <2>2, PastFacts, FS_Subset, FS_RemoveElement
  <2>4. /\ Cardinality(Past) \in Nat /\ Cardinality(Past') \in Nat
        /\ Cardinality(Workers) \in Nat
        /\ consecutive \in Nat /\ GiveUpAfter \in Nat /\ consecutive' = consecutive + 1
    BY <1>2, <1>14, PastFacts, PoolAssumption DEF RateLimited, TypeInv, TypeOK
  <2> HIDE DEF Past
  <2> QED
    BY <2>3, <2>4 DEF LimitInv
<1>15. CASE StageError(w)
  BY <1>3, <1>6, <1>15 DEF StageError
<1>16. CASE Commit(w)
  <2>1. consecutive' \in {consecutive, 0}
    BY <1>16 DEF Commit, note_progress
  <2>2. w \notin Past'
    BY <1>5, <1>6, <1>16 DEF Commit
  <2> QED
    BY <1>3, <2>1, <2>2
<1> QED
  BY <1>7, <1>8, <1>9, <1>10, <1>11, <1>12, <1>13, <1>14, <1>15, <1>16 DEF ThreadStep

LEMMA LimitInvHolds == Spec => []LimitInv
<1>1. Init => LimitInv
  <2> SUFFICES ASSUME Init, GiveUpAfter > 0
               PROVE  consecutive + Cardinality(Past) <= GiveUpAfter + Cardinality(Workers) - 1
    BY DEF LimitInv
  <2>1. Past = {} /\ consecutive = 0
    BY DEF Init, Past, Free
  <2>2. Cardinality({}) = 0
    BY FS_EmptySet
  <2>3. Cardinality(Workers) \in Nat /\ GiveUpAfter \in Nat
    BY PoolAssumption, FS_CardinalityType
  <2> QED
    BY <2>1, <2>2, <2>3
<1>2. TypeInv /\ LimitInv /\ [Next]_vars => LimitInv'
  <2> SUFFICES ASSUME TypeInv, LimitInv, [Next]_vars PROVE LimitInv'
    OBVIOUS
  <2>1. ASSUME NEW w \in Workers, ThreadStep(w) PROVE LimitInv'
    BY <2>1, ThreadKeepsLimit
  <2>2. ASSUME UNCHANGED <<thread, consecutive>> PROVE LimitInv'
    <3>1. Past' = Past
      BY <2>2 DEF Past, StageName
    <3> QED
      BY <2>2, <3>1 DEF LimitInv
  <2>3. CASE MainStep \/ Signal \/ PauseEnds \/ Elsewhere \/ UNCHANGED vars
    BY <2>2, <2>3 DEF MainStep, Collect, CollectEnds, Drain, DrainEnds, Join, Signal,
       PauseEnds, Elsewhere, vars, pauseVars
  <2> QED
    BY <2>1, <2>3 DEF Next
<1> QED
  BY <1>1, <1>2, TypeInvHolds, PTL DEF Spec

\* As many threads as can meet the limit before the count stops them.
B == GiveUpAfter + Cardinality(Workers) - 1

\* What the count has lost to resets with no call is made up for by spared.
StreakInv == GiveUpAfter > 0 => streak <= spared * B + consecutive

LEMMA BoundTyped == B \in Int /\ (GiveUpAfter > 0 => B \in Nat)
<1>1. Cardinality(Workers) \in Nat /\ GiveUpAfter \in Nat
  BY PoolAssumption, FS_CardinalityType
<1> QED
  BY <1>1 DEF B

\* The count itself never gets beyond the bound.
LEMMA CountIsBounded ==
    ASSUME TypeInv, LimitInv, GiveUpAfter > 0
    PROVE  consecutive <= B
<1>1. Past \subseteq Workers
  BY DEF Past
<1>2. /\ Cardinality(Past) \in Nat /\ Cardinality(Workers) \in Nat
      /\ GiveUpAfter \in Nat /\ consecutive \in Nat
  BY <1>1, PastFacts, PoolAssumption DEF TypeInv, TypeOK
<1> HIDE DEF Past
<1> QED
  BY <1>2 DEF LimitInv, B

\* A stage that did not raise: a call that got through starts the streak afresh,
\* and a reset without one is paid for by spared.
LEMMA ProgressKeepsStreak ==
    ASSUME TypeInv, LimitInv, StreakInv, NEW w \in Workers, note_progress(w)
    PROVE  StreakInv'
<1> SUFFICES ASSUME GiveUpAfter > 0 PROVE streak' <= spared' * B + consecutive'
  BY BoundTyped DEF StreakInv, B
<1> DEFINE P == spared * B
<1>1. /\ consecutive \in Nat /\ streak \in Nat /\ spared \in Nat /\ B \in Nat
      /\ consecutive <= B /\ P \in Nat
  BY BoundTyped, CountIsBounded DEF TypeInv, TypeOK
<1>2. streak <= P + consecutive
  BY DEF StreakInv
<1>3. (spared + 1) * B = P + B
  BY <1>1
<1>4. consecutive' \in {consecutive, 0}
  BY DEF note_progress
<1>5. CASE w \in called
  <2>1. streak' = 0 /\ spared' = 0
    BY <1>5 DEF note_progress
  <2>2. 0 * B = 0
    BY <1>1
  <2>3. consecutive' \in Nat
    BY <1>1, <1>4
  <2>4. \A c \in Nat : 0 <= 0 + c
    OBVIOUS
  <2> QED
    BY <2>1, <2>2, <2>3, <2>4, Zenon
<1>6. CASE w \notin called /\ consecutive' < consecutive
  <2>1. streak' = streak /\ spared' = spared + 1 /\ consecutive' = 0
    BY <1>1, <1>4, <1>6 DEF note_progress
  <2>2. spared' * B = P + B
    BY <1>3, <2>1
  <2> HIDE DEF P
  <2> QED
    BY <1>1, <1>2, <2>1, <2>2
<1>7. CASE w \notin called /\ ~ consecutive' < consecutive
  <2>1. streak' = streak /\ spared' = spared /\ consecutive' = consecutive
    BY <1>1, <1>4, <1>7 DEF note_progress
  <2> QED
    BY <1>2, <2>1
<1> QED
  BY <1>5, <1>6, <1>7

LEMMA StreakInvHolds == Spec => []StreakInv
<1>1. Init => StreakInv
  <2>1. 0 <= 0 * B + 0
    BY BoundTyped
  <2> QED
    BY <2>1 DEF Init, StreakInv
<1>2. TypeInv /\ LimitInv /\ StreakInv /\ [Next]_vars => StreakInv'
  <2> SUFFICES ASSUME TypeInv, LimitInv, StreakInv, [Next]_vars PROVE StreakInv'
    OBVIOUS
  <2>1. ASSUME UNCHANGED <<consecutive, streak, spared>> PROVE StreakInv'
    BY <2>1 DEF StreakInv, B
  <2>2. ASSUME NEW w \in Workers, ThreadStep(w) PROVE StreakInv'
    <3>1. CASE Read(w)
      BY <2>1, <3>1, ProgressKeepsStreak DEF Read
    <3>2. CASE Commit(w)
      BY <3>2, ProgressKeepsStreak DEF Commit
    <3>3. CASE RateLimited(w)
      <4>1. streak' = streak + 1 /\ consecutive' = consecutive + 1 /\ spared' = spared
        BY <3>3 DEF RateLimited
      <4> DEFINE P == spared * B
      <4>2. /\ streak \in Nat /\ consecutive \in Nat
            /\ GiveUpAfter > 0 => P \in Nat
        BY BoundTyped DEF TypeInv, TypeOK
      <4>3. GiveUpAfter > 0 => streak <= P + consecutive
        BY DEF StreakInv
      <4>4. (GiveUpAfter > 0 => streak' <= P + consecutive') => StreakInv'
        BY <4>1 DEF StreakInv, B
      <4> HIDE DEF P
      <4> QED
        BY <4>1, <4>2, <4>3, <4>4
    <3>4. CASE TakeJob(w) \/ Start(w) \/ Loop(w) \/ Gate(w) \/ Wait(w) \/ Work(w)
                 \/ StageError(w) \/ Final(w)
      BY <2>1, <3>4 DEF TakeJob, Start, Loop, Gate, Wait, Work, StageError, Final, pauseVars
    <3> QED
      BY <2>2, <3>1, <3>2, <3>3, <3>4 DEF ThreadStep
  <2>3. CASE MainStep \/ Signal \/ PauseEnds \/ Elsewhere \/ UNCHANGED vars
    BY <2>1, <2>3 DEF MainStep, Collect, CollectEnds, Drain, DrainEnds, Join, Signal,
       PauseEnds, Elsewhere, vars, pauseVars
  <2> QED
    BY <2>2, <2>3 DEF Next
<1> QED
  BY <1>1, <1>2, TypeInvHolds, LimitInvHolds, PTL DEF Spec

\* A persistent limit is met by give_up_after calls, one for each further thread,
\* and as many again for each reset of the count by a stage that made no call;
\* the count itself never gets beyond that.
THEOREM LimitIsMet ==
    /\ Spec => []LimitIsBounded
    /\ Spec => [](GiveUpAfter > 0 => consecutive <= GiveUpAfter + Cardinality(Workers) - 1)
<1>1. TypeInv /\ LimitInv =>
          (GiveUpAfter > 0 => consecutive <= GiveUpAfter + Cardinality(Workers) - 1)
  BY CountIsBounded DEF B
<1>2. TypeInv /\ LimitInv /\ StreakInv => LimitIsBounded
  <2> SUFFICES ASSUME TypeInv, LimitInv, StreakInv, GiveUpAfter > 0
               PROVE  streak <= (spared + 1) * B
    BY DEF LimitIsBounded, B
  <2> DEFINE P == spared * B
  <2>1. /\ consecutive \in Nat /\ streak \in Nat /\ spared \in Nat /\ B \in Nat
        /\ consecutive <= B /\ P \in Nat
    BY BoundTyped, CountIsBounded DEF TypeInv, TypeOK
  <2>2. streak <= P + consecutive /\ (spared + 1) * B = P + B
    BY <2>1 DEF StreakInv
  <2> HIDE DEF P
  <2> QED
    BY <2>1, <2>2
<1> QED
  BY <1>1, <1>2, TypeInvHolds, LimitInvHolds, StreakInvHolds, PTL

-----------------------------------------------------------------------------
(***************************************************************************)
(* The overshoot.  While the main thread counts, what is reported covered  *)
(* is below the target up to what it has yet to book; afterwards no job is *)
(* queued, and every covered one beyond that was running.                  *)
(***************************************************************************)

Reported == {j \in Jobs : outcome[j] = "covered"}
Running == {j \in Jobs : future[j] = "running"}

\* Those of them the main thread has booked, and has not.
Counted == {j \in booked : outcome[j] = "covered"}
Uncounted == {j \in Unbooked : outcome[j] = "covered"}

Pool ==
    /\ \A j \in Reported : future[j] = "finished"
    /\ \A j \in Running : \E w \in Workers : Busy(w) /\ Job(w) = j
    /\ main # "collect" => \A j \in Jobs : future[j] # "pending"

Bound == Target - 1 + MaxUnbooked + Cardinality(Workers)

Overshoot ==
    /\ main = "collect" =>
          /\ Cardinality(Counted) <= Target - 1
          /\ Cardinality(Uncounted) <= MaxUnbooked
    /\ main # "collect" => Cardinality(Reported) + Cardinality(Running) <= Bound

OvershootInv == Pool /\ (Target > 0 => Overshoot)

LEMMA JobSets ==
    ASSUME NEW S, S \subseteq Jobs
    PROVE  IsFiniteSet(S) /\ Cardinality(S) \in Nat
<1>1. IsFiniteSet(Jobs)
  BY FS_Interval, PoolAssumption DEF Jobs
<1> QED
  BY <1>1, FS_Subset, FS_CardinalityType

LEMMA Sizes ==
    /\ Cardinality(Workers) \in Nat /\ Target \in Nat /\ MaxUnbooked \in Nat \ {0}
    /\ Bound \in Int
BY PoolAssumption, FS_CardinalityType DEF Bound

\* A running job has a thread: no more of them run than there are threads.
LEMMA RunningHaveThreads ==
    ASSUME Pool
    PROVE  Cardinality(Running) <= Cardinality(Workers)
<1> DEFINE held == {w \in Workers : Busy(w) /\ Job(w) \in Running}
           f == [w \in held |-> Job(w)]
<1>1. IsFiniteSet(held) /\ Cardinality(held) <= Cardinality(Workers)
      /\ Cardinality(held) \in Nat /\ Cardinality(Workers) \in Nat
  <2>1. held \subseteq Workers
    OBVIOUS
  <2> HIDE DEF held
  <2> QED
    BY <2>1, PastFacts
<1>2. \A j \in Running : \E w \in held : Job(w) = j
  BY DEF Pool
<1>3. f \in [held -> Running] /\ \A j \in Running : \E w \in held : f[w] = j
  BY <1>2
<1>4. f \in Surjection(held, Running)
  <2> HIDE DEF held, f
  <2> QED
    BY <1>3, Fun_IsSurj
<1>5. Cardinality(Running) <= Cardinality(held)
  <2> HIDE DEF held, f
  <2> QED
    BY <1>1, <1>4, FS_Surjection
<1>6. Cardinality(Running) \in Nat
  BY JobSets DEF Running
<1> HIDE DEF held, Running
<1> QED
  BY <1>1, <1>5, <1>6

\* What is reported is counted or not yet.
LEMMA ReportedSplits ==
    ASSUME TypeInv, Books, Pool
    PROVE  Cardinality(Reported) <= Cardinality(Counted) + Cardinality(Uncounted)
<1>1. Reported = Counted \union Uncounted
  BY DEF Reported, Counted, Uncounted, Unbooked, Pool, TypeInv, TypeOK
<1>2. Counted \subseteq Jobs /\ Uncounted \subseteq Jobs /\ Counted \intersect Uncounted = {}
  BY DEF Counted, Uncounted, Unbooked, TypeInv, TypeOK
<1>3. /\ IsFiniteSet(Counted) /\ IsFiniteSet(Uncounted)
      /\ Cardinality(Counted) \in Nat /\ Cardinality(Uncounted) \in Nat
  BY <1>2, JobSets
<1>4. Cardinality(Counted \union Uncounted)
        = Cardinality(Counted) + Cardinality(Uncounted)
            - Cardinality(Counted \intersect Uncounted)
  BY <1>3, FS_Union
<1>5. Cardinality(Counted \intersect Uncounted) = 0
  BY <1>2, FS_EmptySet
<1> HIDE DEF Counted, Uncounted, Reported
<1> QED
  BY <1>1, <1>2, <1>3, <1>4, <1>5

\* The loop may end at any moment: what then runs is all that can still be added.
LEMMA LoopMayEnd ==
    ASSUME TypeInv, Books, Pool, Target > 0, Overshoot
    PROVE  Cardinality(Reported) + Cardinality(Running) <= Bound
<1>1. CASE main = "collect"
  <2>1. /\ Cardinality(Reported) <= Cardinality(Counted) + Cardinality(Uncounted)
        /\ Cardinality(Running) <= Cardinality(Workers)
        /\ Cardinality(Counted) <= Target - 1 /\ Cardinality(Uncounted) <= MaxUnbooked
    BY <1>1, ReportedSplits, RunningHaveThreads DEF Overshoot
  <2>2. /\ Cardinality(Reported) \in Nat /\ Cardinality(Running) \in Nat
        /\ Cardinality(Counted) \in Nat /\ Cardinality(Uncounted) \in Nat
    <3>1. booked \subseteq Jobs
      BY DEF TypeInv, TypeOK
    <3> QED
      BY <3>1, JobSets DEF Reported, Running, Counted, Uncounted, Unbooked
  <2> HIDE DEF Reported, Running, Counted, Uncounted
  <2> QED
    BY <2>1, <2>2, Sizes DEF Bound
<1>2. CASE main # "collect"
  BY <1>2 DEF Overshoot
<1> QED
  BY <1>1, <1>2

\* Neither set changes.
LEMMA SameSets ==
    ASSUME UNCHANGED <<future, outcome, booked>>
    PROVE  /\ Reported' = Reported /\ Running' = Running
           /\ Counted' = Counted /\ Uncounted' = Uncounted
BY DEF Reported, Running, Counted, Uncounted, Unbooked

\* A job is reported by Final alone, and only while the main thread is not too
\* far behind.
LEMMA OnlyFinalReports ==
    ASSUME TypeInv, Books, NEW w \in Workers, ThreadStep(w), Leaves(w),
           outcome'[Job(w)] # "skipped", main = "collect"
    PROVE  Cardinality(Unbooked) < MaxUnbooked
<1>1. Busy(w) /\ Job(w) \in Jobs /\ future[Job(w)] = "running"
  <2>1. Busy(w)
    BY DEF Leaves
  <2> QED
    BY <2>1 DEF Books, TypeInv, Held, Busy, Job
<1>2. /\ future \in [Jobs -> {"pending", "running", "finished", "cancelled"}]
      /\ outcome \in [Jobs -> ALL \union {"none", "skipped"}]
  BY DEF TypeInv, TypeOK
<1>3. future'[Job(w)] = "finished"
  BY <1>1, <1>2 DEF Leaves
<1>4. ~ TakeJob(w)
  BY <1>1 DEF TakeJob, Busy
<1>5. ~ Start(w)
  <2>1. Start(w) => future' = future \/ outcome' = [outcome EXCEPT ![Job(w)] = "skipped"]
    BY DEF Start
  <2> QED
    BY <1>1, <1>2, <1>3, <2>1
<1>6. ~ (Loop(w) \/ Gate(w) \/ Wait(w) \/ Read(w) \/ Work(w) \/ RateLimited(w)
           \/ StageError(w) \/ Commit(w))
  <2>1. future' # future
    BY <1>1, <1>3
  <2> QED
    BY <2>1 DEF Loop, Gate, Wait, Read, Work, RateLimited, StageError, Commit, jobVars
<1>7. Final(w)
  BY <1>4, <1>5, <1>6 DEF ThreadStep
<1> QED
  BY <1>7 DEF Final

LEMMA ThreadKeepsOvershoot ==
    ASSUME TypeInv, Books, OvershootInv, NEW w \in Workers, ThreadStep(w)
    PROVE  OvershootInv'
<1>0. /\ UNCHANGED <<main, booked, target_reached>>
      /\ \A v \in Workers : v # w => thread'[v] = thread[v]
      /\ TakeJob(w) \/ Continues(w) \/ Leaves(w)
  BY ThreadKinds DEF mainVars
<1>1. /\ future \in [Jobs -> {"pending", "running", "finished", "cancelled"}]
      /\ outcome \in [Jobs -> ALL \union {"none", "skipped"}]
      /\ thread \in [Workers -> ThreadStates] /\ booked \subseteq Jobs
      /\ \A v \in Workers : Busy(v) => Job(v) \in Jobs
  BY DEF TypeInv, TypeOK, Held, Busy, Job
<1>2. \A v \in Workers : v # w => Job(v)' = Job(v) /\ Busy(v)' = Busy(v)
  BY <1>0 DEF Job, Busy
<1>3. CASE TakeJob(w)
  <2>1. PICK j \in Jobs :
          /\ future[j] = "pending" /\ future' = [future EXCEPT ![j] = "running"]
          /\ thread' = [thread EXCEPT ![w] = [Free EXCEPT !.at = "start", !.job = j]]
    BY <1>3 DEF TakeJob
  <2>2. /\ outcome' = outcome /\ thread[w].at = "free"
    BY <1>3 DEF TakeJob
  <2>3. Job(w)' = j /\ Busy(w)' /\ ~ Busy(w)
    BY <1>1, <2>1, <2>2 DEF Job, Free, Busy
  <2>4. future'[j] = "running" /\ \A k \in Jobs : k # j => future'[k] = future[k]
    BY <1>1, <2>1
  <2>5. main = "collect" /\ main' = "collect"
    BY <1>0, <2>1 DEF OvershootInv, Pool
  <2>6. \A k \in Reported' : future'[k] = "finished"
    BY <2>1, <2>2, <2>4 DEF OvershootInv, Pool, Reported
  <2>7. \A k \in Running' : \E v \in Workers : Busy(v)' /\ Job(v)' = k
    <3> SUFFICES ASSUME NEW k \in Running' PROVE \E v \in Workers : Busy(v)' /\ Job(v)' = k
      OBVIOUS
    <3>1. CASE k = j
      BY <2>3, <3>1
    <3>2. CASE k # j
      <4>1. PICK v \in Workers : Busy(v) /\ Job(v) = k
        BY <2>4, <3>2 DEF OvershootInv, Pool, Running
      <4> QED
        BY <1>2, <2>3, <4>1
    <3> QED
      BY <3>1, <3>2
  <2>8. Counted' = Counted /\ Uncounted' \subseteq Uncounted
    BY <1>0, <2>2, <2>4 DEF Counted, Uncounted, Unbooked
  <2>9. Target > 0 => Overshoot'
    <3>1. Uncounted \subseteq Jobs /\ Uncounted' \subseteq Jobs
      BY DEF Uncounted, Unbooked
    <3>2. IsFiniteSet(Uncounted) /\ Cardinality(Uncounted') <= Cardinality(Uncounted)
          /\ Cardinality(Uncounted) \in Nat /\ Cardinality(Uncounted') \in Nat
      BY <2>8, <3>1, JobSets, FS_Subset
    <3> HIDE DEF Uncounted, Counted
    <3> QED
      BY <2>5, <2>8, <3>2, Sizes DEF OvershootInv, Overshoot
  <2> QED
    BY <2>5, <2>6, <2>7, <2>9 DEF OvershootInv, Pool
<1>4. CASE Continues(w)
  <2>1. /\ UNCHANGED <<future, outcome, booked, main>>
        /\ \A v \in Workers : Job(v)' = Job(v) /\ Busy(v)' = Busy(v)
    BY <1>0, <1>4 DEF Continues, Job, Busy
  <2>2. Reported' = Reported /\ Running' = Running
        /\ Counted' = Counted /\ Uncounted' = Uncounted
    BY <2>1, SameSets
  <2> QED
    BY <2>1, <2>2 DEF OvershootInv, Pool, Overshoot, Bound
<1>5. CASE Leaves(w)
  <2> DEFINE j == Job(w)
  <2>1. /\ Busy(w) /\ j \in Jobs /\ future[j] = "running"
        /\ future'[j] = "finished" /\ j \notin booked
        /\ \A k \in Jobs : k # j => future'[k] = future[k]
    BY <1>1, <1>5 DEF Leaves, Books
  <2>2. PICK x \in ALL \union {"skipped"} : outcome' = [outcome EXCEPT ![j] = x]
    BY <1>5 DEF Leaves
  <2>3. \A v \in Workers : v # w => Job(v) # j \/ ~ Busy(v)
    BY <2>1 DEF Books
  <2>4. ~ Busy(w)'
    BY <1>1, <1>5 DEF Leaves, Busy, Free
  <2>a. outcome'[j] = x /\ \A k \in Jobs : k # j => outcome'[k] = outcome[k]
    BY <1>1, <2>1, <2>2
  <2> HIDE DEF j
  <2>5. \A k \in Reported' : future'[k] = "finished"
    BY <2>1, <2>a DEF OvershootInv, Pool, Reported
  <2>6. \A k \in Running' : \E v \in Workers : Busy(v)' /\ Job(v)' = k
    <3> SUFFICES ASSUME NEW k \in Running' PROVE \E v \in Workers : Busy(v)' /\ Job(v)' = k
      OBVIOUS
    <3>1. k # j /\ k \in Running
      BY <2>1 DEF Running
    <3>2. PICK v \in Workers : Busy(v) /\ Job(v) = k
      BY <3>1 DEF OvershootInv, Pool
    <3>3. v # w
      BY <3>1, <3>2 DEF j
    <3> QED
      BY <1>2, <3>2, <3>3
  <2>7. main' # "collect" => \A k \in Jobs : future'[k] # "pending"
    BY <1>0, <2>1 DEF OvershootInv, Pool
  <2>8. ASSUME Target > 0, main = "collect"
        PROVE  Cardinality(Counted') <= Target - 1 /\ Cardinality(Uncounted') <= MaxUnbooked
    <3>1. Counted' = Counted
      BY <1>0, <1>1, <2>1, <2>a DEF Counted
    <3>2. Cardinality(Counted) <= Target - 1 /\ Cardinality(Uncounted) <= MaxUnbooked
      BY <2>8 DEF OvershootInv, Overshoot
    <3>3. CASE x = "skipped"
      <4>1. Uncounted' \subseteq Uncounted
        BY <1>0, <2>1, <2>a, <3>3 DEF Uncounted, Unbooked
      <4>2. Uncounted \subseteq Jobs /\ Uncounted' \subseteq Jobs
        BY DEF Uncounted, Unbooked
      <4>3. Cardinality(Uncounted') <= Cardinality(Uncounted)
            /\ Cardinality(Uncounted) \in Nat /\ Cardinality(Uncounted') \in Nat
        BY <4>1, <4>2, JobSets, FS_Subset
      <4> HIDE DEF Uncounted, Counted
      <4> QED
        BY <3>1, <3>2, <4>3, Sizes
    <3>4. CASE x # "skipped"
      <4>1. Cardinality(Unbooked) < MaxUnbooked
        BY <1>1, <1>5, <2>1, <2>a, <2>8, <3>4, OnlyFinalReports DEF j
      <4>2. Uncounted' \subseteq Unbooked \union {j} /\ j \notin Unbooked
        BY <1>0, <2>1, <2>a DEF Uncounted, Unbooked
      <4>3. Unbooked \subseteq Jobs /\ Uncounted' \subseteq Jobs
        BY DEF Uncounted, Unbooked
      <4>4. IsFiniteSet(Unbooked) /\ Cardinality(Unbooked) \in Nat
            /\ Cardinality(Uncounted') \in Nat
        BY <4>3, JobSets
      <4>5. IsFiniteSet(Unbooked \union {j})
            /\ Cardinality(Unbooked \union {j}) = Cardinality(Unbooked) + 1
        BY <4>2, <4>4, FS_AddElement
      <4>6. Cardinality(Uncounted') <= Cardinality(Unbooked) + 1
        BY <4>2, <4>5, FS_Subset
      <4> HIDE DEF Uncounted, Unbooked, Counted
      <4> QED
        BY <3>1, <3>2, <4>1, <4>4, <4>6, Sizes
    <3> QED
      BY <3>3, <3>4
  <2>9. ASSUME Target > 0, main # "collect"
        PROVE  Cardinality(Reported') + Cardinality(Running') <= Bound
    <3>1. Running' = Running \ {j} /\ j \in Running
      BY <2>1 DEF Running
    <3>2. Reported' \subseteq Reported \union {j} /\ j \notin Reported
      BY <2>1, <2>a DEF Reported, OvershootInv, Pool
    <3>3. Running \subseteq Jobs /\ Reported \subseteq Jobs /\ Reported' \subseteq Jobs
      BY DEF Running, Reported
    <3>4. /\ IsFiniteSet(Running) /\ IsFiniteSet(Reported)
          /\ Cardinality(Running) \in Nat /\ Cardinality(Reported) \in Nat
          /\ Cardinality(Reported') \in Nat
      BY <3>3, JobSets
    <3>5. Cardinality(Running') = Cardinality(Running) - 1
      BY <3>1, <3>4, FS_RemoveElement
    <3>6. IsFiniteSet(Reported \union {j})
          /\ Cardinality(Reported \union {j}) = Cardinality(Reported) + 1
      BY <3>2, <3>4, FS_AddElement
    <3>7. Cardinality(Reported') <= Cardinality(Reported) + 1
      BY <3>2, <3>6, FS_Subset
    <3>8. Cardinality(Reported) + Cardinality(Running) <= Bound
      BY <2>9 DEF OvershootInv, Overshoot
    <3> HIDE DEF Reported, Running
    <3> QED
      BY <3>4, <3>5, <3>7, <3>8, Sizes
  <2> QED
    BY <1>0, <2>5, <2>6, <2>7, <2>8, <2>9 DEF OvershootInv, Pool, Overshoot, Bound
<1> QED
  BY <1>0, <1>3, <1>4, <1>5

\* Cancelling what is queued leaves running and reported jobs as they are.
LEMMA CancelKeepsSets ==
    ASSUME TypeInv, CancelQueued, outcome' = outcome
    PROVE  /\ Reported' = Reported /\ Running' = Running
           /\ \A j \in Jobs : future'[j] # "pending"
           /\ \A j \in Jobs : future[j] = "finished" => future'[j] = "finished"
BY DEF CancelQueued, Reported, Running, TypeInv, TypeOK

\* The main thread stops counting, whatever for.
LEMMA LoopEnds ==
    ASSUME TypeInv, Books, OvershootInv, UNCHANGED <<thread, outcome>>,
           CancelQueued \/ (future' = future /\ \A j \in Jobs : future[j] # "pending"),
           main' # "collect"
    PROVE  OvershootInv'
<1>1. /\ Reported' = Reported /\ Running' = Running
      /\ \A j \in Jobs : future'[j] # "pending"
      /\ \A j \in Jobs : future[j] = "finished" => future'[j] = "finished"
  <2>1. CASE CancelQueued
    BY <2>1, CancelKeepsSets
  <2>2. CASE future' = future /\ \A j \in Jobs : future[j] # "pending"
    BY <2>2 DEF Reported, Running
  <2> QED
    BY <2>1, <2>2
<1>2. \A v \in Workers : Busy(v)' = Busy(v) /\ Job(v)' = Job(v)
  BY DEF Busy, Job
<1>3. Pool'
  <2>1. \A j \in Reported' : future'[j] = "finished"
    BY <1>1 DEF OvershootInv, Pool, Reported
  <2>2. \A j \in Running' : \E w \in Workers : Busy(w)' /\ Job(w)' = j
    BY <1>1, <1>2 DEF OvershootInv, Pool
  <2> QED
    BY <1>1, <2>1, <2>2 DEF Pool
<1>4. Target > 0 => Overshoot'
  BY <1>1, LoopMayEnd DEF OvershootInv, Overshoot, Bound
<1> QED
  BY <1>3, <1>4 DEF OvershootInv

LEMMA MainKeepsOvershoot ==
    ASSUME TypeInv, Books, OvershootInv, MainStep
    PROVE  OvershootInv'
<1>0. UNCHANGED <<thread, outcome>>
  BY DEF MainStep, Collect, CollectEnds, Drain, DrainEnds, Join, jobVars
<1>1. ASSUME UNCHANGED future, main # "collect", main' # "collect"
      PROVE  OvershootInv'
  BY <1>0, <1>1, LoopEnds DEF OvershootInv, Pool
<1>2. CASE Collect
  <2>1. PICK j \in Unbooked :
          /\ booked' = booked \union {j}
          /\ \/ /\ HitsTarget(booked')
                /\ target_reached' = TRUE
                /\ SetStop
                /\ CancelQueued
                /\ main' = "drain"
             \/ /\ ~ HitsTarget(booked')
                /\ UNCHANGED <<target_reached, stopVars, future, main>>
    BY <1>2 DEF Collect
  <2>2. CASE CancelQueued /\ main' = "drain"
    BY <1>0, <2>2, LoopEnds
  <2>3. CASE ~ HitsTarget(booked') /\ UNCHANGED <<target_reached, stopVars, future, main>>
    <3>1. main = "collect" /\ j \in Jobs /\ booked \subseteq Jobs /\ booked' \subseteq Jobs
      BY <1>2, <2>1 DEF Collect, Unbooked, TypeInv, TypeOK
    <3>2. Pool'
      <4>1. Reported' = Reported /\ Running' = Running
        BY <1>0, <2>3 DEF Reported, Running
      <4>2. \A v \in Workers : Busy(v)' = Busy(v) /\ Job(v)' = Job(v)
        BY <1>0 DEF Busy, Job
      <4> QED
        BY <2>3, <4>1, <4>2 DEF OvershootInv, Pool
    <3>3. Counted' = {k \in booked' : outcome[k] = "covered"} /\ Uncounted' \subseteq Uncounted
      BY <1>0, <2>1, <2>3 DEF Counted, Uncounted, Unbooked
    <3>4. ASSUME Target > 0
          PROVE  Cardinality(Counted') <= Target - 1 /\ Cardinality(Uncounted') <= MaxUnbooked
      <4>1. /\ Counted' \subseteq Jobs /\ Uncounted \subseteq Jobs /\ Uncounted' \subseteq Jobs
        BY <3>1 DEF Counted, Uncounted, Unbooked
      <4>2. /\ Cardinality(Counted') \in Nat /\ Cardinality(Uncounted') \in Nat
            /\ Cardinality(Uncounted) \in Nat
            /\ Cardinality(Uncounted') <= Cardinality(Uncounted)
        BY <3>3, <4>1, JobSets, FS_Subset
      <4>3. ~ (Cardinality(Counted') >= Target)
        BY <2>3, <3>3, <3>4 DEF HitsTarget, CoveredIn
      <4>4. Cardinality(Uncounted) <= MaxUnbooked
        BY <3>1, <3>4 DEF OvershootInv, Overshoot
      <4> HIDE DEF Counted, Uncounted
      <4> QED
        BY <4>2, <4>3, <4>4, Sizes
    <3> QED
      BY <2>3, <3>1, <3>2, <3>4 DEF OvershootInv, Overshoot
  <2> QED
    BY <2>1, <2>2, <2>3
<1>3. CASE CollectEnds
  <2>1. \A j \in Jobs : future[j] # "pending"
    BY <1>3 DEF CollectEnds, Books
  <2>2. future' = future /\ main' # "collect"
    BY <1>3 DEF CollectEnds, jobVars
  <2> QED
    BY <1>0, <2>1, <2>2, LoopEnds
<1>4. CASE Drain \/ DrainEnds \/ Join
  BY <1>1, <1>4 DEF Drain, DrainEnds, Join, jobVars
<1> QED
  BY <1>2, <1>3, <1>4 DEF MainStep

\* However the drive ends, the jobs it covers beyond its target are no more than
\* its threads and what the main thread has yet to book.
THEOREM BoundedOvershoot == Spec => []OvershootIsBounded
<1>1. Init => OvershootInv
  <2> SUFFICES ASSUME Init PROVE OvershootInv
    OBVIOUS
  <2>1. /\ Reported = {} /\ Running = {} /\ Counted = {} /\ Uncounted = {}
        /\ main = "collect"
    BY DEF Init, Reported, Running, Counted, Uncounted, Unbooked
  <2>2. Cardinality({}) = 0
    BY FS_EmptySet
  <2>3. Pool
    BY <2>1 DEF Pool
  <2>4. Target > 0 => Overshoot
    BY <2>1, <2>2, Sizes DEF Overshoot
  <2> QED
    BY <2>3, <2>4 DEF OvershootInv
<1>2. TypeInv /\ Books /\ OvershootInv /\ [Next]_vars => OvershootInv'
  <2> SUFFICES ASSUME TypeInv, Books, OvershootInv, [Next]_vars PROVE OvershootInv'
    OBVIOUS
  <2>1. ASSUME NEW w \in Workers, ThreadStep(w) PROVE OvershootInv'
    BY <2>1, ThreadKeepsOvershoot
  <2>2. CASE MainStep
    BY <2>2, MainKeepsOvershoot
  <2>3. ASSUME UNCHANGED <<future, outcome, thread, booked, main>>
        PROVE  OvershootInv'
    <3>1. /\ Reported' = Reported /\ Running' = Running
          /\ Counted' = Counted /\ Uncounted' = Uncounted
      BY <2>3, SameSets
    <3>2. \A v \in Workers : Busy(v)' = Busy(v) /\ Job(v)' = Job(v)
      BY <2>3 DEF Busy, Job
    <3> QED
      BY <2>3, <3>1, <3>2 DEF OvershootInv, Pool, Overshoot, Bound
  <2>4. CASE Signal
    <3>1. UNCHANGED <<thread, outcome, booked>>
      BY <2>4 DEF Signal
    <3>2. UNCHANGED <<future, main>> \/ (CancelQueued /\ main' # "collect")
      BY <2>4 DEF Signal
    <3> QED
      BY <2>3, <3>1, <3>2, LoopEnds
  <2>5. CASE PauseEnds \/ Elsewhere \/ UNCHANGED vars
    BY <2>3, <2>5 DEF PauseEnds, Elsewhere, vars, jobVars, mainVars
  <2> QED
    BY <2>1, <2>2, <2>4, <2>5 DEF Next
<1>3. TypeInv /\ Books /\ OvershootInv => OvershootIsBounded
  <2> SUFFICES ASSUME TypeInv, Books, OvershootInv, Target > 0
               PROVE  Cardinality(CoveredHere) <= Target - 1 + MaxUnbooked + Cardinality(Workers)
    BY DEF OvershootIsBounded
  <2>1. Cardinality(Reported) + Cardinality(Running) <= Bound
    BY LoopMayEnd DEF OvershootInv
  <2>2. Reported \subseteq Jobs /\ Running \subseteq Jobs /\ CoveredHere \subseteq Jobs
        /\ Reported \intersect Running = {}
    BY DEF Reported, Running, CoveredHere, OvershootInv, Pool
  <2>3. CoveredHere \subseteq Reported \union Running
    BY DEF CoveredHere, Reported, Running
  <2>4. /\ IsFiniteSet(Reported) /\ IsFiniteSet(Running) /\ Cardinality(CoveredHere) \in Nat
        /\ Cardinality(Reported) \in Nat /\ Cardinality(Running) \in Nat
    BY <2>2, JobSets
  <2>5. /\ IsFiniteSet(Reported \union Running)
        /\ Cardinality(Reported \union Running)
             = Cardinality(Reported) + Cardinality(Running) - Cardinality(Reported \intersect Running)
    BY <2>4, FS_Union
  <2>6. Cardinality(CoveredHere) <= Cardinality(Reported \union Running)
    BY <2>3, <2>5, FS_Subset
  <2>7. Cardinality(Reported \intersect Running) = 0
    BY <2>2, FS_EmptySet
  <2> HIDE DEF Reported, Running, CoveredHere
  <2> QED
    BY <2>1, <2>2, <2>4, <2>5, <2>6, <2>7, Sizes DEF Bound
<1> QED
  BY <1>1, <1>2, <1>3, TypeInvHolds, BooksHold, PTL DEF Spec
=============================================================================
