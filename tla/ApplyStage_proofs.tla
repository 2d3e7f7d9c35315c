--------------------------- MODULE ApplyStage_proofs ---------------------------
(***************************************************************************)
(* Proofs about ApplyStage: for any number of jobs and of apply runs beside *)
(* each other, any caps and any canary.                                    *)
(***************************************************************************)
EXTENDS ApplyStage, FiniteSetTheorems, FunctionTheorems, SequenceTheorems, TLAPS

-----------------------------------------------------------------------------
(* The queue *)

StrictlyOrders(R, S) ==
    /\ \A i \in S : <<i, i>> \notin R
    /\ \A i, j \in S : i # j => <<i, j>> \in R \/ <<j, i>> \in R
    /\ \A i, j, k \in S : <<i, j>> \in R /\ <<j, k>> \in R => <<i, k>> \in R

\* One more than the number of elements before an element of an ordered set is its
\* position: every position is taken once.
LEMMA Positions ==
    ASSUME NEW S, IsFiniteSet(S), NEW R, StrictlyOrders(R, S)
    PROVE  [j \in S |-> Cardinality({i \in S : <<i, j>> \in R}) + 1]
               \in Bijection(S, 1..Cardinality(S))
<1> DEFINE Below(j) == {i \in S : <<i, j>> \in R}
           p == [j \in S |-> Cardinality(Below(j)) + 1]
<1>1. \A j \in S : IsFiniteSet(Below(j)) /\ Cardinality(Below(j)) \in Nat
  BY FS_Subset, FS_CardinalityType
<1>2. Cardinality(S) \in Nat
  BY FS_CardinalityType
<1>3. \A j \in S : p[j] \in 1..Cardinality(S)
  <2> TAKE j \in S
  <2>1. IsFiniteSet(S \ {j}) /\ Cardinality(S \ {j}) = Cardinality(S) - 1
    BY FS_RemoveElement
  <2>2. Below(j) \subseteq S \ {j}
    BY DEF StrictlyOrders
  <2>3. Cardinality(Below(j)) <= Cardinality(S) - 1
    BY <2>1, <2>2, FS_Subset
  <2> QED
    BY <1>1, <1>2, <2>3
<1>4. \A i, j \in S : <<i, j>> \in R => p[i] < p[j]
  <2> SUFFICES ASSUME NEW i \in S, NEW j \in S, <<i, j>> \in R PROVE p[i] < p[j]
    OBVIOUS
  <2>1. i \notin Below(i)
    BY DEF StrictlyOrders
  <2>2. IsFiniteSet(Below(i) \union {i})
        /\ Cardinality(Below(i) \union {i}) = Cardinality(Below(i)) + 1
    BY <1>1, <2>1, FS_AddElement
  <2>3. Below(i) \union {i} \subseteq Below(j)
    BY DEF StrictlyOrders
  <2>4. Cardinality(Below(i) \union {i}) <= Cardinality(Below(j))
    BY <1>1, <2>3, FS_Subset
  <2>5. p[i] = Cardinality(Below(i)) + 1 /\ p[j] = Cardinality(Below(j)) + 1
    OBVIOUS
  <2> HIDE DEF p, Below
  <2> QED
    BY <1>1, <2>2, <2>4, <2>5
<1>5. \A i, j \in S : p[i] = p[j] => i = j
  <2> HIDE DEF p
  <2>1. \A i, j \in S : i # j => p[i] < p[j] \/ p[j] < p[i]
    BY <1>4 DEF StrictlyOrders
  <2> QED
    BY <1>2, <1>3, <2>1
<1>6. p \in Injection(S, 1..Cardinality(S))
  <2>1. p \in [S -> 1..Cardinality(S)]
    BY <1>3
  <2> HIDE DEF p
  <2> QED
    BY <2>1, <1>5, Fun_IsInj
<1>7. IsFiniteSet(1..Cardinality(S)) /\ Cardinality(1..Cardinality(S)) = Cardinality(S)
  BY <1>2, FS_Interval
<1>8. p \in Surjection(S, 1..Cardinality(S))
  BY <1>6, <1>7, FS_Injection
<1> QED
  BY <1>6, <1>8 DEF Bijection

\* The order in which a query may list jobs.
ListedPairs(S, byStatus) == {r \in S \X S : Listed(byStatus, r[1], r[2])}

LEMMA ListedOrders ==
    ASSUME NEW S, S \subseteq InQueue, NEW byStatus \in BOOLEAN
    PROVE  StrictlyOrders(ListedPairs(S, byStatus), S)
<1>1. \A i \in S : i \in Nat /\ status[i] \in {"covered", "dry_run_completed"}
  BY DEF InQueue, QUEUED, Jobs
<1>2. \A i, j \in S : <<i, j>> \in ListedPairs(S, byStatus) <=> Listed(byStatus, i, j)
  BY DEF ListedPairs
<1> QED
  BY <1>1, <1>2 DEF StrictlyOrders, Listed

LEMMA JobsFinite == IsFiniteSet(Jobs) /\ Cardinality(Jobs) = NJobs
BY ApplyAssumption, FS_Interval DEF Jobs, ApplyAssumption

\* What a run takes its jobs from holds every job that is queued, and each once.
LEMMA QueueHoldsEachOnce ==
    ASSUME NEW S, S \subseteq InQueue, NEW byStatus \in BOOLEAN
    PROVE  Interleaved(S, byStatus) \in Bijection(1..Cardinality(S), S)
<1> DEFINE Before(i, j) == Listed(byStatus, i, j)
           Roles(j) == {i \in S : Company[i] = Company[j]}
           Rank(j) == Cardinality({i \in S : Company[i] = Company[j] /\ Before(i, j)})
           First(j) == CHOOSE i \in S : Company[i] = Company[j] /\ Rank(i) = 0
           Precedes(i, j) == \/ Rank(i) < Rank(j)
                             \/ Rank(i) = Rank(j) /\ Before(First(i), First(j))
           Position(j) == Cardinality({i \in S : Precedes(i, j)}) + 1
           R == {r \in S \X S : Precedes(r[1], r[2])}
           p == [j \in S |-> Cardinality({i \in S : <<i, j>> \in R}) + 1]
           q == [n \in 1..Cardinality(S) |-> CHOOSE j \in S : Position(j) = n]
<1>1. IsFiniteSet(S) /\ S \subseteq Jobs
  BY JobsFinite, FS_Subset DEF InQueue
<1>2. \A j \in S : Rank(j) \in Nat
  BY <1>1, FS_Subset, FS_CardinalityType
<1> DEFINE Listing == ListedPairs(S, byStatus)
<1>0. StrictlyOrders(Listing, S) /\ \A i, j \in S : <<i, j>> \in Listing <=> Before(i, j)
  BY ListedOrders DEF ListedPairs
<1>3. \A i, j \in S : Before(i, j) => ~Before(j, i) /\ i # j
  <2> HIDE DEF Listing, Before
  <2> QED
    BY <1>0 DEF StrictlyOrders
<1>4. \A i, j \in S : i # j => Before(i, j) \/ Before(j, i)
  <2> HIDE DEF Listing, Before
  <2> QED
    BY <1>0 DEF StrictlyOrders
<1>5. \A i, j, k \in S : Before(i, j) /\ Before(j, k) => Before(i, k)
  <2> HIDE DEF Listing, Before
  <2> QED
    BY <1>0 DEF StrictlyOrders
<1>6. ASSUME NEW k \in S
      PROVE  /\ \A i, j \in Roles(k) : Rank(i) = Rank(j) => i = j
             /\ \E i \in Roles(k) : Rank(i) = 0
  <2> DEFINE T == Roles(k)
             L == ListedPairs(T, byStatus)
             f == [j \in T |-> Cardinality({i \in T : <<i, j>> \in L}) + 1]
  <2>1. T \subseteq InQueue /\ IsFiniteSet(T) /\ k \in T
    BY <1>1, FS_Subset
  <2>2. f \in Bijection(T, 1..Cardinality(T))
    BY <2>1, ListedOrders, Positions
  <2>3. \A j \in T : {i \in T : <<i, j>> \in L} = {i \in S : Company[i] = Company[j] /\ Before(i, j)}
    BY DEF ListedPairs
  <2>4. \A j \in T : f[j] = Rank(j) + 1
    BY <2>3
  <2>5. Cardinality(T) \in Nat /\ Cardinality(T) # 0
    BY <2>1, FS_CardinalityType, FS_EmptySet
  <2>6. 1 \in 1..Cardinality(T)
    BY <2>5
  <2> HIDE DEF T, f, L
  <2>7. /\ \A i, j \in T : f[i] = f[j] => i = j
        /\ \E i \in T : f[i] = 1
    BY <2>2, <2>6 DEF Bijection, Injection, Surjection, IsInjective
  <2>8. T \subseteq S
    BY DEF T
  <2>9. \A i, j \in T : Rank(i) = Rank(j) => i = j
    BY <2>4, <2>7
  <2>10. \E i \in T : Rank(i) = 0
    BY <2>4, <2>7, <2>8, <1>2
  <2> QED
    BY <2>9, <2>10 DEF T
<1>7. \A j \in S : First(j) \in S /\ Company[First(j)] = Company[j]
  <2> TAKE j \in S
  <2>1. \E i \in S : Company[i] = Company[j] /\ Rank(i) = 0
    BY <1>6
  <2> HIDE DEF Rank
  <2> QED
    BY <2>1
<1>8. \A i, j \in S : Company[i] = Company[j] /\ Rank(i) = Rank(j) => i = j
  BY <1>6
<1>9. StrictlyOrders(R, S)
  <2> HIDE DEF Rank, First, Before
  <2>1. \A i \in S : ~Precedes(i, i)
    BY <1>2, <1>3, <1>7
  <2>2. \A i, j \in S : i # j => Precedes(i, j) \/ Precedes(j, i)
    BY <1>2, <1>4, <1>7, <1>8
  <2>3. \A i, j, k \in S : Precedes(i, j) /\ Precedes(j, k) => Precedes(i, k)
    BY <1>2, <1>5, <1>7
  <2>4. \A i, j \in S : <<i, j>> \in R <=> Precedes(i, j)
    OBVIOUS
  <2> HIDE DEF R, Precedes
  <2> QED
    BY <2>1, <2>2, <2>3, <2>4 DEF StrictlyOrders
<1>10. p \in Bijection(S, 1..Cardinality(S))
  <2> HIDE DEF R
  <2> QED
    BY <1>1, <1>9, Positions
<1>11. \A j \in S : p[j] = Position(j)
  <2> HIDE DEF Precedes
  <2>1. \A j \in S : {i \in S : <<i, j>> \in R} = {i \in S : Precedes(i, j)}
    OBVIOUS
  <2> QED
    BY <2>1
<1>12. q \in Bijection(1..Cardinality(S), S)
  <2> HIDE DEF Position, p
  <2>1. \A n \in 1..Cardinality(S) : \E j \in S : Position(j) = n
    BY <1>10, <1>11 DEF Bijection, Surjection
  <2>2. \A n \in 1..Cardinality(S) : q[n] \in S /\ Position(q[n]) = n
    BY <2>1
  <2>3. \A j \in S : Position(j) \in 1..Cardinality(S)
    BY <1>10, <1>11 DEF Bijection, Injection
  <2>4. \A i, j \in S : Position(i) = Position(j) => i = j
    BY <1>10, <1>11 DEF Bijection, Injection, IsInjective
  <2>5. \A j \in S : q[Position(j)] = j
    BY <2>2, <2>3, <2>4
  <2>6. q \in [1..Cardinality(S) -> S]
    BY <2>2
  <2>7. \A a, b \in 1..Cardinality(S) : q[a] = q[b] => a = b
    BY <2>2
  <2>8. \A j \in S : \E n \in 1..Cardinality(S) : q[n] = j
    BY <2>3, <2>5
  <2> HIDE DEF q
  <2> QED
    BY <2>6, <2>7, <2>8, Fun_IsBij
<1>13. Interleaved(S, byStatus) = q
  BY DEF Interleaved
<1> QED
  BY <1>12, <1>13

LEMMA QueueIsASequence ==
    ASSUME NEW byStatus \in BOOLEAN
    PROVE  /\ Interleaved(InQueue, byStatus) \in Seq(Jobs)
           /\ Len(Interleaved(InQueue, byStatus)) \in 0..NJobs
<1>1. IsFiniteSet(InQueue) /\ InQueue \subseteq Jobs /\ Cardinality(InQueue) \in 0..NJobs
  <2>1. InQueue \subseteq Jobs
    BY DEF InQueue
  <2>2. IsFiniteSet(InQueue) /\ Cardinality(InQueue) <= NJobs
    BY <2>1, JobsFinite, FS_Subset
  <2>3. Cardinality(InQueue) \in Nat
    BY <2>2, FS_CardinalityType
  <2> QED
    BY <2>1, <2>2, <2>3, ApplyAssumption DEF ApplyAssumption
<1>2. Interleaved(InQueue, byStatus) \in [1..Cardinality(InQueue) -> Jobs]
  BY <1>1, QueueHoldsEachOnce DEF Bijection, Injection
<1> QED
  BY <1>1, <1>2, IsASeq, LenProperties

-----------------------------------------------------------------------------
(* Types, and what the runs hold *)

Records == [job : Jobs, status : REPORTS, at : 0..MaxNow]
Submissions == [job : Jobs, at : 0..MaxNow, dry : BOOLEAN, report : REPORTS,
                recorded : BOOLEAN]

Working == {"gate", "agent", "persist"}

\* A run counts each job it has taken once, has one whenever it works, and knows a
\* submission of its own, and a report, only until they are written.
ApplyInv ==
    /\ TypeOK
    /\ \A c \in Consumers : run[c] # Idle =>
         /\ run[c].processed + Len(run[c].queue) <= NJobs
         /\ run[c].at \in Working => run[c].queue # <<>>
         /\ run[c].at = "persist" => run[c].report # "none"
         /\ run[c].at # "persist" => run[c].submission = 0
         /\ run[c].submission <= Len(sent)

LEMMA ApplyNumbers ==
    /\ NJobs \in Nat /\ MaxNow \in Nat /\ MaxDisturbances \in Nat
    /\ DailyCap \in Nat /\ CompanyDailyCap \in Nat /\ CompanyTotalCap \in Nat
BY ApplyAssumption DEF ApplyAssumption

LEMMA IdleIsNoRun == Idle \notin Runs /\ Idle.at = "idle"
BY DEF Idle, Runs

LEMMA WorkingIsARun ==
    ASSUME ApplyInv, NEW c \in Consumers, run[c].at # "idle"
    PROVE  run[c] \in Runs /\ run[c] # Idle
BY IdleIsNoRun DEF ApplyInv, TypeOK

\* Only c's run changes, to r.
Becomes(c, r) ==
    /\ run' \in [Consumers -> Runs \union {Idle}]
    /\ run'[c] = r
    /\ \A d \in Consumers \ {c} : run'[d] = run[d]

LEMMA RunBecomes ==
    ASSUME ApplyInv, NEW c \in Consumers, NEW r \in Runs \union {Idle}, run' = [run EXCEPT ![c] = r]
    PROVE  Becomes(c, r)
BY DEF ApplyInv, TypeOK, Becomes

LEMMA TheJobIsAJob ==
    ASSUME ApplyInv, NEW c \in Consumers, run[c] \in Runs, run[c].queue # <<>>
    PROVE  /\ TheJob(c) \in Jobs
           /\ Tail(run[c].queue) \in Seq(Jobs)
           /\ Len(Tail(run[c].queue)) = Len(run[c].queue) - 1
           /\ Len(run[c].queue) \in Nat
<1>1. run[c].queue \in Seq(Jobs)
  BY DEF Runs
<1> QED
  BY <1>1, HeadTailProperties, LenProperties DEF TheJob

\* The run after it has done with a job.
Advanced(r) ==
    [r EXCEPT !.at = "next", !.queue = Tail(@), !.report = "none",
              !.submission = 0, !.dry = TRUE, !.processed = @ + 1]

LEMMA AdvancedIs ==
    ASSUME NEW r \in Runs, Tail(r.queue) \in Seq(Jobs), r.processed + 1 \in 0..NJobs
    PROVE  /\ Advanced(r) \in Runs
           /\ Advanced(r).at = "next" /\ Advanced(r).queue = Tail(r.queue)
           /\ Advanced(r).submission = 0 /\ Advanced(r).processed = r.processed + 1
BY DEF Advanced, Runs

LEMMA AdvanceDoes ==
    ASSUME ApplyInv, NEW c \in Consumers, run[c] \in Runs, run[c].queue # <<>>, Advance(c)
    PROVE  /\ Becomes(c, Advanced(run[c]))
           /\ Advanced(run[c]) \in Runs /\ Advanced(run[c]) # Idle
           /\ Advanced(run[c]).at = "next"
           /\ Advanced(run[c]).submission = 0
           /\ Advanced(run[c]).processed + Len(Advanced(run[c]).queue) <= NJobs
<1> DEFINE r == run[c]
<1>1. r.processed \in Nat /\ r.processed + Len(r.queue) <= NJobs
  BY IdleIsNoRun DEF ApplyInv, Runs
<1>2. /\ Tail(r.queue) \in Seq(Jobs)
      /\ Len(Tail(r.queue)) = Len(r.queue) - 1 /\ Len(r.queue) \in Nat
  BY TheJobIsAJob
<1>3. Len(Tail(r.queue)) \in Nat
  BY <1>2, LenProperties
<1>4. r.processed + 1 \in 0..NJobs /\ r.processed + 1 + Len(Tail(r.queue)) <= NJobs
  BY <1>1, <1>2, <1>3, ApplyNumbers
<1>5. /\ Advanced(r) \in Runs
      /\ Advanced(r).at = "next" /\ Advanced(r).queue = Tail(r.queue)
      /\ Advanced(r).submission = 0 /\ Advanced(r).processed = r.processed + 1
  BY <1>2, <1>4, AdvancedIs
<1>8. run' = [run EXCEPT ![c] = Advanced(run[c])]
  BY DEF Advance, Advanced, ApplyInv, TypeOK
<1>9. Becomes(c, Advanced(run[c]))
  BY <1>5, <1>8, RunBecomes
<1> QED
  BY <1>4, <1>5, <1>9, IdleIsNoRun

LEMMA StartDoes ==
    ASSUME ApplyInv, NEW c \in Consumers, NEW mode \in Modes, StartRun(c, mode)
    PROVE  \E r \in Runs : /\ Becomes(c, r)
                           /\ r.at = "next" /\ r.submission = 0 /\ r.processed = 0
                           /\ Len(r.queue) \in 0..NJobs
<1>1. PICK byStatus \in BOOLEAN :
         run' = [run EXCEPT ![c] =
                    [at |-> "next", mode |-> mode, queue |-> Interleaved(InQueue, byStatus),
                     processed |-> 0, dry |-> TRUE, report |-> "none", submission |-> 0]]
  BY DEF StartRun
<1> DEFINE r == [at |-> "next", mode |-> mode, queue |-> Interleaved(InQueue, byStatus),
                 processed |-> 0, dry |-> TRUE, report |-> "none", submission |-> 0]
<1>2. mode \in RunModes
  BY ApplyAssumption DEF ApplyAssumption
<1>3. /\ Interleaved(InQueue, byStatus) \in Seq(Jobs)
      /\ Len(Interleaved(InQueue, byStatus)) \in 0..NJobs
  BY QueueIsASequence
<1>4. r \in Runs
  BY <1>2, <1>3, ApplyNumbers DEF Runs
<1>5. Becomes(c, r)
  BY <1>1, <1>4, RunBecomes
<1> QED
  BY <1>3, <1>4, <1>5

LEMMA AdmitDoes ==
    ASSUME ApplyInv, NEW c \in Consumers, Admit(c)
    PROVE  /\ run[c] \in Runs /\ run[c] # Idle /\ run[c].queue # <<>> /\ run[c].at = "next"
           /\ \E r \in Runs : /\ Becomes(c, r)
                              /\ r.at = "gate" /\ r.queue = run[c].queue
                              /\ r.submission = run[c].submission
                              /\ r.processed = run[c].processed
                              /\ r.mode = "dry" => r.dry
<1>1. run[c] \in Runs /\ run[c] # Idle /\ run[c].queue # <<>> /\ run[c].at = "next"
  BY WorkingIsARun DEF Admit, Passes, AtJob
<1> DEFINE dry == \/ run[c].mode = "dry"
                  \/ run[c].mode = "guarded" /\ run[c].processed < FirstN
           r == [run[c] EXCEPT !.at = "gate", !.dry = dry]
<1>2. run' = [run EXCEPT ![c] = r]
  BY DEF Admit, ApplyInv, TypeOK
<1>3. dry \in BOOLEAN
  OBVIOUS
<1>4. /\ r \in Runs /\ r.at = "gate" /\ r.queue = run[c].queue
      /\ r.submission = run[c].submission /\ r.processed = run[c].processed /\ r.dry = dry
      /\ r.mode = run[c].mode
  <2> HIDE DEF dry
  <2> QED
    BY <1>1, <1>3 DEF Runs
<1>5. Becomes(c, r)
  BY <1>2, <1>4, RunBecomes
<1> QED
  BY <1>1, <1>4, <1>5

LEMMA GateDoes ==
    ASSUME ApplyInv, NEW c \in Consumers, Gate(c)
    PROVE  /\ run[c] \in Runs /\ run[c] # Idle /\ run[c].queue # <<>> /\ run[c].at = "gate"
           /\ \E r \in Runs : /\ Becomes(c, r)
                              /\ r.at = "agent" /\ r.queue = run[c].queue
                              /\ r.submission = run[c].submission
                              /\ r.processed = run[c].processed
                              /\ r.mode = run[c].mode
                              /\ r.dry = (run[c].dry \/ DailyCapReached)
<1>1. run[c] \in Runs /\ run[c] # Idle /\ run[c].queue # <<>> /\ run[c].at = "gate"
  BY WorkingIsARun DEF Gate, ApplyInv, Working
<1> DEFINE dry == run[c].dry \/ DailyCapReached
           r == [run[c] EXCEPT !.at = "agent", !.dry = dry]
<1>2. run' = [run EXCEPT ![c] = r]
  BY DEF Gate, ApplyInv, TypeOK
<1>3. dry \in BOOLEAN
  BY <1>1 DEF Runs, DailyCapReached
<1>4. /\ r \in Runs /\ r.at = "agent" /\ r.queue = run[c].queue
      /\ r.submission = run[c].submission /\ r.processed = run[c].processed /\ r.dry = dry
      /\ r.mode = run[c].mode
  <2> HIDE DEF dry
  <2> QED
    BY <1>1, <1>3 DEF Runs
<1>5. Becomes(c, r)
  BY <1>2, <1>4, RunBecomes
<1> QED
  BY <1>1, <1>4, <1>5

\* The slips under which every submission is reported as one.
Faithful == Slips \subseteq {"finished_by_hand", "held_back"}

\* What an outcome's report says of whether it submits.
LEMMA OutcomesAre ==
    ASSUME NEW dry \in BOOLEAN, NEW o \in AgentMay(dry)
    PROVE  /\ o.report \in REPORTS /\ o.submits \in BOOLEAN
           /\ Faithful => /\ o.submits <=> o.report = "applied"
                          /\ o.report \notin {"submitted", "odd"}
<1>1. \/ o \in Outcomes({"needs_human", "failed"}, {FALSE})
      \/ o \in Outcomes({"dry_run_completed"}, {FALSE})
      \/ o \in Outcomes({"applied"}, {TRUE})
      \/ "misreported" \in Slips /\ o \in Outcomes({"applied"}, {FALSE})
      \/ /\ "misreported" \in Slips
         /\ o \in Outcomes({"dry_run_completed", "needs_human", "failed"}, {MaySubmit(dry)})
      \/ /\ "odd_report" \in Slips
         /\ o \in Outcomes({"submitted", "odd"}, {FALSE, MaySubmit(dry)})
  BY DEF AgentMay
<1>2. \A R, B : \A x \in Outcomes(R, B) : x.report \in R /\ x.submits \in B
  BY DEF Outcomes
<1>3. MaySubmit(dry) \in BOOLEAN
  BY DEF MaySubmit
<1> HIDE DEF Outcomes
<1>4. CASE o \in Outcomes({"needs_human", "failed"}, {FALSE})
  <2>1. o.report \in {"needs_human", "failed"} /\ o.submits = FALSE
    BY <1>2, <1>4
  <2> QED
    BY <2>1 DEF REPORTS
<1>5. CASE o \in Outcomes({"dry_run_completed"}, {FALSE})
  <2>1. o.report \in {"dry_run_completed"} /\ o.submits = FALSE
    BY <1>2, <1>5
  <2> QED
    BY <2>1 DEF REPORTS
<1>6. CASE o \in Outcomes({"applied"}, {TRUE})
  <2>1. o.report \in {"applied"} /\ o.submits = TRUE
    BY <1>2, <1>6
  <2> QED
    BY <2>1 DEF REPORTS
<1>7. CASE "misreported" \in Slips /\ o \in Outcomes({"applied"}, {FALSE})
  <2>1. o.report \in {"applied"} /\ o.submits = FALSE
    BY <1>2, <1>7
  <2> QED
    BY <2>1, <1>7 DEF REPORTS, Faithful
<1>8. CASE /\ "misreported" \in Slips
           /\ o \in Outcomes({"dry_run_completed", "needs_human", "failed"}, {MaySubmit(dry)})
  <2>1. o.report \in {"dry_run_completed", "needs_human", "failed"}
        /\ o.submits \in {MaySubmit(dry)}
    BY <1>2, <1>8
  <2> QED
    BY <2>1, <1>3, <1>8 DEF REPORTS, Faithful
<1>9. CASE /\ "odd_report" \in Slips
           /\ o \in Outcomes({"submitted", "odd"}, {FALSE, MaySubmit(dry)})
  <2>1. o.report \in {"submitted", "odd"} /\ o.submits \in {FALSE, MaySubmit(dry)}
    BY <1>2, <1>9
  <2> QED
    BY <2>1, <1>3, <1>9 DEF REPORTS, Faithful
<1> QED
  BY <1>1, <1>4, <1>5, <1>6, <1>7, <1>8, <1>9

LEMMA SubmissionIs ==
    ASSUME ApplyInv, NEW c \in Consumers, run[c] \in Runs, run[c].queue # <<>>,
           NEW report \in REPORTS
    PROVE  Submission(c, report) \in Submissions
<1>1. TheJob(c) \in Jobs /\ now \in 0..MaxNow /\ run[c].dry \in BOOLEAN
  BY TheJobIsAJob DEF ApplyInv, TypeOK, Runs
<1> QED
  BY <1>1 DEF Submission, Submissions

LEMMA AgentDoes ==
    ASSUME ApplyInv, NEW c \in Consumers, Agent(c)
    PROVE  /\ run[c] \in Runs /\ run[c] # Idle /\ run[c].queue # <<>> /\ run[c].at = "agent"
           /\ \E o \in AgentMay(run[c].dry), r \in Runs :
                 /\ Becomes(c, r)
                 /\ r.at = "persist" /\ r.queue = run[c].queue
                 /\ r.processed = run[c].processed /\ r.dry = run[c].dry
                 /\ r.mode = run[c].mode
                 /\ r.report = o.report /\ r.report \in REPORTS
                 /\ \/ /\ o.submits
                       /\ sent' = Append(sent, Submission(c, r.report))
                       /\ r.submission = Len(sent) + 1
                    \/ /\ ~o.submits
                       /\ sent' = sent
                       /\ r.submission = 0
<1>1. run[c] \in Runs /\ run[c] # Idle /\ run[c].queue # <<>> /\ run[c].at = "agent"
  BY WorkingIsARun DEF Agent, ApplyInv, Working
<1>2. PICK o \in AgentMay(run[c].dry) :
          /\ sent' = IF o.submits THEN Append(sent, Submission(c, o.report)) ELSE sent
          /\ run' = [run EXCEPT ![c].at = "persist", ![c].report = o.report,
                                ![c].submission = IF o.submits THEN Len(sent') ELSE 0]
  BY DEF Agent
<1> DEFINE n == IF o.submits THEN Len(sent') ELSE 0
           r == [run[c] EXCEPT !.at = "persist", !.report = o.report, !.submission = n]
<1>3. run[c].dry \in BOOLEAN
  BY <1>1 DEF Runs
<1>4. o.report \in REPORTS /\ o.submits \in BOOLEAN
  BY <1>3, OutcomesAre
<1>5. /\ Len(sent) \in Nat
      /\ o.submits => Len(sent') = Len(sent) + 1
  <2>1. sent \in Seq(Submissions)
    BY DEF ApplyInv, TypeOK, Submissions
  <2>2. Submission(c, o.report) \in Submissions
    BY <1>1, <1>4, SubmissionIs
  <2> QED
    BY <1>2, <2>1, <2>2, AppendProperties, LenProperties
<1>6. n \in Nat
  BY <1>5
<1>7. run' = [run EXCEPT ![c] = r]
  BY <1>2 DEF ApplyInv, TypeOK
<1>8. /\ r \in Runs /\ r.at = "persist" /\ r.queue = run[c].queue /\ r.report = o.report
      /\ r.submission = n /\ r.processed = run[c].processed /\ r.dry = run[c].dry
      /\ r.mode = run[c].mode
  <2> HIDE DEF n
  <2> QED
    BY <1>1, <1>4, <1>6 DEF Runs
<1>9. Becomes(c, r)
  BY <1>7, <1>8, RunBecomes
<1> QED
  BY <1>1, <1>2, <1>4, <1>5, <1>8, <1>9

LEMMA ApplyInitInv == Init => ApplyInv
<1> SUFFICES ASSUME Init PROVE ApplyInv
  OBVIOUS
<1>1. status \in [Jobs -> ALL]
  BY ApplyAssumption DEF Init, ApplyAssumption
<1>2. rows \in Seq(Records) /\ sent \in Seq(Submissions) /\ lost = {}
  BY EmptySeq DEF Init
<1>3. now \in 0..MaxNow /\ disturbances \in 0..MaxDisturbances
  BY ApplyNumbers DEF Init
<1> QED
  BY <1>1, <1>2, <1>3 DEF Init, ApplyInv, TypeOK, Records, Submissions

\* A run that is at work on its job may finish with it whatever else changes.
LEMMA AdvanceInv ==
    ASSUME ApplyInv, NEW c \in Consumers, run[c] \in Runs, run[c].queue # <<>>, Advance(c),
           status' \in [Jobs -> ALL], rows' \in Seq(Records), sent' \in Seq(Submissions),
           Len(sent') = Len(sent), lost' \subseteq Nat, UNCHANGED <<now, disturbances>>
    PROVE  ApplyInv'
<1>1. /\ Becomes(c, Advanced(run[c]))
      /\ Advanced(run[c]) \in Runs /\ Advanced(run[c]) # Idle
      /\ Advanced(run[c]).at = "next"
      /\ Advanced(run[c]).submission = 0
      /\ Advanced(run[c]).processed + Len(Advanced(run[c]).queue) <= NJobs
  BY AdvanceDoes
<1>2. TypeOK'
  BY <1>1 DEF ApplyInv, TypeOK, Becomes, Records, Submissions
<1>3. Len(sent) \in Nat
  BY LenProperties DEF ApplyInv, TypeOK
<1> HIDE DEF Advanced
<1>4. ASSUME NEW d \in Consumers, run'[d] # Idle
      PROVE  /\ run'[d].processed + Len(run'[d].queue) <= NJobs
             /\ run'[d].at \in Working => run'[d].queue # <<>>
             /\ run'[d].at = "persist" => run'[d].report # "none"
             /\ run'[d].at # "persist" => run'[d].submission = 0
             /\ run'[d].submission <= Len(sent')
  <2>1. CASE d = c
    BY <1>1, <1>3, <2>1 DEF Becomes, Working
  <2>2. CASE d # c
    BY <1>1, <1>4, <2>2 DEF Becomes, ApplyInv
  <2> QED
    BY <2>1, <2>2
<1> QED
  BY <1>2, <1>4 DEF ApplyInv

LEMMA StatusesApplied == REPORTS \ {"submitted", "odd"} \subseteq ALL /\ {"skipped_company_cap", "needs_human", "failed"} \subseteq ALL
BY DEF REPORTS, ALL, PIPELINE

LEMMA DecideInv ==
    ASSUME ApplyInv, NEW c \in Consumers, Skip(c) \/ Retire(c) \/ Wall(c)
    PROVE  ApplyInv'
<1>1. AtJob(c) /\ Advance(c) /\ UNCHANGED <<rows, now, sent, lost, disturbances>>
  BY DEF Skip, Retire, Wall, Passes
<1>2. run[c] \in Runs /\ run[c].queue # <<>>
  BY <1>1, WorkingIsARun DEF AtJob
<1>3. status' \in [Jobs -> ALL]
  BY StatusesApplied DEF Skip, Retire, Wall, ApplyInv, TypeOK
<1> QED
  BY <1>1, <1>2, <1>3, AdvanceInv DEF ApplyInv, TypeOK, Records, Submissions

LEMMA RaiseInv == ASSUME ApplyInv, NEW c \in Consumers, Raise(c) PROVE ApplyInv'
<1>1. run[c] \in Runs /\ run[c].queue # <<>>
  BY WorkingIsARun DEF Raise, ApplyInv, Working
<1>2. status' \in [Jobs -> ALL]
  BY StatusesApplied DEF Raise, ApplyInv, TypeOK
<1>3. [job |-> TheJob(c), status |-> "failed", at |-> now] \in Records
  BY <1>1, TheJobIsAJob DEF Records, REPORTS, ApplyInv, TypeOK
<1>4. rows' \in Seq(Records)
  BY <1>3, AppendProperties DEF Raise, ApplyInv, TypeOK, Records
<1>5. lost' \subseteq Nat
  BY <1>1 DEF Raise, LoseReport, Runs, ApplyInv, TypeOK
<1> QED
  BY <1>1, <1>2, <1>4, <1>5, AdvanceInv DEF Raise, ApplyInv, TypeOK, Submissions

\* What Persist makes of the submissions: it marks its own as recorded, or none.
Marked(c) ==
    IF run[c].submission # 0 /\ IsReal(run[c]) /\ run[c].report \in {"applied", "submitted"}
    THEN [sent EXCEPT ![run[c].submission].recorded = TRUE] ELSE sent

LEMMA PersistDoes ==
    ASSUME ApplyInv, NEW c \in Consumers, Persist(c)
    PROVE  /\ run[c] \in Runs /\ run[c] # Idle /\ run[c].queue # <<>> /\ run[c].at = "persist"
           /\ run[c].report \in REPORTS
           /\ Advance(c)
           /\ sent' = Marked(c)
           /\ sent' \in Seq(Submissions) /\ Len(sent') = Len(sent)
           /\ DOMAIN sent' = DOMAIN sent /\ run[c].submission \in 0..Len(sent)
           /\ \A n \in DOMAIN sent : /\ sent'[n].job = sent[n].job /\ sent'[n].at = sent[n].at
                                     /\ sent'[n].dry = sent[n].dry
                                     /\ sent'[n].report = sent[n].report
                                     /\ sent[n].recorded => sent'[n].recorded
                                     /\ sent'[n].recorded <=>
                                          \/ sent[n].recorded
                                          \/ /\ n = run[c].submission /\ IsReal(run[c])
                                             /\ run[c].report \in {"applied", "submitted"}
<1>1. run[c] \in Runs /\ run[c] # Idle /\ run[c].queue # <<>> /\ run[c].at = "persist"
  BY WorkingIsARun DEF Persist, ApplyInv, Working
<1>2. run[c].report \in REPORTS
  BY <1>1 DEF ApplyInv, Runs
<1>3. sent' = Marked(c)
  BY DEF Persist, Marked
<1>4. sent \in Seq(Submissions)
  BY DEF ApplyInv, TypeOK, Submissions
<1>5. Len(sent) \in Nat /\ DOMAIN sent = 1..Len(sent) /\ \A n \in DOMAIN sent : sent[n] \in Submissions
  BY <1>4, LenProperties, ElementOfSeq
<1>6. run[c].submission \in 0..Len(sent)
  BY <1>1, <1>5 DEF ApplyInv, Runs
<1>7. CASE sent' = sent /\ ~(run[c].submission # 0 /\ IsReal(run[c])
                              /\ run[c].report \in {"applied", "submitted"})
  BY <1>1, <1>2, <1>3, <1>4, <1>5, <1>6, <1>7 DEF Persist
<1>8. CASE /\ run[c].submission # 0 /\ IsReal(run[c])
           /\ run[c].report \in {"applied", "submitted"}
           /\ sent' = [sent EXCEPT ![run[c].submission].recorded = TRUE]
  <2> DEFINE k == run[c].submission
             s == [sent[k] EXCEPT !.recorded = TRUE]
  <2>1. k \in DOMAIN sent
    BY <1>5, <1>6, <1>8
  <2>2. s \in Submissions /\ s.job = sent[k].job /\ s.at = sent[k].at /\ s.dry = sent[k].dry
        /\ s.report = sent[k].report /\ s.recorded = TRUE
    BY <1>5, <2>1 DEF Submissions
  <2>3. sent' = [sent EXCEPT ![k] = s]
    BY <1>8
  <2> HIDE DEF s
  <2>4. sent' \in Seq(Submissions) /\ Len(sent') = Len(sent) /\ DOMAIN sent' = DOMAIN sent
    BY <1>4, <2>1, <2>2, <2>3, ExceptSeq, LenProperties
  <2>5. sent'[k] = s /\ \A n \in DOMAIN sent : n # k => sent'[n] = sent[n]
    BY <1>4, <2>1, <2>3
  <2>6. \A n \in DOMAIN sent : sent[n].recorded \in BOOLEAN
    BY <1>5 DEF Submissions
  <2> QED
    BY <1>1, <1>2, <1>3, <1>6, <1>8, <2>2, <2>4, <2>5, <2>6 DEF Persist
<1> QED
  BY <1>3, <1>7, <1>8 DEF Marked

LEMMA PersistInv == ASSUME ApplyInv, NEW c \in Consumers, Persist(c) PROVE ApplyInv'
<1>1. /\ run[c] \in Runs /\ run[c].queue # <<>> /\ run[c].report \in REPORTS /\ Advance(c)
      /\ sent' \in Seq(Submissions) /\ Len(sent') = Len(sent)
  BY PersistDoes
<1>2. status' \in [Jobs -> ALL]
  BY <1>1, StatusesApplied DEF Persist, status_map, ApplyInv, TypeOK
<1>3. [job |-> TheJob(c), status |-> run[c].report, at |-> now] \in Records
  BY <1>1, TheJobIsAJob DEF Records, ApplyInv, TypeOK
<1>4. rows' \in Seq(Records)
  BY <1>3, AppendProperties DEF Persist, ApplyInv, TypeOK, Records
<1> QED
  BY <1>1, <1>2, <1>4, AdvanceInv DEF Persist, ApplyInv, TypeOK

LEMMA BecomesInv ==
    ASSUME ApplyInv, NEW c \in Consumers, NEW r \in Runs \union {Idle}, Becomes(c, r),
           r # Idle => /\ r.processed + Len(r.queue) <= NJobs
                       /\ r.at \in Working => r.queue # <<>>
                       /\ r.at = "persist" => r.report # "none"
                       /\ r.at # "persist" => r.submission = 0
                       /\ r.submission <= Len(sent'),
           sent' \in Seq(Submissions), Len(sent') >= Len(sent),
           disturbances' \in 0..MaxDisturbances, lost' \subseteq Nat,
           UNCHANGED <<status, rows, now>>
    PROVE  ApplyInv'
<1>1. TypeOK'
  BY DEF ApplyInv, TypeOK, Becomes, Submissions
<1>2. Len(sent) \in Nat /\ Len(sent') \in Nat
  BY LenProperties DEF ApplyInv, TypeOK
<1>3. ASSUME NEW d \in Consumers, run'[d] # Idle
      PROVE  /\ run'[d].processed + Len(run'[d].queue) <= NJobs
             /\ run'[d].at \in Working => run'[d].queue # <<>>
             /\ run'[d].at = "persist" => run'[d].report # "none"
             /\ run'[d].at # "persist" => run'[d].submission = 0
             /\ run'[d].submission <= Len(sent')
  <2>1. CASE d = c
    BY <1>3, <2>1 DEF Becomes
  <2>2. CASE d # c
    <3>1. run'[d] = run[d] /\ run[d] # Idle
      BY <1>3, <2>2 DEF Becomes
    <3>2. run[d] \in Runs
      BY <3>1 DEF ApplyInv, TypeOK
    <3>3. run[d].submission \in Nat
      BY <3>2 DEF Runs
    <3> QED
      BY <1>2, <3>1, <3>3 DEF ApplyInv
  <2> QED
    BY <2>1, <2>2
<1> QED
  BY <1>1, <1>3 DEF ApplyInv

LEMMA ApplyStep == ApplyInv /\ [Next]_vars => ApplyInv'
<1> SUFFICES ASSUME ApplyInv, [Next]_vars PROVE ApplyInv'
  OBVIOUS
<1>0. sent \in Seq(Submissions) /\ Len(sent) \in Nat /\ disturbances \in 0..MaxDisturbances
      /\ lost \subseteq Nat
  BY LenProperties DEF ApplyInv, TypeOK, Submissions
<1>1. ASSUME NEW c \in Consumers, NEW mode \in Modes, StartRun(c, mode) PROVE ApplyInv'
  <2>1. PICK r \in Runs : /\ Becomes(c, r)
                          /\ r.at = "next" /\ r.submission = 0 /\ r.processed = 0
                          /\ Len(r.queue) \in 0..NJobs
    BY <1>1, StartDoes
  <2>2. UNCHANGED <<status, rows, now, sent, lost, disturbances>>
    BY <1>1 DEF StartRun
  <2> QED
    BY <1>0, <2>1, <2>2, BecomesInv, ApplyNumbers DEF Working
<1>2. ASSUME NEW c \in Consumers, EndRun(c) \/ Crash(c) PROVE ApplyInv'
  <2>1. Becomes(c, Idle)
    BY <1>2, RunBecomes DEF EndRun, Crash
  <2>2. UNCHANGED <<status, rows, now, sent>> /\ disturbances' \in 0..MaxDisturbances
    BY <1>0, <1>2, ApplyNumbers DEF EndRun, Crash
  <2>3. lost' \subseteq Nat
    <3>1. Crash(c) => run[c].submission \in Nat
      BY DEF Crash, ApplyInv, TypeOK, Runs
    <3> QED
      BY <1>0, <1>2, <3>1 DEF EndRun, Crash, LoseReport
  <2> QED
    BY <1>0, <2>1, <2>2, <2>3, BecomesInv
<1>3. ASSUME NEW c \in Consumers, Skip(c) \/ Retire(c) \/ Wall(c) PROVE ApplyInv'
  BY <1>3, DecideInv
<1>4. ASSUME NEW c \in Consumers, Admit(c) PROVE ApplyInv'
  <2>1. run[c] \in Runs /\ run[c] # Idle /\ run[c].queue # <<>> /\ run[c].at = "next"
    BY <1>4, AdmitDoes
  <2>2. PICK r \in Runs : /\ Becomes(c, r)
                          /\ r.at = "gate" /\ r.queue = run[c].queue
                          /\ r.submission = run[c].submission
                          /\ r.processed = run[c].processed
    BY <1>4, AdmitDoes
  <2>3. UNCHANGED <<status, rows, now, sent, lost, disturbances>>
    BY <1>4 DEF Admit
  <2> QED
    BY <1>0, <2>1, <2>2, <2>3, BecomesInv DEF ApplyInv
<1>5. ASSUME NEW c \in Consumers, Gate(c) PROVE ApplyInv'
  <2>1. run[c] \in Runs /\ run[c] # Idle /\ run[c].queue # <<>> /\ run[c].at = "gate"
    BY <1>5, GateDoes
  <2>2. PICK r \in Runs : /\ Becomes(c, r)
                          /\ r.at = "agent" /\ r.queue = run[c].queue
                          /\ r.submission = run[c].submission
                          /\ r.processed = run[c].processed
    BY <1>5, GateDoes
  <2>3. UNCHANGED <<status, rows, now, sent, lost, disturbances>>
    BY <1>5 DEF Gate
  <2> QED
    BY <1>0, <2>1, <2>2, <2>3, BecomesInv DEF ApplyInv
<1>6. ASSUME NEW c \in Consumers, Agent(c) PROVE ApplyInv'
  <2>1. run[c] \in Runs /\ run[c] # Idle /\ run[c].queue # <<>> /\ run[c].at = "agent"
    BY <1>6, AgentDoes
  <2>2. PICK o \in AgentMay(run[c].dry), r \in Runs :
                 /\ Becomes(c, r)
                 /\ r.at = "persist" /\ r.queue = run[c].queue
                 /\ r.processed = run[c].processed
                 /\ r.report = o.report /\ r.report \in REPORTS
                 /\ \/ /\ sent' = Append(sent, Submission(c, r.report))
                       /\ r.submission = Len(sent) + 1
                    \/ /\ sent' = sent
                       /\ r.submission = 0
    BY <1>6, AgentDoes
  <2>3. run[c].dry \in BOOLEAN
    BY <2>1 DEF Runs
  <2>4. r.report # "none"
    BY <2>2, <2>3, OutcomesAre DEF REPORTS
  <2>5. Submission(c, r.report) \in Submissions
    BY <2>1, <2>2, SubmissionIs
  <2>6. /\ sent' \in Seq(Submissions)
        /\ Len(sent') >= Len(sent) /\ r.submission <= Len(sent')
    BY <1>0, <2>2, <2>5, AppendProperties
  <2>7. disturbances' \in 0..MaxDisturbances /\ UNCHANGED <<status, rows, now, lost>>
    BY <1>0, <1>6, ApplyNumbers DEF Agent
  <2>8. run[c].processed + Len(run[c].queue) <= NJobs
    BY <2>1 DEF ApplyInv
  <2> QED
    BY <1>0, <2>1, <2>2, <2>4, <2>6, <2>7, <2>8, BecomesInv
<1>7. ASSUME NEW c \in Consumers, Persist(c) PROVE ApplyInv'
  BY <1>7, PersistInv
<1>8. ASSUME NEW c \in Consumers, Raise(c) PROVE ApplyInv'
  BY <1>8, RaiseInv
<1>9. CASE Elsewhere
  BY <1>9, ApplyAssumption, ApplyNumbers DEF Elsewhere, ApplyInv, TypeOK, ApplyAssumption
<1>10. CASE Tick
  BY <1>10, ApplyNumbers DEF Tick, ApplyInv, TypeOK
<1>11. CASE UNCHANGED vars
  BY <1>11 DEF vars, ApplyInv, TypeOK
<1> QED
  BY <1>1, <1>2, <1>3, <1>4, <1>5, <1>6, <1>7, <1>8, <1>9, <1>10, <1>11 DEF Next, RunStep

LEMMA AlwaysApplyInv == Spec => []ApplyInv
BY ApplyInitInv, ApplyStep, PTL DEF Spec

\* The apply stage keeps its types: a job counts once, whatever becomes of it, and no
\* row and no job ends with a report that is not a status.
THEOREM TypeCorrect == Spec => []TypeOK
<1>1. ApplyInv => TypeOK
  BY DEF ApplyInv
<1> QED
  BY <1>1, AlwaysApplyInv, PTL

-----------------------------------------------------------------------------
(* The kinds of steps *)

\* A run starts, ends, dies, or is done with a job it did not apply to.
Passing(c) ==
    /\ UNCHANGED <<rows, now, sent>>
    /\ lost' = lost \/ ("crash" \in Slips /\ LoseReport(c))
    /\ run[c].at \in Working => "crash" \in Slips /\ LoseReport(c)
    /\ \E r \in Runs \union {Idle} : Becomes(c, r) /\ r.at \notin Working

\* A run writes down what became of its job, and goes on.
Closing(c) ==
    /\ UNCHANGED now
    /\ Persist(c) \/ Raise(c)
    /\ run[c] \in Runs /\ run[c] # Idle /\ run[c].queue # <<>> /\ run[c].at \in Working
    /\ \E r \in Runs : Becomes(c, r) /\ r.at \notin Working

\* Nothing happens to the runs, but time may pass.
Waiting == UNCHANGED <<rows, run, sent, lost>> /\ now' \in {now, now + 1}

LEMMA ClosingIs ==
    ASSUME ApplyInv, NEW c \in Consumers, Persist(c) \/ Raise(c) PROVE Closing(c)
<1>1. run[c] \in Runs /\ run[c] # Idle /\ run[c].queue # <<>> /\ run[c].at \in Working
  BY WorkingIsARun DEF Persist, Raise, ApplyInv, Working
<1>2. Advance(c) /\ UNCHANGED now
  BY DEF Persist, Raise
<1>3. Becomes(c, Advanced(run[c])) /\ Advanced(run[c]) \in Runs /\ Advanced(run[c]).at = "next"
  BY <1>1, <1>2, AdvanceDoes
<1>4. "next" \notin Working
  BY DEF Working
<1> QED
  BY <1>1, <1>2, <1>3, <1>4 DEF Closing

LEMMA StepKinds ==
    ASSUME ApplyInv, [Next]_vars
    PROVE  \/ \E c \in Consumers : Passing(c) \/ Admit(c) \/ Gate(c) \/ Agent(c) \/ Closing(c)
           \/ Waiting
<1>1. ASSUME NEW c \in Consumers, NEW mode \in Modes, StartRun(c, mode) PROVE Passing(c)
  <2>1. PICK r \in Runs : Becomes(c, r) /\ r.at = "next"
    BY <1>1, StartDoes
  <2> QED
    BY <1>1, <2>1, IdleIsNoRun DEF Passing, StartRun, Working
<1>2. ASSUME NEW c \in Consumers, EndRun(c) \/ Crash(c) PROVE Passing(c)
  <2>1. Becomes(c, Idle)
    BY <1>2, RunBecomes DEF EndRun, Crash
  <2>2. /\ UNCHANGED <<rows, now, sent>>
        /\ lost' = lost \/ ("crash" \in Slips /\ LoseReport(c))
        /\ run[c].at \in Working => "crash" \in Slips /\ LoseReport(c)
    BY <1>2 DEF EndRun, Crash, Working
  <2> QED
    BY <2>1, <2>2, IdleIsNoRun DEF Passing, Working
<1>3. ASSUME NEW c \in Consumers, Skip(c) \/ Retire(c) \/ Wall(c) PROVE Passing(c)
  <2>1. AtJob(c) /\ Advance(c) /\ UNCHANGED <<rows, now, sent, lost>>
    BY <1>3 DEF Skip, Retire, Wall, Passes
  <2>2. run[c] \in Runs /\ run[c].queue # <<>>
    BY <2>1, WorkingIsARun DEF AtJob
  <2>3. Becomes(c, Advanced(run[c])) /\ Advanced(run[c]) \in Runs /\ Advanced(run[c]).at = "next"
    BY <2>1, <2>2, AdvanceDoes
  <2>4. run[c].at \notin Working
    BY <2>1 DEF AtJob, Working
  <2>5. "next" \notin Working
    BY DEF Working
  <2> HIDE DEF Advanced
  <2> QED
    BY <2>1, <2>3, <2>4, <2>5 DEF Passing
<1>4. ASSUME NEW c \in Consumers, Persist(c) \/ Raise(c) PROVE Closing(c)
  BY <1>4, ClosingIs
<1>5. CASE Elsewhere \/ Tick \/ UNCHANGED vars
  BY <1>5 DEF Elsewhere, Tick, vars, Waiting
<1> QED
  BY <1>1, <1>2, <1>3, <1>4, <1>5 DEF Next, RunStep

-----------------------------------------------------------------------------
(* What the employers received *)

\* The run has submitted its job and has not written it down yet.
Pending(c) == run[c].at = "persist" /\ run[c].submission # 0

\* What a run has submitted is the last thing it knows: its job, the mode it was in, and
\* that no record of it is there yet; and each run knows its own.  Where nothing but
\* the dry runs goes wrong, every submission is reported and no report is lost.
HistoryInv ==
    /\ ApplyInv
    /\ \A n \in DOMAIN sent : sent[n].at <= now
    /\ \A c \in Consumers :
          /\ run[c].at \in Working /\ run[c].mode = "dry" => run[c].dry
          /\ Pending(c) => /\ sent[run[c].submission].job = TheJob(c)
                           /\ sent[run[c].submission].dry = run[c].dry
                           /\ sent[run[c].submission].report = run[c].report
                           /\ ~sent[run[c].submission].recorded
    /\ \A c, d \in Consumers :
          Pending(c) /\ Pending(d) /\ run[c].submission = run[d].submission => c = d
    /\ Faithful => lost = {} /\ \A n \in DOMAIN sent : sent[n].report = "applied"

LEMMA SentIs ==
    ASSUME ApplyInv
    PROVE  /\ sent \in Seq(Submissions) /\ Len(sent) \in Nat /\ DOMAIN sent = 1..Len(sent)
           /\ \A n \in DOMAIN sent : sent[n] \in Submissions
           /\ rows \in Seq(Records) /\ Len(rows) \in Nat /\ DOMAIN rows = 1..Len(rows)
           /\ \A n \in DOMAIN rows : rows[n] \in Records
           /\ \A c \in Consumers : Pending(c) => run[c].submission \in DOMAIN sent
<1>1. sent \in Seq(Submissions) /\ rows \in Seq(Records)
  BY DEF ApplyInv, TypeOK, Submissions, Records
<1>2. /\ Len(sent) \in Nat /\ DOMAIN sent = 1..Len(sent)
      /\ Len(rows) \in Nat /\ DOMAIN rows = 1..Len(rows)
  BY <1>1, LenProperties
<1>3. /\ \A n \in DOMAIN sent : sent[n] \in Submissions
      /\ \A n \in DOMAIN rows : rows[n] \in Records
  BY <1>1, <1>2, ElementOfSeq
<1>4. ASSUME NEW c \in Consumers, Pending(c) PROVE run[c].submission \in DOMAIN sent
  <2>1. run[c] \in Runs /\ run[c] # Idle
    BY <1>4, WorkingIsARun DEF Pending
  <2>2. run[c].submission \in Nat /\ run[c].submission <= Len(sent)
    BY <2>1 DEF ApplyInv, Runs
  <2> QED
    BY <1>2, <1>4, <2>2 DEF Pending
<1> QED
  BY <1>1, <1>2, <1>3, <1>4

\* An agent that submits adds to what was sent.
LEMMA SentGrows ==
    ASSUME ApplyInv, NEW s \in Submissions
    PROVE  /\ Append(sent, s) \in Seq(Submissions)
           /\ DOMAIN Append(sent, s) = DOMAIN sent \union {Len(sent) + 1}
           /\ Len(sent) + 1 \notin DOMAIN sent
           /\ Append(sent, s)[Len(sent) + 1] = s
           /\ \A n \in DOMAIN sent : Append(sent, s)[n] = sent[n]
<1>1. sent \in Seq(Submissions) /\ Len(sent) \in Nat /\ DOMAIN sent = 1..Len(sent)
  BY SentIs
<1>2. /\ Append(sent, s) \in Seq(Submissions) /\ Len(Append(sent, s)) = Len(sent) + 1
      /\ Append(sent, s)[Len(sent) + 1] = s
      /\ \A n \in 1..Len(sent) : Append(sent, s)[n] = sent[n]
  BY <1>1, AppendProperties
<1>3. DOMAIN Append(sent, s) = 1..(Len(sent) + 1)
  BY <1>2, LenProperties
<1> QED
  BY <1>1, <1>2, <1>3

LEMMA RowsGrow ==
    ASSUME ApplyInv, NEW s \in Records
    PROVE  /\ Append(rows, s) \in Seq(Records)
           /\ DOMAIN Append(rows, s) = DOMAIN rows \union {Len(rows) + 1}
           /\ Len(rows) + 1 \notin DOMAIN rows
           /\ Append(rows, s)[Len(rows) + 1] = s
           /\ \A n \in DOMAIN rows : Append(rows, s)[n] = rows[n]
<1>1. rows \in Seq(Records) /\ Len(rows) \in Nat /\ DOMAIN rows = 1..Len(rows)
  BY SentIs
<1>2. /\ Append(rows, s) \in Seq(Records) /\ Len(Append(rows, s)) = Len(rows) + 1
      /\ Append(rows, s)[Len(rows) + 1] = s
      /\ \A n \in 1..Len(rows) : Append(rows, s)[n] = rows[n]
  BY <1>1, AppendProperties
<1>3. DOMAIN Append(rows, s) = 1..(Len(rows) + 1)
  BY <1>2, LenProperties
<1> QED
  BY <1>1, <1>2, <1>3

LEMMA HistoryInitInv == Init => HistoryInv
<1> SUFFICES ASSUME Init PROVE HistoryInv
  OBVIOUS
<1>1. DOMAIN sent = {}
  BY DEF Init
<1>2. \A c \in Consumers : run[c].at = "idle"
  BY IdleIsNoRun DEF Init
<1>3. lost = {}
  BY DEF Init
<1> QED
  BY <1>1, <1>2, <1>3, ApplyInitInv DEF HistoryInv, Pending, Working

\* What a run that does not move has submitted stays its own.
LEMMA StaysPending ==
    ASSUME NEW d \in Consumers, run'[d] = run[d]
    PROVE  /\ Pending(d)' <=> Pending(d)
           /\ TheJob(d)' = TheJob(d)
BY DEF Pending, TheJob

\* A run that is not about to write down a submission holds none.
LEMMA NotPending ==
    ASSUME NEW c \in Consumers, NEW r, Becomes(c, r), r.at # "persist" \/ r.submission = 0
    PROVE  ~Pending(c)'
BY DEF Becomes, Pending

\* What is reported, and that nothing of it is lost.
LEMMA ReportsKept ==
    ASSUME ApplyInv, [Next]_vars, Faithful, lost = {},
           \A n \in DOMAIN sent : sent[n].report = "applied"
    PROVE  lost' = {} /\ \A n \in DOMAIN sent' : sent'[n].report = "applied"
<1>0. "crash" \notin Slips /\ "raise" \notin Slips
  BY DEF Faithful
<1>1. CASE sent' = sent /\ lost' = lost
  BY <1>1
<1>2. ASSUME NEW c \in Consumers, Agent(c)
      PROVE  lost' = {} /\ \A n \in DOMAIN sent' : sent'[n].report = "applied"
  <2>1. run[c] \in Runs /\ run[c].queue # <<>>
    BY <1>2, AgentDoes
  <2>2. PICK o \in AgentMay(run[c].dry), r \in Runs :
            /\ r.report = o.report /\ r.report \in REPORTS
            /\ \/ o.submits /\ sent' = Append(sent, Submission(c, r.report))
               \/ sent' = sent
    BY <1>2, AgentDoes
  <2>3. CASE sent' = sent
    BY <1>2, <2>3 DEF Agent
  <2>4. CASE o.submits /\ sent' = Append(sent, Submission(c, r.report))
    <3>1. r.report = "applied"
      <4>1. run[c].dry \in BOOLEAN
        BY <2>1 DEF Runs
      <4> QED
        BY <2>2, <2>4, <4>1, OutcomesAre
    <3>2. Submission(c, r.report) \in Submissions
      BY <2>1, <2>2, SubmissionIs
    <3>3. /\ DOMAIN sent' = DOMAIN sent \union {Len(sent) + 1}
          /\ sent'[Len(sent) + 1] = Submission(c, r.report)
          /\ \A n \in DOMAIN sent : sent'[n] = sent[n]
      BY <2>4, <3>2, SentGrows
    <3>4. Submission(c, r.report).report = "applied"
      BY <3>1 DEF Submission
    <3> QED
      BY <1>2, <3>3, <3>4 DEF Agent
  <2> QED
    BY <2>2, <2>3, <2>4
<1>3. ASSUME NEW c \in Consumers, Closing(c)
      PROVE  lost' = {} /\ \A n \in DOMAIN sent' : sent'[n].report = "applied"
  <2>1. Persist(c)
    BY <1>0, <1>3 DEF Closing, Raise
  <2>2. DOMAIN sent' = DOMAIN sent /\ \A n \in DOMAIN sent : sent'[n].report = sent[n].report
    BY <2>1, PersistDoes
  <2> QED
    BY <2>1, <2>2 DEF Persist
<1>4. ASSUME NEW c \in Consumers, Passing(c) \/ Admit(c) \/ Gate(c)
      PROVE  sent' = sent /\ lost' = lost
  BY <1>0, <1>4 DEF Passing, Admit, Gate
<1>5. CASE Waiting
  BY <1>1, <1>5 DEF Waiting
<1> QED
  BY <1>1, <1>2, <1>3, <1>4, <1>5, StepKinds

LEMMA HistoryStep == HistoryInv /\ [Next]_vars => HistoryInv'
<1> SUFFICES ASSUME HistoryInv, [Next]_vars PROVE HistoryInv'
  OBVIOUS
<1> DEFINE Mine(c) == /\ sent[run[c].submission].job = TheJob(c)
                      /\ sent[run[c].submission].dry = run[c].dry
                      /\ sent[run[c].submission].report = run[c].report
                      /\ ~sent[run[c].submission].recorded
           Kept(c) == /\ run[c].at \in Working /\ run[c].mode = "dry" => run[c].dry
                      /\ Pending(c) => Mine(c)
<1>0. Faithful => lost' = {} /\ \A n \in DOMAIN sent' : sent'[n].report = "applied"
  BY ReportsKept DEF HistoryInv
<1>1. ApplyInv /\ ApplyInv'
  BY ApplyStep DEF HistoryInv
<1>2. now \in Int /\ \A n \in DOMAIN sent : sent[n] \in Submissions /\ sent[n].at \in Int
  BY <1>1, SentIs DEF ApplyInv, TypeOK, Submissions
<1>3. \A c \in Consumers : Pending(c) => run[c].submission \in DOMAIN sent
  BY <1>1, SentIs
\* If nothing is added to what was sent, and only c moves, which then holds nothing:
<1>4. ASSUME NEW c \in Consumers, NEW r, Becomes(c, r), ~Pending(c)',
             r.at \in Working /\ r.mode = "dry" => r.dry,
             now' = now, sent' = sent
      PROVE  HistoryInv'
  <2>1. \A d \in Consumers : d # c => run'[d] = run[d]
    BY <1>4 DEF Becomes
  <2>2. \A d \in Consumers : d # c => Kept(d)'
    BY <1>4, <2>1, StaysPending DEF HistoryInv
  <2>3. Kept(c)'
    BY <1>4 DEF Becomes
  <2>4. \A d, e \in Consumers :
           Pending(d)' /\ Pending(e)' /\ run'[d].submission = run'[e].submission => d = e
    BY <1>4, <2>1, StaysPending DEF HistoryInv
  <2>5. \A n \in DOMAIN sent' : sent'[n].at <= now'
    BY <1>4 DEF HistoryInv
  <2> QED
    BY <1>0, <1>1, <2>2, <2>3, <2>4, <2>5 DEF HistoryInv
<1>5. ASSUME NEW c \in Consumers, Passing(c) PROVE HistoryInv'
  <2>1. PICK r \in Runs \union {Idle} : Becomes(c, r) /\ r.at \notin Working
    BY <1>5 DEF Passing
  <2>2. ~Pending(c)'
    BY <2>1, NotPending DEF Working
  <2> QED
    BY <1>4, <1>5, <2>1, <2>2 DEF Passing
<1>6. ASSUME NEW c \in Consumers, Admit(c) PROVE HistoryInv'
  <2>1. PICK r \in Runs : Becomes(c, r) /\ r.at = "gate" /\ (r.mode = "dry" => r.dry)
    BY <1>1, <1>6, AdmitDoes
  <2>2. ~Pending(c)'
    BY <2>1, NotPending
  <2> QED
    BY <1>4, <1>6, <2>1, <2>2 DEF Admit
<1>7. ASSUME NEW c \in Consumers, Gate(c) PROVE HistoryInv'
  <2>1. PICK r \in Runs : /\ Becomes(c, r) /\ r.at = "agent" /\ r.mode = run[c].mode
                          /\ r.dry = (run[c].dry \/ DailyCapReached)
    BY <1>1, <1>7, GateDoes
  <2>2. ~Pending(c)'
    BY <2>1, NotPending
  <2>3. r.mode = "dry" => r.dry
    BY <1>7, <2>1 DEF Gate, HistoryInv, Working
  <2> QED
    BY <1>4, <1>7, <2>1, <2>2, <2>3 DEF Gate
<1>8. ASSUME NEW c \in Consumers, Agent(c) PROVE HistoryInv'
  <2>1. run[c] \in Runs /\ run[c].queue # <<>> /\ run[c].at = "agent"
    BY <1>1, <1>8, AgentDoes
  <2>2. PICK o \in AgentMay(run[c].dry), r \in Runs :
                 /\ Becomes(c, r)
                 /\ r.at = "persist" /\ r.queue = run[c].queue
                 /\ r.processed = run[c].processed /\ r.dry = run[c].dry
                 /\ r.mode = run[c].mode
                 /\ r.report = o.report /\ r.report \in REPORTS
                 /\ \/ /\ o.submits
                       /\ sent' = Append(sent, Submission(c, r.report))
                       /\ r.submission = Len(sent) + 1
                    \/ /\ ~o.submits
                       /\ sent' = sent
                       /\ r.submission = 0
    BY <1>1, <1>8, AgentDoes
  <2>3. now' = now
    BY <1>8 DEF Agent
  <2>4. r.mode = "dry" => r.dry
    BY <2>1, <2>2 DEF HistoryInv, Working
  <2>5. CASE sent' = sent /\ r.submission = 0
    <3>1. ~Pending(c)'
      BY <2>2, <2>5, NotPending
    <3> QED
      BY <1>4, <2>2, <2>3, <2>4, <2>5, <3>1
  <2>6. CASE /\ o.submits /\ r.submission = Len(sent) + 1
             /\ sent' = Append(sent, Submission(c, r.report))
    <3> DEFINE x == Submission(c, r.report)
               k == Len(sent) + 1
    <3>1. x \in Submissions
      BY <1>1, <2>1, <2>2, SubmissionIs
    <3>2. /\ DOMAIN sent' = DOMAIN sent \union {k} /\ k \notin DOMAIN sent
          /\ sent'[k] = x /\ \A n \in DOMAIN sent : sent'[n] = sent[n]
      BY <1>1, <2>6, <3>1, SentGrows
    <3> HIDE DEF k
    <3>3. run'[c] = r /\ \A d \in Consumers : d # c => run'[d] = run[d]
      BY <2>2 DEF Becomes
    <3>4. /\ TheJob(c)' = TheJob(c)
          /\ run'[c].submission = k /\ run'[c].dry = run[c].dry
          /\ run'[c].report = r.report
      BY <2>2, <2>6, <3>3 DEF TheJob, k
    <3>7. x.job = TheJob(c) /\ x.at = now /\ x.dry = run[c].dry /\ x.report = r.report
          /\ x.recorded = FALSE
      BY DEF Submission
    <3> HIDE DEF x
    <3>5. \A d \in Consumers : d # c => Kept(d)'
      BY <1>3, <3>2, <3>3, StaysPending DEF HistoryInv
    <3>8. Kept(c)'
      BY <2>4, <3>2, <3>3, <3>4, <3>7
    <3>9. \A d, e \in Consumers :
             Pending(d)' /\ Pending(e)' /\ run'[d].submission = run'[e].submission => d = e
      <4>1. \A d \in Consumers : d # c /\ Pending(d)' => run'[d].submission # k
        BY <1>3, <3>2, <3>3, StaysPending
      <4> QED
        BY <3>3, <3>4, <4>1, StaysPending DEF HistoryInv
    <3>10. \A n \in DOMAIN sent' : sent'[n].at <= now'
      BY <1>2, <2>3, <3>2, <3>7 DEF HistoryInv
    <3> QED
      BY <1>0, <1>1, <3>5, <3>8, <3>9, <3>10 DEF HistoryInv
  <2> QED
    BY <2>2, <2>5, <2>6
<1>9. ASSUME NEW c \in Consumers, Closing(c) PROVE HistoryInv'
  <2>1. PICK r \in Runs : Becomes(c, r) /\ r.at \notin Working
    BY <1>9 DEF Closing
  <2>2. ~Pending(c)' /\ now' = now
    BY <1>9, <2>1, NotPending DEF Working, Closing
  <2>3. CASE Raise(c)
    BY <1>4, <2>1, <2>2, <2>3 DEF Raise
  <2>4. CASE Persist(c)
    <3>1. run'[c] = r /\ \A d \in Consumers : d # c => run'[d] = run[d]
      BY <2>1 DEF Becomes
    <3>2. /\ DOMAIN sent' = DOMAIN sent
          /\ \A n \in DOMAIN sent :
                /\ sent'[n].job = sent[n].job /\ sent'[n].at = sent[n].at
                /\ sent'[n].dry = sent[n].dry /\ sent'[n].report = sent[n].report
                /\ sent'[n].recorded => sent[n].recorded \/ n = run[c].submission
      BY <1>1, <2>4, PersistDoes
    <3>3. ASSUME NEW d \in Consumers, d # c PROVE Kept(d)'
      <4>1. run'[d] = run[d]
        BY <3>1, <3>3
      <4>2. CASE ~Pending(d)
        BY <4>1, <4>2, StaysPending DEF HistoryInv
      <4>3. CASE Pending(d)
        <5>1. run[d].submission \in DOMAIN sent
          BY <1>3, <4>3
        <5>2. run[d].submission # run[c].submission
          <6>1. run[c].at = "persist"
            BY <2>4 DEF Persist
          <6> QED
            BY <3>3, <4>3, <6>1 DEF HistoryInv, Pending
        <5> QED
          BY <3>2, <4>1, <4>3, <5>1, <5>2, StaysPending DEF HistoryInv
      <4> QED
        BY <4>2, <4>3
    <3>4. Kept(c)'
      BY <2>1, <2>2, <3>1
    <3>5. \A d, e \in Consumers :
             Pending(d)' /\ Pending(e)' /\ run'[d].submission = run'[e].submission => d = e
      BY <2>2, <3>1, StaysPending DEF HistoryInv
    <3>6. \A n \in DOMAIN sent' : sent'[n].at <= now'
      BY <2>2, <3>2 DEF HistoryInv
    <3> QED
      BY <1>0, <1>1, <3>3, <3>4, <3>5, <3>6 DEF HistoryInv
  <2> QED
    BY <1>9, <2>3, <2>4 DEF Closing
<1>10. CASE Waiting
  <2>1. \A d \in Consumers : run'[d] = run[d]
    BY <1>10 DEF Waiting
  <2>2. \A d \in Consumers : Kept(d)'
    BY <1>10, <2>1, StaysPending DEF HistoryInv, Waiting
  <2>3. \A n \in DOMAIN sent' : sent'[n].at <= now'
    BY <1>2, <1>10 DEF HistoryInv, Waiting
  <2>4. \A d, e \in Consumers :
           Pending(d)' /\ Pending(e)' /\ run'[d].submission = run'[e].submission => d = e
    BY <2>1, StaysPending DEF HistoryInv
  <2> QED
    BY <1>0, <1>1, <2>2, <2>3, <2>4 DEF HistoryInv
<1> QED
  BY <1>1, <1>5, <1>6, <1>7, <1>8, <1>9, <1>10, StepKinds

LEMMA AlwaysHistoryInv == Spec => []HistoryInv
BY HistoryInitInv, HistoryStep, PTL DEF Spec

-----------------------------------------------------------------------------
(* Nothing is submitted without a record *)

LEMMA RecordsInit == Init => SendsAreRecorded
BY DEF Init, SendsAreRecorded

LEMMA RecordsStep == HistoryInv /\ SendsAreRecorded /\ [Next]_vars => SendsAreRecorded'
<1> SUFFICES ASSUME HistoryInv, SendsAreRecorded, [Next]_vars,
                    NEW n \in DOMAIN sent', sent'[n].report = "applied"
             PROVE  \/ sent'[n].recorded
                    \/ n \in lost'
                    \/ \E c \in Consumers : run'[c].at = "persist" /\ run'[c].submission = n
  BY DEF SendsAreRecorded
<1> DEFINE Held(c, k) == run[c].at = "persist" /\ run[c].submission = k
<1>1. ApplyInv
  BY DEF HistoryInv
<1>2. \A k \in DOMAIN sent : k # 0
  BY <1>1, SentIs
<1>3. \A k \in DOMAIN sent : sent[k].report = "applied" =>
         sent[k].recorded \/ k \in lost \/ \E c \in Consumers : Held(c, k)
  BY DEF SendsAreRecorded
<1>0. \A c \in Consumers : LoseReport(c) => /\ lost \subseteq lost'
                                            /\ \A k \in DOMAIN sent : Held(c, k) => k \in lost'
  BY <1>2 DEF LoseReport
\* What is sent does not change, and only c moves, which held nothing.
<1>4. ASSUME NEW c \in Consumers, NEW r, Becomes(c, r), run[c].at # "persist",
             sent' = sent, lost' = lost
      PROVE  sent'[n].recorded \/ n \in lost' \/ \E d \in Consumers : Held(d, n)'
  <2>1. \A d \in Consumers : Held(d, n) => Held(d, n)'
    BY <1>4 DEF Becomes
  <2> QED
    BY <1>3, <1>4, <2>1
<1>5. ASSUME NEW c \in Consumers, Passing(c)
      PROVE  sent'[n].recorded \/ n \in lost' \/ \E d \in Consumers : Held(d, n)'
  <2>1. sent' = sent
    BY <1>5 DEF Passing
  <2>2. CASE run[c].at # "persist" /\ lost' = lost
    BY <1>4, <1>5, <2>1, <2>2 DEF Passing
  <2>3. CASE LoseReport(c)
    <3>1. \A d \in Consumers : d # c => (Held(d, n) => Held(d, n)')
      BY <1>5 DEF Passing, Becomes
    <3> QED
      BY <1>3, <1>0, <2>1, <2>3, <3>1
  <2> QED
    BY <1>5, <2>2, <2>3 DEF Passing, Working
<1>6. ASSUME NEW c \in Consumers, Admit(c) \/ Gate(c)
      PROVE  sent'[n].recorded \/ n \in lost' \/ \E d \in Consumers : Held(d, n)'
  <2>1. (\E r \in Runs : Becomes(c, r)) /\ run[c].at # "persist"
    BY <1>1, <1>6, AdmitDoes, GateDoes
  <2>2. sent' = sent /\ lost' = lost
    BY <1>6 DEF Admit, Gate
  <2> QED
    BY <1>4, <2>1, <2>2
<1>7. ASSUME NEW c \in Consumers, Agent(c)
      PROVE  sent'[n].recorded \/ n \in lost' \/ \E d \in Consumers : Held(d, n)'
  <2>1. run[c] \in Runs /\ run[c].queue # <<>> /\ run[c].at = "agent"
    BY <1>1, <1>7, AgentDoes
  <2>2. PICK r \in Runs :
                 /\ Becomes(c, r) /\ r.at = "persist" /\ r.report \in REPORTS
                 /\ \/ /\ sent' = Append(sent, Submission(c, r.report))
                       /\ r.submission = Len(sent) + 1
                    \/ sent' = sent
    BY <1>1, <1>7, AgentDoes
  <2>5. lost' = lost
    BY <1>7 DEF Agent
  <2>3. CASE sent' = sent
    BY <1>4, <2>1, <2>2, <2>3, <2>5
  <2>4. CASE /\ sent' = Append(sent, Submission(c, r.report))
             /\ r.submission = Len(sent) + 1
    <3> DEFINE x == Submission(c, r.report)
    <3>1. x \in Submissions
      BY <1>1, <2>1, <2>2, SubmissionIs
    <3>2. /\ DOMAIN sent' = DOMAIN sent \union {Len(sent) + 1}
          /\ \A k \in DOMAIN sent : sent'[k] = sent[k]
      BY <1>1, <2>4, <3>1, SentGrows
    <3>3. CASE n = Len(sent) + 1
      BY <2>2, <2>4, <3>3 DEF Becomes
    <3>4. CASE n \in DOMAIN sent
      <4>1. \A d \in Consumers : Held(d, n) => Held(d, n)'
        BY <2>1, <2>2 DEF Becomes
      <4> QED
        BY <1>3, <2>5, <3>2, <3>4, <4>1
    <3> QED
      BY <3>2, <3>3, <3>4
  <2> QED
    BY <2>2, <2>3, <2>4
<1>8. ASSUME NEW c \in Consumers, Closing(c)
      PROVE  sent'[n].recorded \/ n \in lost' \/ \E d \in Consumers : Held(d, n)'
  <2>1. \A d \in Consumers : d # c => (Held(d, n) => Held(d, n)')
    BY <1>8 DEF Closing, Becomes
  <2>2. CASE Raise(c)
    BY <1>3, <1>0, <2>1, <2>2 DEF Raise
  <2>3. CASE Persist(c)
    <3>1. /\ DOMAIN sent' = DOMAIN sent
          /\ \A k \in DOMAIN sent :
                /\ sent'[k].report = sent[k].report
                /\ sent'[k].recorded <=> \/ sent[k].recorded
                                         \/ /\ k = run[c].submission /\ IsReal(run[c])
                                            /\ run[c].report \in {"applied", "submitted"}
      BY <1>1, <2>3, PersistDoes
    <3>2. CASE Held(c, n)
      <4>1. Pending(c)
        BY <1>2, <3>1, <3>2 DEF Pending
      <4>2. run[c].report = "applied"
        BY <3>1, <3>2, <4>1 DEF HistoryInv
      <4> QED
        BY <3>1, <3>2, <4>2 DEF IsReal
    <3>3. CASE ~Held(c, n)
      BY <1>3, <2>1, <2>3, <3>1, <3>3 DEF Persist
    <3> QED
      BY <3>2, <3>3
  <2> QED
    BY <1>8, <2>2, <2>3 DEF Closing
<1>9. CASE Waiting
  BY <1>3, <1>9 DEF Waiting
<1> QED
  BY <1>1, <1>5, <1>6, <1>7, <1>8, <1>9, StepKinds

\* Whatever the agent reports as an application that it sent is on record as one, or
\* is about to be, or the process died or the code raised before it was: for any number
\* of runs beside each other, whatever else the agent reports wrongly, and whatever
\* humans do to the jobs meanwhile.
THEOREM RecordedOrPending == Spec => []SendsAreRecorded
BY AlwaysHistoryInv, RecordsInit, RecordsStep, PTL DEF Spec

-----------------------------------------------------------------------------
(* What is recorded stays recorded *)

\* What a run adds to the rows when it writes a submission down, or raises.
Noted(c) == IF Persist(c) THEN [job |-> TheJob(c), status |-> run[c].report, at |-> now]
            ELSE [job |-> TheJob(c), status |-> "failed", at |-> now]

LEMMA NotedIsARecord ==
    ASSUME ApplyInv, NEW c \in Consumers, Closing(c) PROVE Noted(c) \in Records
<1>1. TheJob(c) \in Jobs /\ now \in 0..MaxNow
  BY TheJobIsAJob DEF Closing, ApplyInv, TypeOK
<1>2. Persist(c) => run[c].report \in REPORTS
  BY PersistDoes
<1>3. "failed" \in REPORTS
  BY DEF REPORTS
<1> QED
  BY <1>1, <1>2, <1>3 DEF Noted, Records

LEMMA RowsKept ==
    ASSUME ApplyInv, [Next]_vars
    PROVE  \A m \in DOMAIN rows : m \in DOMAIN rows' /\ rows'[m] = rows[m]
<1>1. ASSUME NEW c \in Consumers, Closing(c)
      PROVE  rows' = rows \/ rows' = Append(rows, Noted(c))
  <2>1. CASE Persist(c)
    BY <2>1 DEF Persist, Noted
  <2>2. CASE ~Persist(c)
    BY <1>1, <2>2 DEF Closing, Raise, Noted
  <2> QED
    BY <2>1, <2>2
<1>2. ASSUME NEW c \in Consumers, Closing(c)
      PROVE  \A m \in DOMAIN rows : m \in DOMAIN rows' /\ rows'[m] = rows[m]
  BY <1>1, <1>2, NotedIsARecord, RowsGrow
<1>3. rows' = rows \/ \E c \in Consumers : Closing(c)
  BY StepKinds DEF Passing, Admit, Gate, Agent, Waiting
<1> QED
  BY <1>2, <1>3

\* Submissions stay; a new one is what an agent submits, and a run records only its own.
LEMMA SentKept ==
    ASSUME ApplyInv, [Next]_vars
    PROVE  /\ \A n \in DOMAIN sent :
                 /\ n \in DOMAIN sent'
                 /\ sent'[n].job = sent[n].job /\ sent'[n].at = sent[n].at
                 /\ sent'[n].dry = sent[n].dry
                 /\ sent[n].recorded => sent'[n].recorded
                 /\ sent'[n].recorded => \/ sent[n].recorded
                                         \/ \E c \in Consumers :
                                               /\ Persist(c) /\ n = run[c].submission
                                               /\ IsReal(run[c])
                                               /\ run[c].report \in {"applied", "submitted"}
           /\ \A n \in DOMAIN sent' : \/ n \in DOMAIN sent
                                      \/ /\ n = Len(sent) + 1
                                         /\ ~sent'[n].recorded /\ sent'[n].at = now
                                         /\ \E c \in Consumers :
                                               /\ Agent(c) /\ sent'[n].job = TheJob(c)
                                               /\ sent'[n].dry = run[c].dry
                                               /\ run'[c].at = "persist"
                                               /\ run'[c].submission = n
           /\ sent' # sent => (\E c \in Consumers : Agent(c)) \/ DOMAIN sent' = DOMAIN sent
<1>1. CASE sent' = sent
  BY <1>1
<1>2. ASSUME NEW c \in Consumers, Persist(c)
      PROVE  /\ DOMAIN sent' = DOMAIN sent
             /\ \A n \in DOMAIN sent :
                   /\ sent'[n].job = sent[n].job /\ sent'[n].at = sent[n].at
                   /\ sent'[n].dry = sent[n].dry
                   /\ sent[n].recorded => sent'[n].recorded
                   /\ sent'[n].recorded => \/ sent[n].recorded
                                           \/ /\ n = run[c].submission /\ IsReal(run[c])
                                              /\ run[c].report \in {"applied", "submitted"}
  BY <1>2, PersistDoes
<1>3. ASSUME NEW c \in Consumers, Agent(c), sent' # sent
      PROVE  /\ DOMAIN sent' = DOMAIN sent \union {Len(sent) + 1}
             /\ \A n \in DOMAIN sent : sent'[n] = sent[n]
             /\ ~sent'[Len(sent) + 1].recorded /\ sent'[Len(sent) + 1].at = now
             /\ sent'[Len(sent) + 1].job = TheJob(c)
             /\ sent'[Len(sent) + 1].dry = run[c].dry
             /\ run'[c].at = "persist" /\ run'[c].submission = Len(sent) + 1
  <2>1. run[c] \in Runs /\ run[c].queue # <<>>
    BY <1>3, AgentDoes
  <2>2. PICK r \in Runs : /\ Becomes(c, r) /\ r.at = "persist" /\ r.report \in REPORTS
                          /\ r.submission = Len(sent) + 1
                          /\ sent' = Append(sent, Submission(c, r.report))
    BY <1>3, AgentDoes
  <2>3. Submission(c, r.report) \in Submissions
    BY <2>1, <2>2, SubmissionIs
  <2>4. /\ DOMAIN sent' = DOMAIN sent \union {Len(sent) + 1}
        /\ sent'[Len(sent) + 1] = Submission(c, r.report)
        /\ \A n \in DOMAIN sent : sent'[n] = sent[n]
    BY <2>2, <2>3, SentGrows
  <2> QED
    BY <2>2, <2>4 DEF Becomes, Submission
<1>4. sent' = sent \/ (\E c \in Consumers : Agent(c)) \/ (\E c \in Consumers : Persist(c))
  BY StepKinds DEF Passing, Admit, Gate, Closing, Raise, Waiting
<1>5. CASE sent' # sent /\ \E c \in Consumers : Agent(c)
  BY <1>3, <1>5
<1>6. CASE \E c \in Consumers : Persist(c)
  BY <1>2, <1>6
<1> QED
  BY <1>1, <1>4, <1>5, <1>6

\* What was really recorded is in the rows: the same job, as late or later.
RowsInv ==
    /\ HistoryInv
    /\ \A n \in DOMAIN sent : sent[n].recorded =>
          \E m \in DOMAIN rows : /\ rows[m].job = sent[n].job /\ rows[m].at >= sent[n].at
                                 /\ rows[m].status \in {"applied", "submitted"}
                                 /\ Faithful => rows[m].status = "applied"

LEMMA RowsInit == Init => RowsInv
<1>1. Init => DOMAIN sent = {}
  BY DEF Init
<1> QED
  BY <1>1, HistoryInitInv DEF RowsInv

LEMMA RowsStep == RowsInv /\ [Next]_vars => RowsInv'
<1> SUFFICES ASSUME RowsInv, [Next]_vars PROVE RowsInv'
  OBVIOUS
<1>1. HistoryInv /\ ApplyInv
  BY DEF RowsInv, HistoryInv
<1>2. HistoryInv'
  BY <1>1, HistoryStep
<1>3. ASSUME NEW n \in DOMAIN sent', sent'[n].recorded
      PROVE  \E m \in DOMAIN rows' : /\ rows'[m].job = sent'[n].job
                                     /\ rows'[m].at >= sent'[n].at
                                     /\ rows'[m].status \in {"applied", "submitted"}
                                     /\ Faithful => rows'[m].status = "applied"
  <2>1. /\ n \in DOMAIN sent
        /\ sent'[n].job = sent[n].job /\ sent'[n].at = sent[n].at
    BY <1>1, <1>3, SentKept
  <2>2. CASE sent[n].recorded
    BY <1>1, <2>1, <2>2, RowsKept DEF RowsInv
  <2>3. CASE ~sent[n].recorded
    <3>1. PICK c \in Consumers : /\ Persist(c) /\ n = run[c].submission /\ IsReal(run[c])
                                 /\ run[c].report \in {"applied", "submitted"}
      BY <1>1, <1>3, <2>1, <2>3, SentKept
    <3>2. Pending(c)
      BY <1>1, <2>1, <3>1, SentIs DEF Pending, Persist
    <3> DEFINE x == [job |-> TheJob(c), status |-> run[c].report, at |-> now]
    <3>3. rows' = Append(rows, x) /\ x \in Records
      <4>1. Noted(c) = x
        BY <3>1 DEF Noted
      <4>2. Closing(c)
        BY <1>1, <3>1, ClosingIs
      <4> QED
        BY <1>1, <3>1, <4>1, <4>2, NotedIsARecord DEF Persist
    <3>4. Len(rows) + 1 \in DOMAIN rows' /\ rows'[Len(rows) + 1] = x
      BY <1>1, <3>3, RowsGrow
    <3>5. x.job = sent[n].job /\ x.at >= sent[n].at
      BY <1>1, <2>1, <3>1, <3>2 DEF HistoryInv
    <3>6. x.status \in {"applied", "submitted"}
          /\ (Faithful => x.status = "applied")
      BY <1>1, <2>1, <3>1, <3>2 DEF HistoryInv
    <3> QED
      BY <2>1, <3>4, <3>5, <3>6
  <2> QED
    BY <2>2, <2>3
<1> QED
  BY <1>2, <1>3 DEF RowsInv

LEMMA AlwaysRowsInv == Spec => []RowsInv
BY RowsInit, RowsStep, PTL DEF Spec

-----------------------------------------------------------------------------
(* The same posting *)

\* With one run at work: what it is about to submit was not recorded before, nor was
\* the same posting; and it writes down what was submitted last.
DedupInv ==
    Overlap = 0 =>
        /\ \A c \in Consumers, n \in DOMAIN sent :
              run[c].at \in {"gate", "agent"} /\ sent[n].recorded
                  => ~SamePosting(sent[n].job, TheJob(c))
        /\ \A c \in Consumers : Pending(c) => run[c].submission = Len(sent)
        /\ SentAgainOnlyIfLost

LEMMA DedupInit == Init => DedupInv
<1>1. Init => DOMAIN sent = {} /\ \A c \in Consumers : run[c].at = "idle"
  BY IdleIsNoRun DEF Init
<1> QED
  BY <1>1 DEF DedupInv, Pending, SentAgainOnlyIfLost

LEMMA OneConsumer == ASSUME Overlap = 0 PROVE \A c, d \in Consumers : c = d
<1>1. IsFiniteSet(Consumers)
  BY ApplyAssumption DEF ApplyAssumption
<1>2. Cardinality(Consumers) \in Nat
  BY <1>1, FS_CardinalityType
<1>3. Cardinality(Consumers) = 1
  BY <1>2 DEF Overlap
<1> QED
  BY <1>1, <1>3, FS_Singleton

LEMMA DedupStep == RowsInv /\ DedupInv /\ [Next]_vars => DedupInv'
<1> SUFFICES ASSUME RowsInv, DedupInv, [Next]_vars, Overlap = 0 PROVE DedupInv'
  BY DEF DedupInv, Overlap
<1>1. HistoryInv /\ ApplyInv
  BY DEF RowsInv, HistoryInv
<1>2. \A c, d \in Consumers : c = d
  BY OneConsumer
<1>3. /\ \A n \in DOMAIN sent :
            /\ n \in DOMAIN sent' /\ sent'[n].job = sent[n].job
            /\ sent'[n].recorded => \/ sent[n].recorded
                                    \/ \E c \in Consumers : Persist(c) /\ n = run[c].submission
      /\ \A n \in DOMAIN sent' :
            \/ n \in DOMAIN sent
            \/ /\ n = Len(sent) + 1 /\ ~sent'[n].recorded
               /\ \E c \in Consumers : Agent(c) /\ sent'[n].job = TheJob(c)
  BY <1>1, SentKept
<1>4. DOMAIN sent = 1..Len(sent) /\ Len(sent) \in Nat
      /\ \A c \in Consumers : Pending(c) => run[c].submission \in DOMAIN sent
  BY <1>1, SentIs
<1>5. ASSUME NEW c \in Consumers, NEW n \in DOMAIN sent',
             run'[c].at \in {"gate", "agent"}, sent'[n].recorded
      PROVE  ~SamePosting(sent'[n].job, TheJob(c)')
  <2>1. \A d \in Consumers : \A r : Becomes(d, r) => run'[c] = r
    BY <1>2 DEF Becomes
  <2>2. CASE \E d \in Consumers : Passing(d) \/ Agent(d) \/ Closing(d)
    <3>1. \A d \in Consumers : Passing(d) => run'[c].at \notin Working
      BY <2>1 DEF Passing
    <3>2. \A d \in Consumers : Closing(d) => run'[c].at \notin Working
      BY <2>1 DEF Closing
    <3>3. ASSUME NEW d \in Consumers, Agent(d) PROVE run'[c].at = "persist"
      <4>1. PICK r \in Runs : Becomes(d, r) /\ r.at = "persist"
        BY <1>1, <3>3, AgentDoes
      <4> QED
        BY <2>1, <4>1
    <3> QED
      BY <1>5, <2>2, <3>1, <3>2, <3>3 DEF Working
  <2>3. CASE \E d \in Consumers : Admit(d)
    <3>1. Admit(c) /\ sent' = sent /\ n \in DOMAIN sent
      BY <1>2, <2>3 DEF Admit
    <3>2. TheJob(c)' = TheJob(c) /\ TheJob(c) \in Jobs
      BY <1>1, <2>1, <3>1, AdmitDoes, TheJobIsAJob DEF TheJob
    <3>3. ~Duplicate(TheJob(c))
      BY <3>1 DEF Admit, Passes
    <3>4. sent[n].job \in Jobs
      BY <1>1, <3>1, SentIs DEF Submissions
    <3>5. has_real_submission(sent[n].job)
      BY <1>5, <3>1 DEF RowsInv, has_real_submission
    <3> QED
      BY <3>1, <3>2, <3>3, <3>4, <3>5 DEF Duplicate
  <2>4. CASE \E d \in Consumers : Gate(d)
    <3>1. Gate(c) /\ sent' = sent /\ run[c].at = "gate"
      BY <1>2, <2>4 DEF Gate
    <3>2. TheJob(c)' = TheJob(c)
      BY <1>1, <2>1, <3>1, GateDoes DEF TheJob
    <3> QED
      BY <1>5, <3>1, <3>2 DEF DedupInv
  <2>5. CASE Waiting
    BY <1>5, <2>5 DEF Waiting, DedupInv, TheJob
  <2> QED
    BY <1>1, <2>2, <2>3, <2>4, <2>5, StepKinds
<1>6. ASSUME NEW c \in Consumers, Pending(c)' PROVE run'[c].submission = Len(sent')
  <2>1. \A d \in Consumers : \A r : Becomes(d, r) => run'[c] = r
    BY <1>2 DEF Becomes
  <2>2. CASE \E d \in Consumers : Passing(d) \/ Admit(d) \/ Gate(d) \/ Closing(d)
    <3>1. \A d \in Consumers : Passing(d) => run'[c].at # "persist"
      BY <2>1 DEF Passing, Working
    <3>2. \A d \in Consumers : Closing(d) => run'[c].at # "persist"
      BY <2>1 DEF Closing, Working
    <3>3. \A d \in Consumers : Admit(d) \/ Gate(d) => run'[c].at # "persist"
      BY <1>1, <2>1, AdmitDoes, GateDoes
    <3> QED
      BY <1>6, <2>2, <3>1, <3>2, <3>3 DEF Pending
  <2>3. CASE \E d \in Consumers : Agent(d)
    <3>1. Agent(c)
      BY <1>2, <2>3
    <3>2. run[c] \in Runs /\ run[c].queue # <<>>
      BY <1>1, <3>1, AgentDoes
    <3>3. PICK r \in Runs : /\ Becomes(c, r) /\ r.report \in REPORTS
                            /\ \/ /\ sent' = Append(sent, Submission(c, r.report))
                                  /\ r.submission = Len(sent) + 1
                               \/ r.submission = 0
      BY <1>1, <3>1, AgentDoes
    <3>4. Submission(c, r.report) \in Submissions
      BY <1>1, <3>2, <3>3, SubmissionIs
    <3>5. run'[c] = r /\ r.submission # 0
      BY <1>6, <2>1, <3>3 DEF Pending
    <3>6. sent \in Seq(Submissions)
      BY <1>1, SentIs
    <3> QED
      BY <3>3, <3>4, <3>5, <3>6, AppendProperties
  <2>4. CASE Waiting
    BY <1>6, <2>4 DEF Waiting, Pending, DedupInv
  <2> QED
    BY <1>1, <2>2, <2>3, <2>4, StepKinds
<1>7. SentAgainOnlyIfLost'
  <2> SUFFICES ASSUME NEW m \in DOMAIN sent', NEW n \in DOMAIN sent', m < n,
                      SamePosting(sent'[m].job, sent'[n].job), sent'[m].recorded
               PROVE  FALSE
    BY DEF SentAgainOnlyIfLost
  <2>1. m \in DOMAIN sent
    BY <1>3
  <2>2. CASE n \notin DOMAIN sent
    <3>1. PICK c \in Consumers : Agent(c) /\ sent'[n].job = TheJob(c)
      BY <1>3, <2>2
    <3>2. run[c].at = "agent" /\ \A d \in Consumers : ~Persist(d)
      BY <1>2, <3>1 DEF Agent, Persist
    <3>3. sent[m].recorded /\ sent'[m].job = sent[m].job
      BY <1>3, <2>1, <3>2
    <3> QED
      BY <2>1, <3>1, <3>2, <3>3 DEF DedupInv
  <2>3. CASE n \in DOMAIN sent
    <3>1. CASE sent[m].recorded
      BY <1>3, <2>1, <2>3, <3>1 DEF DedupInv, SentAgainOnlyIfLost
    <3>2. CASE ~sent[m].recorded
      <4>1. PICK c \in Consumers : Persist(c) /\ m = run[c].submission
        BY <1>3, <2>1, <3>2
      <4>2. Pending(c)
        BY <1>4, <2>1, <4>1 DEF Pending, Persist
      <4>3. m = Len(sent)
        BY <4>1, <4>2 DEF DedupInv
      <4> QED
        BY <1>4, <2>3, <4>3
    <3> QED
      BY <3>1, <3>2
  <2> QED
    BY <2>2, <2>3
<1> QED
  BY <1>5, <1>6, <1>7 DEF DedupInv, Pending

\* One run at a time never submits a posting again whose submission it recorded,
\* whatever else goes wrong and whatever humans reopen.
THEOREM NotSentTwice == Spec => []SentAgainOnlyIfLost
<1>1. DedupInv => SentAgainOnlyIfLost
  BY DEF DedupInv, SentAgainOnlyIfLost
<1> QED
  BY <1>1, AlwaysRowsInv, DedupInit, DedupStep, PTL DEF Spec

-----------------------------------------------------------------------------
(* The daily cap *)

\* What was submitted in earnest and written down, or failed to be.
Closed == {n \in DOMAIN sent : /\ ~sent[n].dry
                               /\ \A c \in Consumers : Pending(c) => run[c].submission # n}

\* Unless a process dies, each of them has a row of its own, as late or later.
LedgerInv ==
    "crash" \notin Slips =>
        \E f \in [Closed -> DOMAIN rows] :
            /\ \A a, b \in Closed : f[a] = f[b] => a = b
            /\ \A n \in Closed : rows[f[n]].at >= sent[n].at

LEMMA LedgerInit == Init => LedgerInv
<1> SUFFICES ASSUME Init PROVE LedgerInv
  OBVIOUS
<1>1. Closed = {}
  BY DEF Init, Closed
<1>2. [n \in Closed |-> 1] \in [Closed -> DOMAIN rows]
  BY <1>1
<1> QED
  BY <1>1, <1>2 DEF LedgerInv

LEMMA LedgerStep == HistoryInv /\ LedgerInv /\ [Next]_vars => LedgerInv'
<1> SUFFICES ASSUME HistoryInv, LedgerInv, [Next]_vars, "crash" \notin Slips
             PROVE  \E f \in [Closed' -> DOMAIN rows'] :
                        /\ \A a, b \in Closed' : f[a] = f[b] => a = b
                        /\ \A n \in Closed' : rows'[f[n]].at >= sent'[n].at
  BY DEF LedgerInv
<1>1. ApplyInv
  BY DEF HistoryInv
<1>2. PICK f \in [Closed -> DOMAIN rows] :
         /\ \A a, b \in Closed : f[a] = f[b] => a = b
         /\ \A n \in Closed : rows[f[n]].at >= sent[n].at
  BY DEF LedgerInv
<1>3. \A m \in DOMAIN rows : m \in DOMAIN rows' /\ rows'[m] = rows[m]
  BY <1>1, RowsKept
<1>4. /\ \A n \in DOMAIN sent : sent'[n].at = sent[n].at /\ sent'[n].dry = sent[n].dry
      /\ \A n \in DOMAIN sent' : \/ n \in DOMAIN sent
                                 \/ \E c \in Consumers : /\ Agent(c) /\ run'[c].at = "persist"
                                                         /\ run'[c].submission = n
                                                         /\ n = Len(sent) + 1
  BY <1>1, SentKept
<1>5. CASE Closed' \subseteq Closed
  <2> DEFINE g == [n \in Closed' |-> f[n]]
  <2>1. g \in [Closed' -> DOMAIN rows'] /\ \A n \in Closed' : g[n] = f[n]
    BY <1>2, <1>3, <1>5
  <2>2. \A n \in Closed' : rows'[g[n]].at >= sent'[n].at
    <3>1. Closed \subseteq DOMAIN sent
      BY DEF Closed
    <3> QED
      BY <1>2, <1>3, <1>4, <1>5, <2>1, <3>1
  <2> HIDE DEF g
  <2>3. \A a, b \in Closed' : g[a] = g[b] => a = b
    BY <1>2, <1>5, <2>1
  <2> QED
    BY <2>1, <2>2, <2>3
\* If c, which was not pending, is all that moves, nothing is closed.
<1>6. ASSUME NEW c \in Consumers, NEW r, Becomes(c, r), ~Pending(c) PROVE Closed' \subseteq Closed
  <2> SUFFICES ASSUME NEW n \in Closed' PROVE n \in Closed
    OBVIOUS
  <2>1. /\ n \in DOMAIN sent' /\ ~sent'[n].dry
        /\ \A d \in Consumers : Pending(d)' => run'[d].submission # n
    BY DEF Closed
  <2>2. n \in DOMAIN sent
    <3> SUFFICES ASSUME n \notin DOMAIN sent PROVE FALSE
      OBVIOUS
    <3>1. PICK d \in Consumers : run'[d].at = "persist" /\ run'[d].submission = n
                                 /\ n = Len(sent) + 1
      BY <1>4, <2>1
    <3>2. n # 0
      BY <1>1, <3>1, SentIs
    <3> QED
      BY <2>1, <3>1, <3>2 DEF Pending
  <2>3. \A d \in Consumers : Pending(d) => Pending(d)' /\ run'[d] = run[d]
    BY <1>6, StaysPending DEF Becomes
  <2> QED
    BY <1>4, <2>1, <2>2, <2>3 DEF Closed
<1>7. ASSUME NEW c \in Consumers, Passing(c) PROVE Closed' \subseteq Closed
  BY <1>6, <1>7 DEF Passing, Pending, Working
<1>8. ASSUME NEW c \in Consumers, Admit(c) \/ Gate(c) \/ Agent(c) PROVE Closed' \subseteq Closed
  <2>1. run[c].at # "persist" /\ \E r \in Runs : Becomes(c, r)
    BY <1>1, <1>8, AdmitDoes, GateDoes, AgentDoes
  <2> QED
    BY <1>6, <2>1 DEF Pending
<1>9. CASE Waiting
  <2>1. Closed' = Closed
    BY <1>9 DEF Waiting, Closed, Pending
  <2> QED
    BY <1>5, <2>1
<1>10. ASSUME NEW c \in Consumers, Closing(c)
       PROVE  \E g \in [Closed' -> DOMAIN rows'] :
                  /\ \A a, b \in Closed' : g[a] = g[b] => a = b
                  /\ \A n \in Closed' : rows'[g[n]].at >= sent'[n].at
  <2>1. PICK r \in Runs : Becomes(c, r)
    BY <1>10 DEF Closing
  <2>2. CASE ~Pending(c)
    BY <1>5, <1>6, <2>1, <2>2
  <2>3. CASE Pending(c) /\ sent[run[c].submission].dry
    <3>1. Closed' \subseteq Closed
      <4> SUFFICES ASSUME NEW n \in Closed' PROVE n \in Closed
        OBVIOUS
      <4>1. /\ n \in DOMAIN sent' /\ ~sent'[n].dry
            /\ \A d \in Consumers : Pending(d)' => run'[d].submission # n
        BY DEF Closed
      <4>2. n \in DOMAIN sent /\ ~sent[n].dry
        BY <1>1, <1>4, <1>10, <4>1, PersistDoes DEF Closing, Raise
      <4>3. \A d \in Consumers : d # c /\ Pending(d) => run[d].submission # n
        BY <2>1, <4>1, StaysPending DEF Becomes
      <4> QED
        BY <2>3, <4>2, <4>3 DEF Closed
    <3> QED
      BY <1>5, <3>1
  <2>4. CASE Pending(c) /\ ~sent[run[c].submission].dry
    <3> DEFINE k == run[c].submission
               l == Len(rows) + 1
               g == [n \in Closed' |-> IF n = k THEN l ELSE f[n]]
    <3>1. k \in DOMAIN sent /\ k \notin Closed
      BY <1>1, <2>4, SentIs DEF Closed
    <3>2. rows' = Append(rows, Noted(c))
      <4>1. ~run[c].dry /\ run[c].mode # "dry"
        BY <2>4 DEF HistoryInv, Pending, Working
      <4> QED
        BY <1>10, <4>1 DEF Closing, Persist, Raise, Noted, IsReal
    <3>3. /\ l \in DOMAIN rows' /\ l \notin DOMAIN rows
          /\ rows'[l] = Noted(c)
      BY <1>1, <1>10, <3>2, NotedIsARecord, RowsGrow
    <3>4. rows'[l].at = now /\ sent[k].at <= now
      BY <3>1, <3>3 DEF Noted, HistoryInv
    <3>5. Closed' \subseteq Closed \union {k}
      <4> SUFFICES ASSUME NEW n \in Closed', n # k PROVE n \in Closed
        OBVIOUS
      <4>1. /\ n \in DOMAIN sent' /\ ~sent'[n].dry
            /\ \A d \in Consumers : Pending(d)' => run'[d].submission # n
        BY DEF Closed
      <4>2. n \in DOMAIN sent /\ ~sent[n].dry
        BY <1>1, <1>4, <1>10, <4>1, PersistDoes DEF Closing, Raise
      <4>3. \A d \in Consumers : d # c /\ Pending(d) => run[d].submission # n
        BY <2>1, <4>1, StaysPending DEF Becomes
      <4> QED
        BY <4>2, <4>3 DEF Closed
    <3> HIDE DEF k, l
    <3>6. \A n \in Closed' : IF n = k THEN g[n] = l ELSE n \in Closed /\ g[n] = f[n]
      BY <3>5
    <3>7. g \in [Closed' -> DOMAIN rows']
      BY <1>2, <1>3, <3>3, <3>5
    <3> HIDE DEF g
    <3>8. \A n \in Closed' : rows'[g[n]].at >= sent'[n].at
      <4>1. Closed \subseteq DOMAIN sent
        BY DEF Closed
      <4>2. \A n \in Closed : rows'[f[n]].at >= sent'[n].at
        BY <1>2, <1>3, <1>4, <4>1
      <4>3. rows'[l].at >= sent'[k].at
        BY <1>1, <1>4, <3>1, <3>4, SentIs DEF Submissions, ApplyInv, TypeOK
      <4> QED
        BY <3>6, <4>2, <4>3
    <3>9. \A a, b \in Closed' : g[a] = g[b] => a = b
      BY <1>2, <3>3, <3>6
    <3> QED
      BY <3>7, <3>8, <3>9
  <2> QED
    BY <2>2, <2>3, <2>4
<1> QED
  BY <1>1, <1>5, <1>7, <1>8, <1>9, <1>10, StepKinds

\* Of the submissions s, those in earnest in the 24 hours up to t, and the runs about to make one.
NonDry(s, t) == {n \in DOMAIN s : s[n].at \in (t - Day)..t /\ ~s[n].dry}
Going == {c \in Consumers : run[c].at = "agent" /\ ~run[c].dry}

DailyInv ==
    "crash" \notin Slips =>
        /\ Cardinality(NonDry(sent, now)) + Cardinality(Going) <= DailyCap + Overlap
        /\ \A t \in 0..now : Cardinality(NonDry(sent, t)) <= DailyCap + Overlap

LEMMA ConsumersFinite ==
    /\ IsFiniteSet(Consumers) /\ Cardinality(Consumers) \in Nat \ {0}
    /\ Overlap \in Nat /\ Cardinality(Consumers) = Overlap + 1
    /\ \A S \in SUBSET Consumers : IsFiniteSet(S) /\ Cardinality(S) \in Nat
                                   /\ Cardinality(S) <= Cardinality(Consumers)
<1>1. IsFiniteSet(Consumers) /\ Consumers # {}
  BY ApplyAssumption DEF ApplyAssumption
<1>2. Cardinality(Consumers) \in Nat /\ Cardinality(Consumers) # 0
  BY <1>1, FS_CardinalityType, FS_EmptySet
<1>3. \A S \in SUBSET Consumers : IsFiniteSet(S) /\ Cardinality(S) \in Nat
                                  /\ Cardinality(S) <= Cardinality(Consumers)
  BY <1>1, FS_Subset, FS_CardinalityType
<1> QED
  BY <1>1, <1>2, <1>3 DEF Overlap

LEMMA NonDryFinite ==
    ASSUME NEW s \in Seq(Submissions)
    PROVE  \A S \in SUBSET DOMAIN s : IsFiniteSet(S) /\ Cardinality(S) \in Nat
<1>1. Len(s) \in Nat /\ DOMAIN s = 1..Len(s)
  BY LenProperties
<1>2. IsFiniteSet(DOMAIN s)
  BY <1>1, FS_Interval
<1> QED
  BY <1>2, FS_Subset, FS_CardinalityType

LEMMA DailyInit == Init => DailyInv
<1> SUFFICES ASSUME Init PROVE DailyInv
  OBVIOUS
<1>1. \A t \in 0..now : NonDry(sent, t) = {}
  BY DEF Init, NonDry
<1>2. Going = {}
  BY IdleIsNoRun DEF Init, Going
<1>3. now = 0
  BY DEF Init
<1> QED
  BY <1>1, <1>2, <1>3, FS_EmptySet, ConsumersFinite, ApplyNumbers DEF DailyInv

\* A run that finds the cap not reached sees all but what others are at.
LEMMA CapIsSeen ==
    ASSUME HistoryInv, LedgerInv, "crash" \notin Slips,
           NEW c \in Consumers, run[c].at = "gate", ~DailyCapReached
    PROVE  Cardinality(NonDry(sent, now)) + Cardinality(Going \union {c}) <= DailyCap + Overlap
<1> DEFINE A == NonDry(sent, now) \intersect Closed
           B == NonDry(sent, now) \ Closed
           R == {m \in DOMAIN rows : rows[m].at >= now - Day}
           P == {d \in Consumers : Pending(d)}
           G == Going \union {c}
<1>1. ApplyInv
  BY DEF HistoryInv
<1>2. PICK f \in [Closed -> DOMAIN rows] :
         /\ \A a, b \in Closed : f[a] = f[b] => a = b
         /\ \A n \in Closed : rows[f[n]].at >= sent[n].at
  BY DEF LedgerInv
<1>3. NonDry(sent, now) \subseteq DOMAIN sent
  BY DEF NonDry
<1>4. /\ IsFiniteSet(NonDry(sent, now)) /\ Cardinality(NonDry(sent, now)) \in Nat
      /\ IsFiniteSet(A) /\ Cardinality(A) \in Nat /\ IsFiniteSet(B) /\ Cardinality(B) \in Nat
  BY <1>1, <1>3, SentIs, NonDryFinite
<1>5. IsFiniteSet(R) /\ Cardinality(R) \in Nat /\ Cardinality(R) = RealToday
  <2>1. Len(rows) \in Nat /\ DOMAIN rows = 1..Len(rows)
    BY <1>1, SentIs
  <2>2. IsFiniteSet(DOMAIN rows)
    BY <2>1, FS_Interval
  <2> QED
    BY <2>2, FS_Subset, FS_CardinalityType DEF RealToday
<1>6. Cardinality(R) <= DailyCap - 1
  BY <1>5, ApplyNumbers DEF DailyCapReached
<1>7. Cardinality(A) <= Cardinality(R)
  <2> DEFINE g == [n \in A |-> f[n]]
  <2>1. \A n \in A : f[n] \in R
    <3> SUFFICES ASSUME NEW n \in A PROVE f[n] \in R
      OBVIOUS
    <3>1. n \in Closed /\ n \in DOMAIN sent /\ sent[n].at >= now - Day
      BY <1>1, SentIs DEF NonDry, Day, ApplyInv, TypeOK, Submissions
    <3>2. f[n] \in DOMAIN rows /\ rows[f[n]].at >= sent[n].at
      BY <1>2, <3>1
    <3>3. rows[f[n]].at \in Int /\ sent[n].at \in Int /\ now \in Int
      BY <1>1, <3>1, <3>2, SentIs DEF Records, Submissions, ApplyInv, TypeOK
    <3> QED
      BY <3>1, <3>2, <3>3 DEF Day
  <2>2. g \in [A -> R]
    BY <2>1
  <2>3. \A a, b \in A : g[a] = g[b] => a = b
    BY <1>2
  <2> HIDE DEF g, A, R
  <2>4. g \in Injection(A, R)
    BY <2>2, <2>3, Fun_IsInj
  <2> QED
    BY <1>5, <2>4, FS_Injection
<1>8. IsFiniteSet(P) /\ Cardinality(P) \in Nat /\ IsFiniteSet(G) /\ Cardinality(G) \in Nat
  BY ConsumersFinite DEF Going
<1>9. Cardinality(B) <= Cardinality(P)
  <2> DEFINE g == [n \in B |-> CHOOSE d \in P : run[d].submission = n]
  <2>1. \A n \in B : \E d \in P : run[d].submission = n
    BY <1>3 DEF Closed, NonDry
  <2>2. g \in [B -> P] /\ \A n \in B : run[g[n]].submission = n
    BY <2>1
  <2> HIDE DEF g, B, P
  <2>3. \A a, b \in B : g[a] = g[b] => a = b
    BY <2>2
  <2>4. g \in Injection(B, P)
    BY <2>2, <2>3, Fun_IsInj
  <2> QED
    BY <1>8, <2>4, FS_Injection
<1>10. Cardinality(P) + Cardinality(G) <= Cardinality(Consumers)
  <2>1. P \intersect G = {} /\ P \union G \subseteq Consumers
    BY DEF Pending, Going
  <2>2. Cardinality(P \union G) = Cardinality(P) + Cardinality(G) - Cardinality(P \intersect G)
    BY <1>8, FS_Union
  <2>3. Cardinality(P \union G) <= Cardinality(Consumers)
    BY <2>1, ConsumersFinite
  <2>4. Cardinality(P \intersect G) = 0
    BY <2>1, FS_EmptySet
  <2> HIDE DEF P, G
  <2> QED
    BY <1>8, <2>2, <2>3, <2>4
<1>11. Cardinality(NonDry(sent, now)) <= Cardinality(A) + Cardinality(B)
  <2>1. NonDry(sent, now) = A \union B /\ A \intersect B = {}
    OBVIOUS
  <2> HIDE DEF A, B
  <2>2. Cardinality(A \union B) = Cardinality(A) + Cardinality(B) - Cardinality(A \intersect B)
    BY <1>4, FS_Union
  <2>3. Cardinality(A \intersect B) = 0
    BY <2>1, FS_EmptySet
  <2> QED
    BY <1>4, <2>1, <2>2, <2>3
<1> HIDE DEF A, B, P, R, G
<1>12. Cardinality(NonDry(sent, now)) + Cardinality(G) <= DailyCap + Overlap
  BY <1>4, <1>5, <1>6, <1>7, <1>8, <1>9, <1>10, <1>11, ConsumersFinite, ApplyNumbers
<1> QED
  BY <1>12 DEF G

LEMMA DailyStep == HistoryInv /\ LedgerInv /\ DailyInv /\ [Next]_vars => DailyInv'
<1> SUFFICES ASSUME HistoryInv, LedgerInv, DailyInv, [Next]_vars, "crash" \notin Slips
             PROVE  /\ Cardinality(NonDry(sent', now')) + Cardinality(Going') <= DailyCap + Overlap
                    /\ \A t \in 0..now' : Cardinality(NonDry(sent', t)) <= DailyCap + Overlap
  BY DEF DailyInv
<1> DEFINE Cap == DailyCap + Overlap
<1>1. ApplyInv /\ ApplyInv' /\ now \in Nat /\ Cap \in Nat
  BY ApplyStep, ConsumersFinite, ApplyNumbers DEF HistoryInv, ApplyInv, TypeOK
<1>2. /\ Cardinality(NonDry(sent, now)) + Cardinality(Going) <= Cap
      /\ \A t \in 0..now : Cardinality(NonDry(sent, t)) <= Cap
  BY DEF DailyInv
<1>3. \A t : /\ IsFiniteSet(NonDry(sent, t)) /\ Cardinality(NonDry(sent, t)) \in Nat
             /\ IsFiniteSet(NonDry(sent', t)) /\ Cardinality(NonDry(sent', t)) \in Nat
  <2>1. \A t : NonDry(sent, t) \subseteq DOMAIN sent /\ NonDry(sent', t) \subseteq DOMAIN sent'
    BY DEF NonDry
  <2>2. sent \in Seq(Submissions) /\ sent' \in Seq(Submissions)
    BY <1>1 DEF ApplyInv, TypeOK, Submissions
  <2> HIDE DEF NonDry
  <2> QED
    BY <2>1, <2>2, NonDryFinite
<1>4. /\ IsFiniteSet(Going) /\ Cardinality(Going) \in Nat
      /\ IsFiniteSet(Going') /\ Cardinality(Going') \in Nat
  BY ConsumersFinite DEF Going
<1>5. \A n \in DOMAIN sent : /\ n \in DOMAIN sent' /\ sent'[n].at = sent[n].at
                             /\ sent'[n].dry = sent[n].dry
  BY <1>1, SentKept
\* Nothing is submitted in earnest, and nobody is let through to:
<1>6. ASSUME \A n \in DOMAIN sent' : n \in DOMAIN sent \/ sent'[n].dry,
             Going' \subseteq Going, now' = now
      PROVE  /\ Cardinality(NonDry(sent', now')) + Cardinality(Going') <= Cap
             /\ \A t \in 0..now' : Cardinality(NonDry(sent', t)) <= Cap
  <2>1. \A t : NonDry(sent', t) = NonDry(sent, t)
    BY <1>5, <1>6 DEF NonDry
  <2>2. Cardinality(Going') <= Cardinality(Going)
    BY <1>4, <1>6, FS_Subset
  <2> QED
    BY <1>1, <1>2, <1>3, <1>4, <1>6, <2>1, <2>2
<1>7. ASSUME NEW c \in Consumers, NEW r, Becomes(c, r), r.at # "agent" \/ r.dry
      PROVE  Going' \subseteq Going \ {c}
  BY <1>7 DEF Becomes, Going
<1>8. ASSUME NEW c \in Consumers, Passing(c) \/ Admit(c) \/ Closing(c)
      PROVE  /\ Cardinality(NonDry(sent', now')) + Cardinality(Going') <= Cap
             /\ \A t \in 0..now' : Cardinality(NonDry(sent', t)) <= Cap
  <2>1. \E r : Becomes(c, r) /\ r.at # "agent"
    BY <1>1, <1>8, AdmitDoes DEF Passing, Closing, Working
  <2>2. DOMAIN sent' = DOMAIN sent /\ now' = now
    BY <1>1, <1>8, PersistDoes DEF Passing, Admit, Closing, Raise
  <2> QED
    BY <1>6, <1>7, <2>1, <2>2
<1>9. ASSUME NEW c \in Consumers, Gate(c)
      PROVE  /\ Cardinality(NonDry(sent', now')) + Cardinality(Going') <= Cap
             /\ \A t \in 0..now' : Cardinality(NonDry(sent', t)) <= Cap
  <2>1. PICK r \in Runs : /\ Becomes(c, r) /\ r.at = "agent"
                          /\ r.dry = (run[c].dry \/ DailyCapReached)
    BY <1>1, <1>9, GateDoes
  <2>2. sent' = sent /\ now' = now
    BY <1>9 DEF Gate
  <2>3. CASE r.dry
    BY <1>6, <1>7, <2>1, <2>2, <2>3
  <2>4. CASE ~r.dry
    <3>1. run[c].at = "gate" /\ ~DailyCapReached
      BY <1>9, <2>1, <2>4 DEF Gate
    <3>2. Cardinality(NonDry(sent, now)) + Cardinality(Going \union {c}) <= Cap
      BY <3>1, CapIsSeen
    <3>3. Going' \subseteq Going \union {c}
      BY <2>1 DEF Becomes, Going
    <3>4. IsFiniteSet(Going \union {c}) /\ Cardinality(Going \union {c}) \in Nat
      BY ConsumersFinite DEF Going
    <3>5. Cardinality(Going') <= Cardinality(Going \union {c})
      BY <3>3, <3>4, FS_Subset
    <3>6. \A t : NonDry(sent', t) = NonDry(sent, t)
      BY <2>2 DEF NonDry
    <3> QED
      BY <1>1, <1>2, <1>3, <1>4, <2>2, <3>2, <3>4, <3>5, <3>6
  <2> QED
    BY <2>3, <2>4
<1>10. ASSUME NEW c \in Consumers, Agent(c)
       PROVE  /\ Cardinality(NonDry(sent', now')) + Cardinality(Going') <= Cap
              /\ \A t \in 0..now' : Cardinality(NonDry(sent', t)) <= Cap
  <2>1. PICK r \in Runs : Becomes(c, r) /\ r.at = "persist"
    BY <1>1, <1>10, AgentDoes
  <2>2. Going' \subseteq Going \ {c} /\ now' = now
    BY <1>7, <1>10, <2>1 DEF Agent
  <2>3. CASE \A n \in DOMAIN sent' : n \in DOMAIN sent \/ sent'[n].dry
    BY <1>6, <2>2, <2>3
  <2>4. CASE \E n \in DOMAIN sent' : n \notin DOMAIN sent /\ ~sent'[n].dry
    <3> DEFINE k == Len(sent) + 1
    <3>0. PICK n \in DOMAIN sent' : n \notin DOMAIN sent /\ ~sent'[n].dry
      BY <2>4
    <3>1. /\ \A m \in DOMAIN sent' : m \in DOMAIN sent \/ m = k
          /\ n = k /\ k \in DOMAIN sent' /\ sent'[k].at = now /\ ~sent'[k].dry
      BY <1>1, <3>0, SentKept
    <3>2. \E d \in Consumers : Agent(d) /\ sent'[k].dry = run[d].dry
                               /\ run'[d].at = "persist" /\ run[d].at = "agent"
      <4>1. PICK d \in Consumers : Agent(d) /\ sent'[n].dry = run[d].dry
                                   /\ run'[d].at = "persist"
        BY <1>1, <3>0, SentKept
      <4> QED
        BY <3>1, <4>1 DEF Agent
    <3>3. c \in Going
      BY <1>10, <2>1, <3>1, <3>2 DEF Becomes, Agent, Going
    <3>4. k \notin DOMAIN sent
      BY <1>1, SentIs
    <3> HIDE DEF k
    <3>6. Cardinality(NonDry(sent', now')) <= Cardinality(NonDry(sent, now)) + 1
      <4>1. NonDry(sent', now') \subseteq NonDry(sent, now) \union {k}
        BY <1>5, <2>2, <3>1 DEF NonDry
      <4>2. /\ IsFiniteSet(NonDry(sent, now) \union {k})
            /\ Cardinality(NonDry(sent, now) \union {k}) <= Cardinality(NonDry(sent, now)) + 1
        <5> HIDE DEF NonDry
        <5>1. /\ IsFiniteSet(NonDry(sent, now) \union {k})
              /\ Cardinality(NonDry(sent, now) \union {k})
                   = IF k \in NonDry(sent, now) THEN Cardinality(NonDry(sent, now))
                     ELSE Cardinality(NonDry(sent, now)) + 1
          BY <1>3, FS_AddElement
        <5> QED
          BY <1>3, <5>1
      <4>3. Cardinality(NonDry(sent', now')) <= Cardinality(NonDry(sent, now) \union {k})
        BY <4>1, <4>2, FS_Subset
      <4>4. Cardinality(NonDry(sent, now) \union {k}) \in Nat /\ Cardinality(NonDry(sent', now')) \in Nat
        BY <1>3, <4>2, FS_CardinalityType
      <4> QED
        BY <1>3, <4>2, <4>3, <4>4
    <3>7. Cardinality(Going') <= Cardinality(Going) - 1
      <4>1. IsFiniteSet(Going \ {c}) /\ Cardinality(Going \ {c}) = Cardinality(Going) - 1
        BY <1>4, <3>3, FS_RemoveElement
      <4> QED
        BY <2>2, <4>1, FS_Subset
    <3>8. \A t \in 0..now : t # now => NonDry(sent', t) \subseteq NonDry(sent, t)
      BY <1>1, <1>5, <3>1 DEF NonDry, Day
    <3>9. \A t \in 0..now : t # now => Cardinality(NonDry(sent', t)) <= Cap
      <4> TAKE t \in 0..now
      <4> HAVE t # now
      <4>1. Cardinality(NonDry(sent', t)) <= Cardinality(NonDry(sent, t))
        BY <1>3, <3>8, FS_Subset
      <4> QED
        BY <1>1, <1>2, <1>3, <4>1
    <3>10. Cardinality(NonDry(sent', now')) + Cardinality(Going') <= Cap
      BY <1>1, <1>2, <1>3, <1>4, <3>6, <3>7
    <3>11. Cardinality(NonDry(sent', now')) <= Cap
      BY <1>1, <1>3, <1>4, <3>10
    <3> QED
      BY <2>2, <3>9, <3>10, <3>11
  <2> QED
    BY <2>3, <2>4
<1>11. CASE Waiting
  <2>1. sent' = sent /\ run' = run /\ now' \in {now, now + 1}
    BY <1>11 DEF Waiting
  <2>2. Going' = Going /\ \A t : NonDry(sent', t) = NonDry(sent, t)
    BY <2>1 DEF Going, NonDry
  <2>3. NonDry(sent, now') \subseteq NonDry(sent, now)
    <3>1. \A n \in DOMAIN sent : sent[n].at \in Nat /\ sent[n].at <= now
      BY <1>1, SentIs DEF HistoryInv, Submissions
    <3> QED
      BY <1>1, <2>1, <3>1 DEF NonDry, Day
  <2>4. Cardinality(NonDry(sent, now')) <= Cardinality(NonDry(sent, now))
    BY <1>3, <2>3, FS_Subset
  <2>5. Cardinality(NonDry(sent, now')) <= Cap
    BY <1>1, <1>2, <1>3, <1>4, <2>4
  <2> QED
    BY <1>1, <1>2, <1>3, <1>4, <2>1, <2>2, <2>4, <2>5
<1> QED
  BY <1>1, <1>8, <1>9, <1>10, <1>11, StepKinds

\* In any 24 hours, runs that do not die submit no more than the daily cap in earnest,
\* and one more for each run beside another, whatever else goes wrong in them.
THEOREM DailyCapIsKept == Spec => []DailyCapHolds
<1>1. DailyInv => DailyCapHolds
  <2>1. \A t : {n \in InWindow(DOMAIN sent, t) : ~sent[n].dry} = NonDry(sent, t)
    BY DEF InWindow, NonDry
  <2> QED
    BY <2>1 DEF DailyInv, DailyCapHolds
<1> QED
  BY <1>1, AlwaysHistoryInv, LedgerInit, LedgerStep, DailyInit, DailyStep, PTL DEF Spec

-----------------------------------------------------------------------------
(* The caps of an employer *)

\* The employer's jobs that were submitted from one point in time to another, and the
\* ones a run is about to submit.
Applied(s, co, from, to) ==
    {j \in Jobs : Company[j] = co
                  /\ \E n \in DOMAIN s : s[n].at >= from /\ s[n].at <= to /\ s[n].job = j}
InFlight(co) ==
    {j \in Jobs : Company[j] = co
                  /\ \E d \in Consumers : run[d].at \in {"gate", "agent"} /\ TheJob(d) = j}

Employers == {Company[j] : j \in Jobs} \ {""}

CompanyInv ==
    Slips \subseteq {"finished_by_hand", "held_back"} =>
        \A co \in Employers :
            /\ CompanyTotalCap > 0 =>
                  Cardinality(Applied(sent, co, 0, now) \union InFlight(co))
                      <= CompanyTotalCap + Overlap
            /\ CompanyDailyCap > 0 =>
                  /\ Cardinality(Applied(sent, co, now - Day, now) \union InFlight(co))
                         <= CompanyDailyCap + Overlap
                  /\ \A t \in 0..now : Cardinality(Applied(sent, co, t - Day, t))
                                           <= CompanyDailyCap + Overlap

LEMMA JobSetsFinite ==
    \A S \in SUBSET Jobs : IsFiniteSet(S) /\ Cardinality(S) \in Nat
BY JobsFinite, FS_Subset, FS_CardinalityType

LEMMA CompanyInit == Init => CompanyInv
<1> SUFFICES ASSUME Init PROVE CompanyInv
  OBVIOUS
<1>1. \A co, a, b : Applied(sent, co, a, b) = {}
  BY DEF Init, Applied
<1>2. \A co : InFlight(co) = {}
  BY IdleIsNoRun DEF Init, InFlight
<1>3. Cardinality({}) = 0 /\ {} \union {} = {}
  BY FS_EmptySet
<1> QED
  BY <1>1, <1>2, <1>3, ConsumersFinite, ApplyNumbers DEF CompanyInv

\* A run that finds an employer's cap not reached sees all but what runs are at: so what
\* it adds is at most one for each run.
LEMMA EmployerIsSeen ==
    ASSUME RowsInv, SendsAreRecorded, Slips \subseteq {"finished_by_hand", "held_back"},
           NEW c \in Consumers, run[c] \in Runs, run[c].queue # <<>>,
           NEW co, NEW since \in Int, NEW cap \in Nat,
           Cardinality(AppliedTo(co, since)) < cap
    PROVE  Cardinality(Applied(sent, co, since, now) \union InFlight(co) \union {TheJob(c)})
               <= cap + Overlap
<1> DEFINE J == {j \in Jobs : \E d \in Consumers : TheJob(d) = j}
           W == {d \in Consumers : TheJob(d) \in Jobs}
           All == Applied(sent, co, since, now) \union InFlight(co) \union {TheJob(c)}
           Seen == AppliedTo(co, since)
<1>1. HistoryInv /\ ApplyInv
  BY DEF RowsInv, HistoryInv
<1>2. TheJob(c) \in Jobs
  BY <1>1, TheJobIsAJob
<1>3. Seen \subseteq Jobs
  BY <1>1, SentIs DEF AppliedTo, Records
<1>4. Applied(sent, co, since, now) \subseteq Seen \union J
  <2> SUFFICES ASSUME NEW j \in Jobs, Company[j] = co, j \notin J,
                      NEW n \in DOMAIN sent, sent[n].at >= since, sent[n].job = j
               PROVE  j \in Seen
    BY DEF Applied
  <2>1. \A d \in Consumers : Pending(d) => sent[run[d].submission].job = TheJob(d)
    BY <1>1 DEF HistoryInv
  <2>2. n # 0
    BY <1>1, SentIs
  <2>3. Faithful
    BY DEF Faithful
  <2>4. sent[n].report = "applied" /\ lost = {}
    BY <1>1, <2>3 DEF HistoryInv
  <2>5. sent[n].recorded
    BY <2>1, <2>2, <2>4 DEF SendsAreRecorded, Pending
  <2>6. PICK m \in DOMAIN rows : /\ rows[m].job = j /\ rows[m].at >= sent[n].at
                                 /\ rows[m].status = "applied"
    BY <2>3, <2>5 DEF RowsInv
  <2>7. rows[m].at \in Int /\ sent[n].at \in Int
    BY <1>1, SentIs DEF Records, Submissions
  <2> QED
    BY <2>6, <2>7 DEF AppliedTo
<1>5. All \subseteq Seen \union J
  BY <1>2, <1>4 DEF InFlight
<1>6. IsFiniteSet(W) /\ Cardinality(W) \in Nat /\ Cardinality(W) <= Overlap + 1
  BY ConsumersFinite
<1>7. Cardinality(J) <= Cardinality(W)
  <2> DEFINE g == [d \in W |-> TheJob(d)]
  <2>1. g \in [W -> J] /\ \A j \in J : \E d \in W : g[d] = j
    OBVIOUS
  <2> HIDE DEF g, W, J
  <2>2. g \in Surjection(W, J)
    BY <2>1, Fun_IsSurj
  <2> QED
    BY <1>6, <2>2, FS_Surjection
<1>8. /\ IsFiniteSet(J) /\ Cardinality(J) \in Nat
      /\ IsFiniteSet(Seen) /\ Cardinality(Seen) \in Nat
      /\ IsFiniteSet(Seen \union J) /\ Cardinality(Seen \union J) \in Nat
      /\ Cardinality(Seen \intersect J) \in Nat
      /\ IsFiniteSet(All) /\ Cardinality(All) \in Nat
  <2>1. J \subseteq Jobs /\ All \subseteq Jobs /\ Seen \intersect J \subseteq Jobs
    BY <1>2 DEF Applied, InFlight
  <2> HIDE DEF J, All, Seen
  <2> QED
    BY <1>3, <2>1, JobSetsFinite
<1> HIDE DEF J, W, All, Seen
<1>9. Cardinality(Seen \union J) = Cardinality(Seen) + Cardinality(J) - Cardinality(Seen \intersect J)
  BY <1>8, FS_Union
<1>10. Cardinality(All) <= Cardinality(Seen \union J)
  BY <1>5, <1>8, FS_Subset
<1>11. Cardinality(Seen) < cap
  BY DEF Seen
<1>12. Cardinality(All) <= cap + Overlap
  BY <1>6, <1>7, <1>8, <1>9, <1>10, <1>11, ConsumersFinite
<1> QED
  BY <1>12 DEF All

LEMMA CompanyStep == RowsInv /\ SendsAreRecorded /\ CompanyInv /\ [Next]_vars => CompanyInv'
<1> SUFFICES ASSUME RowsInv, SendsAreRecorded, CompanyInv, [Next]_vars,
                    Slips \subseteq {"finished_by_hand", "held_back"}, NEW co \in Employers
             PROVE  /\ CompanyTotalCap > 0 =>
                          Cardinality(Applied(sent', co, 0, now') \union InFlight(co)')
                              <= CompanyTotalCap + Overlap
                    /\ CompanyDailyCap > 0 =>
                          /\ Cardinality(Applied(sent', co, now' - Day, now') \union InFlight(co)')
                                 <= CompanyDailyCap + Overlap
                          /\ \A t \in 0..now' : Cardinality(Applied(sent', co, t - Day, t))
                                                    <= CompanyDailyCap + Overlap
  BY DEF CompanyInv
<1> DEFINE Total == Applied(sent, co, 0, now) \union InFlight(co)
           Daily == Applied(sent, co, now - Day, now) \union InFlight(co)
           NewTotal == Applied(sent', co, 0, now') \union InFlight(co)'
           NewDaily == Applied(sent', co, now' - Day, now') \union InFlight(co)'
           At(t) == Applied(sent, co, t - Day, t)
           NewAt(t) == Applied(sent', co, t - Day, t)
<1>1. HistoryInv /\ ApplyInv /\ now \in Nat /\ now' \in Nat
  <2>1. ApplyInv /\ ApplyInv'
    BY ApplyStep DEF RowsInv, HistoryInv
  <2> QED
    BY <2>1 DEF RowsInv, ApplyInv, TypeOK
<1>2. /\ CompanyTotalCap > 0 => Cardinality(Total) <= CompanyTotalCap + Overlap
      /\ CompanyDailyCap > 0 => /\ Cardinality(Daily) <= CompanyDailyCap + Overlap
                                /\ \A t \in 0..now : Cardinality(At(t)) <= CompanyDailyCap + Overlap
  BY DEF CompanyInv
<1>3. /\ IsFiniteSet(Total) /\ Cardinality(Total) \in Nat
      /\ IsFiniteSet(Daily) /\ Cardinality(Daily) \in Nat
      /\ IsFiniteSet(NewTotal) /\ Cardinality(NewTotal) \in Nat
      /\ IsFiniteSet(NewDaily) /\ Cardinality(NewDaily) \in Nat
      /\ \A t : /\ IsFiniteSet(At(t)) /\ Cardinality(At(t)) \in Nat
                /\ IsFiniteSet(NewAt(t)) /\ Cardinality(NewAt(t)) \in Nat
  <2>1. /\ Total \subseteq Jobs /\ Daily \subseteq Jobs /\ NewTotal \subseteq Jobs
        /\ NewDaily \subseteq Jobs
        /\ \A t : At(t) \subseteq Jobs /\ NewAt(t) \subseteq Jobs
    BY DEF Applied, InFlight
  <2> HIDE DEF Total, Daily, NewTotal, NewDaily, At, NewAt
  <2> QED
    BY <2>1, JobSetsFinite
<1>4. CompanyTotalCap + Overlap \in Nat /\ CompanyDailyCap + Overlap \in Nat
  BY ConsumersFinite, ApplyNumbers
<1>5. /\ \A n \in DOMAIN sent : /\ n \in DOMAIN sent' /\ sent'[n].at = sent[n].at
                                /\ sent'[n].job = sent[n].job
                                /\ sent[n].at \in Nat /\ sent[n].at <= now
      /\ \A n \in DOMAIN sent' : n \notin DOMAIN sent =>
            /\ sent'[n].at = now
            /\ \E c \in Consumers : run[c].at = "agent" /\ sent'[n].job = TheJob(c)
  <2>1. \A n \in DOMAIN sent : sent[n].at \in Nat /\ sent[n].at <= now
    BY <1>1, SentIs DEF HistoryInv, Submissions
  <2>2. \A n \in DOMAIN sent' : n \notin DOMAIN sent =>
            /\ sent'[n].at = now
            /\ \E c \in Consumers : run[c].at = "agent" /\ sent'[n].job = TheJob(c)
    <3> SUFFICES ASSUME NEW n \in DOMAIN sent', n \notin DOMAIN sent
                 PROVE  /\ sent'[n].at = now
                        /\ \E c \in Consumers : run[c].at = "agent" /\ sent'[n].job = TheJob(c)
      OBVIOUS
    <3>1. /\ sent'[n].at = now
          /\ \E c \in Consumers : Agent(c) /\ sent'[n].job = TheJob(c)
      BY <1>1, SentKept
    <3> QED
      BY <3>1 DEF Agent
  <2> QED
    BY <1>1, <2>1, <2>2, SentKept
\* What is in the windows that ended before stays as it was.
<1>6. \A t \in 0..now : t # now => NewAt(t) \subseteq At(t)
  BY <1>1, <1>5 DEF Applied, Day
\* If what is new was about to be submitted before, the caps hold as they did.
<1>7. ASSUME NewTotal \subseteq Total, NewDaily \subseteq Daily
      PROVE  /\ CompanyTotalCap > 0 => Cardinality(NewTotal) <= CompanyTotalCap + Overlap
             /\ CompanyDailyCap > 0 => Cardinality(NewDaily) <= CompanyDailyCap + Overlap
  <2> HIDE DEF Total, Daily, NewTotal, NewDaily
  <2>1. Cardinality(NewTotal) <= Cardinality(Total) /\ Cardinality(NewDaily) <= Cardinality(Daily)
    BY <1>3, <1>7, FS_Subset
  <2> QED
    BY <1>2, <1>3, <1>4, <2>1
<1>8. ASSUME NEW c \in Consumers, Passing(c) \/ Gate(c) \/ Agent(c) \/ Closing(c)
      PROVE  NewTotal \subseteq Total /\ NewDaily \subseteq Daily
  <2>1. now' = now
    BY <1>8 DEF Passing, Gate, Agent, Closing
  <2>2. PICK r : /\ Becomes(c, r)
                 /\ r.at \in {"gate", "agent"} => /\ run[c].at \in {"gate", "agent"}
                                                  /\ r.queue = run[c].queue
    <3>1. CASE Passing(c) \/ Closing(c)
      BY <3>1 DEF Passing, Closing, Working
    <3>2. CASE Gate(c)
      BY <1>1, <3>2, GateDoes
    <3>3. CASE Agent(c)
      <4>1. PICK r \in Runs : Becomes(c, r) /\ r.at = "persist"
        BY <1>1, <3>3, AgentDoes
      <4> QED
        BY <4>1
    <3> QED
      BY <1>8, <3>1, <3>2, <3>3
  <2>3. InFlight(co)' \subseteq InFlight(co)
    <3> SUFFICES ASSUME NEW j \in Jobs, NEW d \in Consumers,
                        run'[d].at \in {"gate", "agent"}, TheJob(d)' = j
                 PROVE  run[d].at \in {"gate", "agent"} /\ TheJob(d) = j
      BY DEF InFlight
    <3>1. CASE d = c
      BY <2>2, <3>1 DEF Becomes, TheJob
    <3>2. CASE d # c
      BY <2>2, <3>2 DEF Becomes, TheJob
    <3> QED
      BY <3>1, <3>2
  <2>4. \A from \in Int : Applied(sent', co, from, now)
                             \subseteq Applied(sent, co, from, now) \union InFlight(co)
    <3> SUFFICES ASSUME NEW from \in Int, NEW j \in Jobs, Company[j] = co,
                        NEW n \in DOMAIN sent', sent'[n].at >= from, sent'[n].at <= now,
                        sent'[n].job = j
                 PROVE  j \in Applied(sent, co, from, now) \union InFlight(co)
      BY DEF Applied
    <3>1. CASE n \in DOMAIN sent
      BY <1>5, <3>1 DEF Applied
    <3>2. CASE n \notin DOMAIN sent
      BY <1>5, <3>2 DEF InFlight
    <3> QED
      BY <3>1, <3>2
  <2> QED
    BY <1>1, <2>1, <2>3, <2>4 DEF Day
<1>9. ASSUME Waiting PROVE NewTotal \subseteq Total /\ NewDaily \subseteq Daily
  <2>1. sent' = sent /\ run' = run /\ now' \in {now, now + 1}
    BY <1>9 DEF Waiting
  <2>2. InFlight(co)' = InFlight(co)
    BY <2>1 DEF InFlight, TheJob
  <2>3. /\ Applied(sent', co, 0, now') \subseteq Applied(sent, co, 0, now)
        /\ Applied(sent', co, now' - Day, now') \subseteq Applied(sent, co, now - Day, now)
    BY <1>1, <1>5, <2>1 DEF Applied, Day
  <2>4. NewTotal \subseteq Total
    BY <2>2, <2>3
  <2>5. NewDaily \subseteq Daily
    BY <2>2, <2>3, Zenon
  <2> QED
    BY <2>4, <2>5
<1>10. ASSUME NEW c \in Consumers, Admit(c)
       PROVE  /\ CompanyTotalCap > 0 => Cardinality(NewTotal) <= CompanyTotalCap + Overlap
              /\ CompanyDailyCap > 0 => Cardinality(NewDaily) <= CompanyDailyCap + Overlap
  <2>1. run[c] \in Runs /\ run[c].queue # <<>> /\ run[c].at = "next"
    BY <1>1, <1>10, AdmitDoes
  <2>2. PICK r \in Runs : Becomes(c, r) /\ r.queue = run[c].queue
    BY <1>1, <1>10, AdmitDoes
  <2>3. sent' = sent /\ now' = now
    BY <1>10 DEF Admit
  <2>4. ~over_company_cap(TheJob(c)) /\ ~OverTotalCap(TheJob(c))
    BY <1>10 DEF Admit, Passes
  <2>5. \A j \in InFlight(co)' : j \in InFlight(co) \/ j = TheJob(c)
    <3> SUFFICES ASSUME NEW j \in Jobs, NEW d \in Consumers, Company[j] = co,
                        run'[d].at \in {"gate", "agent"}, TheJob(d)' = j
                 PROVE  j \in InFlight(co) \/ j = TheJob(c)
      BY DEF InFlight
    <3>1. CASE d = c
      BY <2>2, <3>1 DEF Becomes, TheJob
    <3>2. CASE d # c
      BY <2>2, <3>2 DEF Becomes, TheJob, InFlight
    <3> QED
      BY <3>1, <3>2
  <2>6. CASE Company[TheJob(c)] # co
    <3>1. InFlight(co)' \subseteq InFlight(co)
      BY <2>5, <2>6 DEF InFlight
    <3> QED
      BY <1>7, <2>3, <3>1
  <2>7. CASE Company[TheJob(c)] = co
    <3> DEFINE MoreTotal == Total \union {TheJob(c)}
               MoreDaily == Daily \union {TheJob(c)}
    <3>1. NewTotal \subseteq MoreTotal /\ NewDaily \subseteq MoreDaily
      BY <2>3, <2>5
    <3>2. TheJob(c) \in Jobs /\ co # ""
      BY <1>1, <2>1, TheJobIsAJob DEF Employers
    <3>3. MoreTotal \subseteq Jobs /\ MoreDaily \subseteq Jobs
      BY <3>2 DEF Applied, InFlight
    <3>4. CompanyTotalCap > 0 => Cardinality(MoreTotal) <= CompanyTotalCap + Overlap
      <4> SUFFICES ASSUME CompanyTotalCap > 0 PROVE Cardinality(MoreTotal) <= CompanyTotalCap + Overlap
        OBVIOUS
      <4>1. AppliedTo(co, 0) \subseteq Jobs
        BY <1>1, SentIs DEF AppliedTo, Records
      <4>2. Cardinality(AppliedTo(co, 0)) \in Nat
        BY <4>1, JobSetsFinite
      <4>3. Cardinality(AppliedTo(co, 0)) < CompanyTotalCap
        <5>1. ~(Cardinality(AppliedTo(co, 0)) >= CompanyTotalCap)
          BY <2>4, <2>7, <3>2 DEF OverTotalCap
        <5> QED
          BY <4>2, <5>1, ApplyNumbers
      <4> QED
        BY <2>1, <4>3, EmployerIsSeen, ApplyNumbers
    <3>5. CompanyDailyCap > 0 => Cardinality(MoreDaily) <= CompanyDailyCap + Overlap
      <4> SUFFICES ASSUME CompanyDailyCap > 0 PROVE Cardinality(MoreDaily) <= CompanyDailyCap + Overlap
        OBVIOUS
      <4>1. AppliedTo(co, now - Day) \subseteq Jobs
        BY <1>1, SentIs DEF AppliedTo, Records
      <4>2. Cardinality(AppliedTo(co, now - Day)) \in Nat
        BY <4>1, JobSetsFinite
      <4>3. Cardinality(AppliedTo(co, now - Day)) < CompanyDailyCap
        <5>1. ~(Cardinality(AppliedTo(co, now - Day)) >= CompanyDailyCap)
          BY <2>4, <2>7, <3>2 DEF over_company_cap
        <5> QED
          BY <4>2, <5>1, ApplyNumbers
      <4>4. now - Day \in Int
        BY <1>1 DEF Day
      <4> QED
        BY <2>1, <4>3, <4>4, EmployerIsSeen, ApplyNumbers
    <3> HIDE DEF MoreTotal, MoreDaily, NewTotal, NewDaily
    <3>6. /\ Cardinality(NewTotal) <= Cardinality(MoreTotal) /\ Cardinality(MoreTotal) \in Nat
          /\ Cardinality(NewDaily) <= Cardinality(MoreDaily) /\ Cardinality(MoreDaily) \in Nat
      BY <3>1, <3>3, JobSetsFinite, FS_Subset
    <3> QED
      BY <1>3, <1>4, <3>4, <3>5, <3>6
  <2> QED
    BY <2>6, <2>7
<1>11. /\ CompanyTotalCap > 0 => Cardinality(NewTotal) <= CompanyTotalCap + Overlap
       /\ CompanyDailyCap > 0 => Cardinality(NewDaily) <= CompanyDailyCap + Overlap
  BY <1>1, <1>7, <1>8, <1>9, <1>10, StepKinds
<1>12. ASSUME CompanyDailyCap > 0, NEW t \in 0..now'
       PROVE  Cardinality(NewAt(t)) <= CompanyDailyCap + Overlap
  <2>1. CASE t = now'
    <3>1. NewAt(t) \subseteq NewDaily
      BY <2>1
    <3> HIDE DEF NewAt, NewDaily
    <3>2. Cardinality(NewAt(t)) <= Cardinality(NewDaily)
      BY <1>3, <3>1, FS_Subset
    <3> QED
      BY <1>3, <1>4, <1>11, <1>12, <3>2
  <2>2. CASE t # now'
    <3>1. t \in 0..now /\ NewAt(t) \subseteq At(t)
      <4>1. CASE now' = now
        BY <1>6, <2>2, <4>1
      <4>2. CASE now' # now
        <5>1. Waiting
          BY <1>1, <4>2, StepKinds DEF Passing, Admit, Gate, Agent, Closing
        <5>2. sent' = sent /\ now' = now + 1
          BY <4>2, <5>1 DEF Waiting
        <5> QED
          BY <1>1, <2>2, <5>2
      <4> QED
        BY <4>1, <4>2
    <3> HIDE DEF NewAt, At
    <3>2. Cardinality(NewAt(t)) <= Cardinality(At(t))
      BY <1>3, <3>1, FS_Subset
    <3> QED
      BY <1>2, <1>3, <1>4, <1>12, <3>1, <3>2
  <2> QED
    BY <2>1, <2>2
<1> QED
  BY <1>11, <1>12

\* Where every submission is recorded as one, no employer is applied to for more roles
\* than its caps allow, in total and in any 24 hours, and one more for each run beside
\* another: for any jobs, employers and caps.
THEOREM CompanyCapsAreKept == Spec => []CompanyCapsHold
<1>1. HistoryInv /\ CompanyInv => CompanyCapsHold
  <2> SUFFICES ASSUME HistoryInv, CompanyInv, Slips \subseteq {"finished_by_hand", "held_back"},
                      NEW co \in Employers
               PROVE  /\ CompanyTotalCap > 0 =>
                            Cardinality(RolesAt(co, DOMAIN sent)) <= CompanyTotalCap + Overlap
                      /\ CompanyDailyCap > 0 =>
                            \A t \in 0..now :
                               Cardinality(RolesAt(co, InWindow(DOMAIN sent, t)))
                                   <= CompanyDailyCap + Overlap
    BY DEF CompanyCapsHold, Employers
  <2>1. /\ ApplyInv /\ now \in Nat
        /\ \A n \in DOMAIN sent : sent[n].at \in Nat /\ sent[n].at <= now
    BY SentIs DEF HistoryInv, ApplyInv, TypeOK, Submissions
  <2>2. RolesAt(co, DOMAIN sent) = Applied(sent, co, 0, now)
    BY <2>1 DEF RolesAt, Applied
  <2>3. \A t \in 0..now : RolesAt(co, InWindow(DOMAIN sent, t)) = Applied(sent, co, t - Day, t)
    BY <2>1 DEF RolesAt, Applied, InWindow, Day
  <2> DEFINE All == Applied(sent, co, 0, now) \union InFlight(co)
  <2>4. All \subseteq Jobs /\ Applied(sent, co, 0, now) \subseteq All
    BY DEF Applied, InFlight
  <2>5. /\ Cardinality(Applied(sent, co, 0, now)) <= Cardinality(All)
        /\ Cardinality(Applied(sent, co, 0, now)) \in Nat /\ Cardinality(All) \in Nat
    <3> HIDE DEF All
    <3>1. IsFiniteSet(All) /\ Cardinality(All) \in Nat
      BY <2>4, JobSetsFinite
    <3>2. Applied(sent, co, 0, now) \subseteq Jobs
      BY <2>4
    <3> QED
      BY <2>4, <3>1, <3>2, JobSetsFinite, FS_Subset
  <2>6. CompanyTotalCap > 0 => Cardinality(All) <= CompanyTotalCap + Overlap
    BY DEF CompanyInv
  <2> HIDE DEF All
  <2>7. CompanyTotalCap > 0 =>
           Cardinality(Applied(sent, co, 0, now)) <= CompanyTotalCap + Overlap
    BY <2>5, <2>6, ConsumersFinite, ApplyNumbers
  <2> QED
    BY <2>2, <2>3, <2>7 DEF CompanyInv
<1> QED
  BY <1>1, AlwaysRowsInv, AlwaysHistoryInv, RecordedOrPending, CompanyInit, CompanyStep, PTL
     DEF Spec

\* Both together.
THEOREM CapsAreKept == Spec => []CapsHold
<1>1. DailyCapHolds /\ CompanyCapsHold => CapsHold
  BY DEF CapsHold
<1> QED
  BY <1>1, DailyCapIsKept, CompanyCapsAreKept, PTL
=============================================================================
