---------------------------- MODULE JobBoard_proofs ----------------------------
(***************************************************************************)
(* Proofs about JobBoard: for any number of jobs and writers.              *)
(***************************************************************************)
EXTENDS JobBoard, FiniteSetTheorems, TLAPS

Written == [at : {"off", "commit"},
            kind : {"none", "patch", "mark", "note", "archive", "apply"},
            job : Jobs \union {"none"}, saw : ALL \union {"keep"},
            to : ALL \union {"keep"}, shelve : {"set", "clear", "keep"}]
Reading == [next : 0..8, now : SUBSET Jobs, counts : Seq(Nat)]

\* A write that is to come is about a job, and a note has a status; and a job that was
\* not imported has its status in its history.
BoardInv ==
    /\ BoardTypeOK
    /\ \A w \in Writers : writer[w].at = "commit" =>
          writer[w].job \in Jobs /\ (writer[w].kind = "note" => writer[w].to \in ALL)
    /\ \A j \in Jobs : imported[j] = "none" => status[j] \in ToSet(trail[j])

LEMMA Statuses == "keep" \notin ALL /\ {"discovered", "covered", "applied", "dry_run_completed",
                                        "needs_human", "failed"} \subseteq ALL
BY DEF ALL, PIPELINE, POST_APPLY

LEMMA AppendedHas ==
    ASSUME NEW s \in Seq(ALL), NEW x \in ALL
    PROVE  Append(s, x) \in Seq(ALL) /\ ToSet(Append(s, x)) = ToSet(s) \union {x}
<1>1. /\ Append(s, x) \in Seq(ALL) /\ DOMAIN s = 1..Len(s) /\ Len(s) \in Nat
      /\ DOMAIN Append(s, x) = 1..(Len(s) + 1)
      /\ \A i \in 1..Len(s) : Append(s, x)[i] = s[i]
      /\ Append(s, x)[Len(s) + 1] = x
  OBVIOUS
<1>2. 1..(Len(s) + 1) = (1..Len(s)) \union {Len(s) + 1}
  BY <1>1
<1> QED
  BY <1>1, <1>2 DEF ToSet

LEMMA BoardInitInv == BoardInit => BoardInv
<1> SUFFICES ASSUME BoardInit PROVE BoardInv
  OBVIOUS
<1>1. PICK kept \in [Jobs -> {"covered", "applied", "none"}] :
         /\ imported = kept
         /\ status = [j \in Jobs |-> IF kept[j] = "none" THEN "discovered" ELSE kept[j]]
         /\ trail = [j \in Jobs |-> IF kept[j] = "none" THEN <<"discovered">> ELSE <<>>]
  BY DEF BoardInit
<1>2. status \in [Jobs -> ALL]
  BY <1>1, Statuses
<1>3. /\ <<"discovered">> \in Seq(ALL) /\ <<>> \in Seq(ALL)
      /\ ToSet(<<"discovered">>) = {"discovered"}
  BY Statuses DEF ToSet
<1>4. trail \in [Jobs -> Seq(ALL)]
  BY <1>1, <1>3
<1>5. Idle \in Written /\ Idle.at = "off"
  BY DEF Idle, WriterAt, Written
<1>6. NoFunnel \in Reading
  BY DEF NoFunnel, Reading
<1>7. writes \in 0..MaxWrites
  BY BoardAssumption DEF BoardInit
<1>8. BoardTypeOK
  BY <1>1, <1>2, <1>4, <1>5, <1>6, <1>7 DEF BoardInit, BoardTypeOK, Written, Reading
<1>9. \A w \in Writers : writer[w].at = "off"
  BY <1>5 DEF BoardInit
<1>10. \A j \in Jobs : imported[j] = "none" => status[j] \in ToSet(trail[j])
  BY <1>1, <1>3
<1> QED
  BY <1>8, <1>9, <1>10 DEF BoardInv

\* A writer loads a job: nothing of the job changes yet.
LEMMA LoadInv ==
    ASSUME BoardInv, NEW w \in Writers, NEW kind \in {"patch", "mark", "note", "archive", "apply"},
           NEW j \in Jobs, NEW to \in ALL \union {"keep"}, NEW shelve \in {"set", "clear", "keep"},
           Load(w, kind, j, to, shelve), kind = "note" => to \in ALL,
           UNCHANGED <<status, archived, trail, funnel, touched, imported>>, taken' \subseteq Jobs
    PROVE  BoardInv'
<1> DEFINE r == WriterAt("commit", kind, j, status[j], to, shelve)
<1>1. /\ status \in [Jobs -> ALL] /\ writer \in [Writers -> Written] /\ writes \in 0..MaxWrites
      /\ writer' = [writer EXCEPT ![w] = r] /\ writes < MaxWrites /\ writes' = writes + 1
  BY DEF BoardInv, BoardTypeOK, Written, Load
<1>2. r \in Written /\ r.job = j /\ r.kind = kind /\ r.to = to
  BY <1>1 DEF WriterAt, Written
<1> HIDE DEF r
<1>3. writer' \in [Writers -> Written]
      /\ \A v \in Writers : writer'[v] = IF v = w THEN r ELSE writer[v]
  BY <1>1, <1>2
<1>4. writes' \in 0..MaxWrites
  BY <1>1, BoardAssumption
<1>5. BoardTypeOK'
  BY <1>3, <1>4 DEF BoardInv, BoardTypeOK, Written
<1> QED
  BY <1>2, <1>3, <1>5 DEF BoardInv

LEMMA LoadsInv ==
    ASSUME BoardInv, NEW w \in Writers, NEW j \in Jobs,
           PatchLoads(w, j) \/ MarkLoads(w, j) \/ NoteLoads(w, j) \/ ArchiveLoads(w, j)
              \/ ApplyLoads(w, j)
    PROVE  BoardInv'
<1>1. /\ status[j] \in ALL /\ taken \subseteq Jobs /\ archived[j] \in BOOLEAN
      /\ Markable \subseteq ALL
  BY BoardAssumption DEF BoardInv, BoardTypeOK
<1>2. CASE PatchLoads(w, j)
  <2>1. PICK to \in (DASHBOARD_SETTABLE \cap Markable) \union {"keep"},
             shelve \in {"set", "clear", "keep"} :
           Load(w, "patch", j, to, IF shelve = "clear" /\ ~archived[j] THEN "keep" ELSE shelve)
    BY <1>2 DEF PatchLoads
  <2>2. UNCHANGED <<status, archived, trail, funnel, touched, imported, taken>>
    BY <1>2 DEF PatchLoads, boardHistory
  <2> DEFINE s == IF shelve = "clear" /\ ~archived[j] THEN "keep" ELSE shelve
  <2>3. to \in ALL \union {"keep"} /\ s \in {"set", "clear", "keep"}
    BY <1>1
  <2>4. Load(w, "patch", j, to, s)
    BY <2>1
  <2> HIDE DEF s
  <2> QED
    BY <1>1, <2>2, <2>3, <2>4, LoadInv
<1>3. CASE MarkLoads(w, j)
  <2>1. PICK to \in Markable : Load(w, IF to = status[j] THEN "note" ELSE "mark", j, to, "keep")
    BY <1>3 DEF MarkLoads
  <2>2. UNCHANGED <<status, archived, trail, funnel, touched, imported, taken>>
    BY <1>3 DEF MarkLoads, boardHistory
  <2> DEFINE k == IF to = status[j] THEN "note" ELSE "mark"
  <2>3. to \in ALL /\ k \in {"note", "mark"} /\ Load(w, k, j, to, "keep")
    BY <1>1, <2>1
  <2> HIDE DEF k
  <2> QED
    BY <1>1, <2>2, <2>3, LoadInv
<1>4. CASE NoteLoads(w, j)
  BY <1>1, <1>4, LoadInv DEF NoteLoads, boardHistory
<1>5. CASE ArchiveLoads(w, j)
  <2>1. UNCHANGED <<status, archived, trail, funnel, touched, imported, taken>>
    BY <1>5 DEF ArchiveLoads, boardHistory
  <2> DEFINE s == IF archived[j] THEN "clear" ELSE "set"
  <2>2. Load(w, "archive", j, "keep", s) /\ s \in {"set", "clear", "keep"}
    BY <1>5 DEF ArchiveLoads
  <2> HIDE DEF s
  <2> QED
    BY <1>1, <2>1, <2>2, LoadInv
<1>6. CASE ApplyLoads(w, j)
  <2>1. PICK to \in {"applied", "dry_run_completed", "needs_human", "failed"} :
           Load(w, "apply", j, to, "keep")
    BY <1>6 DEF ApplyLoads
  <2>2. UNCHANGED <<status, archived, trail, funnel, touched, imported>> /\ taken' \subseteq Jobs
    BY <1>1, <1>6 DEF ApplyLoads
  <2>3. to \in ALL
    BY Statuses
  <2> QED
    BY <2>1, <2>2, <2>3, LoadInv
<1> QED
  BY <1>2, <1>3, <1>4, <1>5, <1>6

LEMMA NoFunnelIsOne == NoFunnel \in Reading /\ [NoFunnel EXCEPT !.next = 1] \in Reading
<1>1. <<>> \in Seq(Nat) /\ 0 \in 0..8 /\ 1 \in 0..8
  OBVIOUS
<1>2. NoFunnel \in Reading
  BY <1>1 DEF NoFunnel, Reading
<1> QED
  BY <1>1, <1>2 DEF Reading

LEMMA TouchTypes ==
    ASSUME BoardInv, NEW j \in Jobs, Touch(j)
    PROVE  funnel' \in Reading /\ touched' \subseteq Jobs
<1>1. funnel \in Reading /\ touched \subseteq Jobs
  BY DEF BoardInv, BoardTypeOK, Reading
<1>2. NoFunnel \in Reading
  BY NoFunnelIsOne
<1> QED
  BY <1>1, <1>2 DEF Touch

LEMMA CommitInv == ASSUME BoardInv, NEW w \in Writers, Commit(w) PROVE BoardInv'
<1> DEFINE job == writer[w].job
           to == writer[w].to
           shelve == writer[w].shelve
           moves == writer[w].kind # "note" /\ to \notin {"keep", writer[w].saw}
           notes == writer[w].kind = "note"
<1>1. /\ status \in [Jobs -> ALL] /\ archived \in [Jobs -> BOOLEAN]
      /\ trail \in [Jobs -> Seq(ALL)] /\ writer \in [Writers -> Written]
      /\ imported \in [Jobs -> {"covered", "applied", "none"}]
      /\ writes \in 0..MaxWrites /\ touched \subseteq Jobs /\ taken \subseteq Jobs
  BY DEF BoardInv, BoardTypeOK, Written
<1>2. /\ job \in Jobs /\ to \in ALL \union {"keep"} /\ (notes => to \in ALL)
  BY <1>1 DEF Commit, BoardInv, Written
<1>3. /\ status' = IF moves THEN [status EXCEPT ![job] = to] ELSE status
      /\ trail' = IF moves \/ notes THEN [trail EXCEPT ![job] = Append(trail[job], to)] ELSE trail
      /\ archived' = IF shelve = "keep" THEN archived
                     ELSE [archived EXCEPT ![job] = (shelve = "set")]
      /\ Touch(job) /\ writer' = [writer EXCEPT ![w] = Idle]
      /\ UNCHANGED <<writes, imported, taken>>
  BY <1>1, <1>2 DEF Commit, boardHistory
<1>4. moves \/ notes => to \in ALL
  BY <1>2
<1>5. status' \in [Jobs -> ALL] /\ trail' \in [Jobs -> Seq(ALL)]
  <2>1. moves \/ notes => Append(trail[job], to) \in Seq(ALL)
    BY <1>1, <1>2, <1>4, AppendedHas
  <2> QED
    BY <1>1, <1>2, <1>3, <1>4, <2>1
<1>6. archived' \in [Jobs -> BOOLEAN]
  BY <1>1, <1>2, <1>3
<1>7. /\ writer' \in [Writers -> Written] /\ writer'[w].at = "off"
      /\ \A v \in Writers : v # w => writer'[v] = writer[v]
  <2>1. Idle \in Written /\ Idle.at = "off"
    BY DEF Idle, WriterAt, Written
  <2> QED
    BY <1>1, <1>3, <2>1
<1>8. funnel' \in Reading /\ touched' \subseteq Jobs
  BY <1>2, <1>3, TouchTypes
<1>9. BoardTypeOK'
  BY <1>1, <1>3, <1>5, <1>6, <1>7, <1>8 DEF BoardTypeOK, Written, Reading
<1>10. ASSUME NEW j \in Jobs, imported[j] = "none" PROVE status'[j] \in ToSet(trail'[j])
  <2>1. status[j] \in ToSet(trail[j])
    BY <1>10 DEF BoardInv
  <2>2. CASE j = job /\ (moves \/ notes)
    <3>1. /\ trail'[j] = Append(trail[j], to)
          /\ status'[j] = to \/ status'[j] = status[j]
      BY <1>1, <1>2, <1>3, <2>2
    <3>2. ToSet(trail'[j]) = ToSet(trail[j]) \union {to}
      BY <1>1, <1>4, <2>2, <3>1, AppendedHas
    <3> QED
      BY <2>1, <3>1, <3>2
  <2>3. CASE ~(j = job /\ (moves \/ notes))
    <3>1. trail'[j] = trail[j] /\ status'[j] = status[j]
      BY <1>1, <1>2, <1>3, <2>3
    <3> QED
      BY <2>1, <3>1
  <2> QED
    BY <2>2, <2>3
<1> QED
  BY <1>3, <1>7, <1>9, <1>10 DEF BoardInv

LEMMA AdvanceInv == ASSUME BoardInv, NEW j \in Jobs, Advance(j) PROVE BoardInv'
<1>1. /\ status \in [Jobs -> ALL] /\ archived \in [Jobs -> BOOLEAN]
      /\ trail \in [Jobs -> Seq(ALL)] /\ writes \in 0..MaxWrites /\ taken \subseteq Jobs
  BY DEF BoardInv, BoardTypeOK
<1>2. PICK to \in ALL : /\ status' = [status EXCEPT ![j] = to]
                        /\ trail' = [trail EXCEPT ![j] = Append(trail[j], to)]
  BY <1>1 DEF Advance
<1>3. /\ writes' = writes + 1 /\ writes < MaxWrites /\ Touch(j) /\ taken' \subseteq Jobs
      /\ UNCHANGED <<archived, imported, writer>>
  BY <1>1 DEF Advance
<1>4. Append(trail[j], to) \in Seq(ALL)
      /\ ToSet(Append(trail[j], to)) = ToSet(trail[j]) \union {to}
  BY <1>1, AppendedHas
<1>5. writes' \in 0..MaxWrites
  BY <1>1, <1>3, BoardAssumption
<1>6. BoardTypeOK'
  <2>1. status' \in [Jobs -> ALL] /\ trail' \in [Jobs -> Seq(ALL)]
    BY <1>1, <1>2, <1>4
  <2>2. funnel' \in Reading /\ touched' \subseteq Jobs
    BY <1>3, TouchTypes
  <2> QED
    BY <1>3, <1>5, <2>1, <2>2 DEF BoardInv, BoardTypeOK, Reading
<1>7. ASSUME NEW k \in Jobs, imported[k] = "none" PROVE status'[k] \in ToSet(trail'[k])
  <2>1. CASE k = j
    <3>1. status'[k] = to /\ trail'[k] = Append(trail[j], to)
      BY <1>1, <1>2, <2>1
    <3> QED
      BY <1>4, <3>1
  <2>2. CASE k # j
    <3>1. status'[k] = status[k] /\ trail'[k] = trail[k]
      BY <1>1, <1>2, <2>2
    <3> QED
      BY <1>7, <3>1 DEF BoardInv
  <2> QED
    BY <2>1, <2>2
<1> QED
  BY <1>3, <1>6, <1>7 DEF BoardInv

\* A reading of the funnel changes nothing of the jobs.
LEMMA FunnelInv == ASSUME BoardInv, FunnelBegins \/ FunnelQueries PROVE BoardInv'
<1>1. /\ UNCHANGED <<status, archived, trail, writer, writes, imported, taken>>
      /\ touched' \subseteq Jobs /\ funnel \in Reading
  BY DEF FunnelBegins, FunnelQueries, boardHistory, BoardInv, BoardTypeOK, Reading
<1>2. funnel' \in Reading
  <2>1. CASE FunnelBegins
    BY <2>1, NoFunnelIsOne DEF FunnelBegins
  <2>2. CASE FunnelQueries
    <3> DEFINE n == funnel.next
    <3>1. n \in 1..8 /\ funnel.now \subseteq Jobs /\ funnel.counts \in Seq(Nat)
          /\ funnel' = StageQueries(n)
      BY <1>1, <2>2 DEF FunnelQueries, Reading
    <3>2. CASE n % 2 = 1
      <4> DEFINE seen == ReachedNow(FunnelStages[(n + 1) \div 2])
      <4>1. seen \subseteq Jobs
        BY DEF ReachedNow, Active
      <4>2. funnel' = [funnel EXCEPT !.next = n + 1, !.now = seen]
        BY <3>1, <3>2 DEF StageQueries
      <4>3. n + 1 \in 0..8
        BY <3>1, <3>2
      <4> HIDE DEF seen
      <4> QED
        BY <1>1, <4>1, <4>2, <4>3 DEF Reading
    <3>3. CASE n % 2 # 1
      <4> DEFINE both == funnel.now \union ReachedBefore(FunnelStages[n \div 2])
      <4>1. both \subseteq Jobs
        BY <3>1 DEF ReachedBefore, Active
      <4>2. Cardinality(both) \in Nat
        BY <4>1, BoardAssumption, FS_Subset, FS_CardinalityType
      <4>3. funnel' = [next |-> (n + 1) % 9, now |-> {},
                       counts |-> Append(funnel.counts, Cardinality(both))]
        BY <3>1, <3>3 DEF StageQueries
      <4>4. (n + 1) % 9 \in 0..8
        BY <3>1
      <4>5. Append(funnel.counts, Cardinality(both)) \in Seq(Nat)
        BY <3>1, <4>2
      <4> HIDE DEF both
      <4> QED
        BY <4>3, <4>4, <4>5 DEF Reading
    <3> QED
      BY <3>2, <3>3
  <2> QED
    BY <2>1, <2>2
<1> QED
  BY <1>1, <1>2 DEF BoardInv, BoardTypeOK, Reading

LEMMA BoardStep == BoardInv /\ [BoardNext]_boardVars => BoardInv'
<1>1. ASSUME BoardInv, UNCHANGED boardVars PROVE BoardInv'
  BY <1>1 DEF boardVars, BoardInv, BoardTypeOK
<1> QED
  BY <1>1, LoadsInv, CommitInv, AdvanceInv, FunnelInv DEF BoardNext

\* Whoever writes at once, with whatever status loaded before, the funnel and the
\* analytics count the same applied jobs as in process, where no import is in play.
THEOREM PanelsAlwaysAgree == BoardSpec => []PanelsAgree
<1>1. BoardInv => PanelsAgree
  <2> SUFFICES ASSUME BoardInv PROVE PanelsAgree
    OBVIOUS
  <2> DEFINE inProcess == FunnelStages[3]
  <2>1. inProcess = POSITIVE
    BY DEF FunnelStages, POSITIVE
  <2>2. \A j \in Jobs : imported[j] = "none" /\ j \in ReachedNow(POSITIVE) => j \in ReachedBefore(POSITIVE)
    BY DEF BoardInv, ReachedNow, ReachedBefore
  <2>3. Outcomes.positive = AppliedByHistory \cap ReachedBefore(POSITIVE)
    BY DEF Outcomes
  <2> QED
    BY <2>1, <2>2, <2>3 DEF PanelsAgree
<1> QED
  BY <1>1, BoardInitInv, BoardStep, PTL DEF BoardSpec

\* The board keeps its types.
THEOREM BoardTypeCorrect == BoardSpec => []BoardTypeOK
<1>1. BoardInv => BoardTypeOK
  BY DEF BoardInv
<1> QED
  BY <1>1, BoardInitInv, BoardStep, PTL DEF BoardSpec

-----------------------------------------------------------------------------
(***************************************************************************)
(* The funnel.  A bar that was read counts every job that belongs to it    *)
(* now and was not touched since the reading began, and no job but those   *)
(* and the touched ones.                                                   *)
(***************************************************************************)

Shown(n) == ReachedNow(FunnelStages[n]) \union ReachedBefore(FunnelStages[n])

\* The query by status saw the jobs that are in the stage now, but for touched ones.
Seen == funnel.now \ touched = ReachedNow(FunnelStages[funnel.next \div 2]) \ touched

Bars ==
    /\ funnel.next = 0 => Len(funnel.counts) \in {0, 4}
    /\ funnel.next # 0 => Len(funnel.counts) = (funnel.next - 1) \div 2
    /\ funnel.next \in {2, 4, 6, 8} => Seen
    /\ \A n \in 1..Len(funnel.counts) :
          /\ Cardinality(Shown(n) \ touched) <= funnel.counts[n]
          /\ funnel.counts[n] <= Cardinality(Shown(n) \union touched)

\* Each stage's statuses are among those of the one before.
LEMMA StagesNarrow ==
    /\ Len(FunnelStages) = 4
    /\ \A n \in 1..3 : FunnelStages[n + 1] \subseteq FunnelStages[n]
BY DEF FunnelStages

LEMMA Counted ==
    ASSUME NEW S, S \subseteq Jobs
    PROVE  IsFiniteSet(S) /\ Cardinality(S) \in Nat
BY BoardAssumption, FS_Subset, FS_CardinalityType

LEMMA ReachedAreJobs ==
    \A S : ReachedNow(S) \subseteq Jobs /\ ReachedBefore(S) \subseteq Jobs
BY DEF ReachedNow, ReachedBefore, Active

\* A job that is written is touched; the others belong where they did.
LEMMA WriteKeepsBars ==
    ASSUME BoardInv, Bars, NEW j \in Jobs, Touch(j),
           \A k \in Jobs : k # j => /\ status'[k] = status[k] /\ archived'[k] = archived[k]
                                    /\ trail'[k] = trail[k]
    PROVE  Bars'
<1>0. funnel \in Reading /\ touched \subseteq Jobs
  BY DEF BoardInv, BoardTypeOK, Reading
<1>1. CASE funnel.next = 0
  <2>1. funnel' = NoFunnel
    BY <1>1 DEF Touch
  <2>2. funnel'.next = 0 /\ Len(funnel'.counts) = 0
    BY <2>1 DEF NoFunnel
  <2> QED
    BY <2>2 DEF Bars
<1>2. CASE funnel.next # 0
  <2>1. funnel' = funnel /\ touched' = touched \union {j}
    BY <1>2 DEF Touch
  <2>2. ASSUME NEW S
        PROVE  /\ ReachedNow(S)' \ touched' = ReachedNow(S) \ touched'
               /\ ReachedBefore(S)' \ touched' = ReachedBefore(S) \ touched'
    BY <2>1 DEF ReachedNow, ReachedBefore, Active
  <2>3. ASSUME NEW n \in 1..Len(funnel.counts)
        PROVE  /\ Cardinality(Shown(n)' \ touched') <= funnel.counts[n]
               /\ funnel.counts[n] <= Cardinality(Shown(n)' \union touched')
    <3>1. /\ Shown(n)' \ touched' \subseteq Shown(n) \ touched
          /\ Shown(n) \union touched \subseteq Shown(n)' \union touched'
      BY <2>1, <2>2 DEF Shown
    <3>2. Shown(n) \subseteq Jobs /\ Shown(n)' \subseteq Jobs /\ touched' \subseteq Jobs
      <4>1. Shown(n)' \ touched' \subseteq Shown(n) \ touched
        BY <3>1
      <4> QED
        BY <1>0, <2>1, <4>1, ReachedAreJobs DEF Shown
    <3>3. /\ Cardinality(Shown(n)' \ touched') <= Cardinality(Shown(n) \ touched)
          /\ Cardinality(Shown(n)' \ touched') \in Nat
          /\ Cardinality(Shown(n) \ touched) \in Nat
      <4>1. IsFiniteSet(Shown(n) \ touched) /\ Shown(n)' \ touched' \subseteq Jobs
            /\ Shown(n) \ touched \subseteq Jobs
        BY <3>2, Counted
      <4> QED
        BY <3>1, <4>1, Counted, FS_Subset
    <3>4. /\ Cardinality(Shown(n) \union touched) <= Cardinality(Shown(n)' \union touched')
          /\ Cardinality(Shown(n) \union touched) \in Nat
          /\ Cardinality(Shown(n)' \union touched') \in Nat
      <4>1. /\ Shown(n)' \union touched' \subseteq Jobs /\ Shown(n) \union touched \subseteq Jobs
            /\ IsFiniteSet(Shown(n)' \union touched')
        BY <1>0, <3>2, Counted
      <4> QED
        BY <3>1, <4>1, Counted, FS_Subset
    <3>5. /\ Cardinality(Shown(n) \ touched) <= funnel.counts[n]
          /\ funnel.counts[n] <= Cardinality(Shown(n) \union touched)
          /\ funnel.counts[n] \in Nat
      <4>1. funnel.counts \in Seq(Nat)
        BY <1>0 DEF Reading
      <4>2. funnel.counts[n] \in Nat
        BY <4>1
      <4> HIDE DEF Shown
      <4> QED
        BY <4>2 DEF Bars
    <3> HIDE DEF Shown
    <3> QED
      BY <3>3, <3>4, <3>5
  <2>4. ASSUME funnel.next \in {2, 4, 6, 8}
        PROVE  Seen'
    <3>1. Seen
      BY <2>4 DEF Bars
    <3> QED
      BY <2>1, <3>1 DEF Seen, ReachedNow, Active
  <2> QED
    BY <1>2, <2>1, <2>3, <2>4 DEF Bars
<1> QED
  BY <1>1, <1>2

\* Nothing the funnel is read from changes.
LEMMA SameBars ==
    ASSUME Bars, UNCHANGED <<status, archived, trail, funnel, touched>>
    PROVE  Bars'
BY DEF Bars, Seen, Shown, ReachedNow, ReachedBefore, Active

\* A query by status keeps what it saw; a query by history adds a bar.
LEMMA QueryKeepsBars ==
    ASSUME BoardInv, Bars, FunnelQueries
    PROVE  Bars'
<1> DEFINE n == funnel.next
           counts == funnel.counts
<1>0. /\ funnel \in Reading /\ touched \subseteq Jobs
      /\ n \in 1..8 /\ funnel' = StageQueries(n)
      /\ UNCHANGED <<status, archived, trail, touched>>
      /\ counts \in Seq(Nat) /\ Len(counts) = (n - 1) \div 2
  BY DEF BoardInv, BoardTypeOK, Reading, FunnelQueries, Bars
<1>1. /\ \A S : ReachedNow(S)' = ReachedNow(S)
      /\ \A m : Shown(m)' = Shown(m)
  BY <1>0 DEF ReachedNow, ReachedBefore, Active, Shown
<1>2. \A m \in 1..Len(counts) :
         /\ Cardinality(Shown(m) \ touched) <= counts[m]
         /\ counts[m] <= Cardinality(Shown(m) \union touched)
  BY DEF Bars
<1>3. CASE n % 2 = 1
  <2>1. funnel' = [funnel EXCEPT !.next = n + 1,
                                 !.now = ReachedNow(FunnelStages[(n + 1) \div 2])]
    BY <1>0, <1>3 DEF StageQueries
  <2>2. /\ funnel'.next = n + 1 /\ funnel'.counts = counts
        /\ funnel'.now = ReachedNow(FunnelStages[(n + 1) \div 2])
    BY <1>0, <2>1 DEF Reading
  <2>3. funnel'.next # 0 /\ Len(funnel'.counts) = (funnel'.next - 1) \div 2
    <3> DEFINE m == n + 1
    <3>1. m # 0 /\ Len(counts) = (m - 1) \div 2
      BY <1>0, <1>3
    <3>2. funnel'.next = m
      BY <2>2
    <3> HIDE DEF m, n
    <3> QED
      BY <2>2, <3>1, <3>2
  <2>4. \A m \in 1..Len(funnel'.counts) :
           /\ Cardinality(Shown(m)' \ touched') <= funnel'.counts[m]
           /\ funnel'.counts[m] <= Cardinality(Shown(m)' \union touched')
    <3> HIDE DEF Shown
    <3> QED
      BY <1>0, <1>1, <1>2, <2>2
  <2>5. Seen'
    BY <1>0, <2>2 DEF Seen, ReachedNow, Active
  <2> QED
    BY <2>3, <2>4, <2>5 DEF Bars
<1>4. CASE n % 2 # 1
  <2> DEFINE m == n \div 2
             both == funnel.now \union ReachedBefore(FunnelStages[m])
  <2>1. /\ funnel'.next = (n + 1) % 9
        /\ funnel'.counts = Append(counts, Cardinality(both))
    BY <1>0, <1>4 DEF StageQueries
  <2>2. n \in {2, 4, 6, 8}
    BY <1>0, <1>4
  <2>3. /\ Len(counts) + 1 = m /\ Len(counts) \in Nat
        /\ (n + 1) % 9 = 0 => m = 4
        /\ (n + 1) % 9 # 0 => m = (((n + 1) % 9) - 1) \div 2
        /\ (n + 1) % 9 \notin {2, 4, 6, 8}
    BY <1>0, <2>2
  <2>4. funnel.now \ touched = ReachedNow(FunnelStages[m]) \ touched
    BY <2>2 DEF Bars, Seen
  <2>5. both \subseteq Jobs /\ Shown(m) \subseteq Jobs
    BY <1>0, ReachedAreJobs DEF Reading, Shown
  <2>6. Shown(m) \ touched \subseteq both /\ both \subseteq Shown(m) \union touched
    BY <2>4 DEF Shown
  <2>7. /\ Cardinality(Shown(m) \ touched) <= Cardinality(both)
        /\ Cardinality(both) <= Cardinality(Shown(m) \union touched)
        /\ Cardinality(both) \in Nat
    <3>1. IsFiniteSet(both) /\ IsFiniteSet(Shown(m) \union touched) /\ Cardinality(both) \in Nat
      <4>1. Shown(m) \union touched \subseteq Jobs
        BY <1>0, <2>5
      <4> HIDE DEF both
      <4> QED
        BY <2>5, <4>1, Counted
    <3> HIDE DEF both
    <3> QED
      BY <2>6, <3>1, FS_Subset
  <2> HIDE DEF both
  <2>8. /\ Len(funnel'.counts) = m
        /\ \A k \in 1..Len(counts) : funnel'.counts[k] = counts[k]
        /\ funnel'.counts[m] = Cardinality(both)
    BY <1>0, <2>1, <2>3, <2>7
  <2>9. ASSUME NEW k \in 1..Len(funnel'.counts)
        PROVE  /\ Cardinality(Shown(k) \ touched) <= funnel'.counts[k]
               /\ funnel'.counts[k] <= Cardinality(Shown(k) \union touched)
    <3>1. k = m \/ k \in 1..Len(counts)
      BY <2>3, <2>8
    <3> QED
      BY <1>2, <2>7, <2>8, <3>1
  <2> HIDE DEF m, n, counts
  <2> QED
    BY <1>0, <1>1, <2>1, <2>3, <2>8, <2>9 DEF Bars
<1> QED
  BY <1>3, <1>4

LEMMA BarsStep == BoardInv /\ Bars /\ [BoardNext]_boardVars => Bars'
<1> SUFFICES ASSUME BoardInv, Bars, [BoardNext]_boardVars PROVE Bars'
  OBVIOUS
<1>0. /\ status \in [Jobs -> ALL] /\ archived \in [Jobs -> BOOLEAN]
      /\ trail \in [Jobs -> Seq(ALL)]
  BY DEF BoardInv, BoardTypeOK
<1>1. ASSUME NEW w \in Writers, NEW j \in Jobs,
             PatchLoads(w, j) \/ MarkLoads(w, j) \/ NoteLoads(w, j) \/ ArchiveLoads(w, j)
                \/ ApplyLoads(w, j)
      PROVE  Bars'
  BY <1>1, SameBars DEF PatchLoads, MarkLoads, NoteLoads, ArchiveLoads, ApplyLoads
<1>2. ASSUME NEW w \in Writers, Commit(w) PROVE Bars'
  <2> DEFINE job == writer[w].job
  <2>1. job \in Jobs /\ Touch(job)
    BY <1>2 DEF Commit, BoardInv
  <2>2. /\ status' = status \/ \E x : status' = [status EXCEPT ![job] = x]
        /\ trail' = trail \/ \E x : trail' = [trail EXCEPT ![job] = x]
        /\ archived' = archived \/ \E x : archived' = [archived EXCEPT ![job] = x]
    BY <1>2 DEF Commit
  <2> HIDE DEF job
  <2>3. \A k \in Jobs : k # job => /\ status'[k] = status[k] /\ archived'[k] = archived[k]
                                   /\ trail'[k] = trail[k]
    BY <1>0, <2>2
  <2> QED
    BY <2>1, <2>3, WriteKeepsBars
<1>3. ASSUME NEW j \in Jobs, Advance(j) PROVE Bars'
  <2>1. \A k \in Jobs : k # j => /\ status'[k] = status[k] /\ archived'[k] = archived[k]
                                 /\ trail'[k] = trail[k]
    BY <1>0, <1>3 DEF Advance
  <2> QED
    BY <1>3, <2>1, WriteKeepsBars DEF Advance
<1>4. ASSUME FunnelBegins PROVE Bars'
  <2>1. funnel' = [NoFunnel EXCEPT !.next = 1]
    BY <1>4 DEF FunnelBegins
  <2>2. funnel'.next = 1 /\ funnel'.counts = <<>>
    BY <2>1 DEF NoFunnel
  <2>3. Len(funnel'.counts) = 0 /\ (funnel'.next - 1) \div 2 = 0
    BY <2>2
  <2> QED
    BY <2>2, <2>3 DEF Bars
<1>5. ASSUME UNCHANGED boardVars PROVE Bars'
  BY <1>5, SameBars DEF boardVars
<1> QED
  BY <1>1, <1>2, <1>3, <1>4, <1>5, QueryKeepsBars DEF BoardNext

\* However many write while the bars are read, one query at a time: each bar is no
\* longer than the one before but for the jobs that were written in the meantime.
THEOREM FunnelAlwaysNarrows == BoardSpec => []FunnelNarrows
<1>1. BoardInit => Bars
  BY DEF BoardInit, Bars, NoFunnel
<1>2. BoardInv /\ Bars => FunnelNarrows
  <2> SUFFICES ASSUME BoardInv, Bars, FunnelIsRead, NEW n \in 1..3
               PROVE  funnel.counts[n + 1] <= funnel.counts[n] + Cardinality(touched)
    BY DEF FunnelNarrows
  <2>1. /\ funnel.counts \in Seq(Nat) /\ touched \subseteq Jobs
        /\ funnel.next = 0 /\ funnel.counts # <<>>
    BY DEF BoardInv, BoardTypeOK, FunnelIsRead
  <2>2. Len(funnel.counts) = 4
    <3>1. Len(funnel.counts) # 0
      BY <2>1
    <3> QED
      BY <2>1, <3>1 DEF Bars
  <2>3. /\ Cardinality(Shown(n) \ touched) <= funnel.counts[n]
        /\ funnel.counts[n + 1] <= Cardinality(Shown(n + 1) \union touched)
        /\ funnel.counts[n] \in Nat /\ funnel.counts[n + 1] \in Nat
    <3>1. n \in 1..Len(funnel.counts) /\ n + 1 \in 1..Len(funnel.counts)
      BY <2>2
    <3>2. funnel.counts[n] \in Nat /\ funnel.counts[n + 1] \in Nat
      BY <2>1, <3>1
    <3> HIDE DEF Shown
    <3> QED
      BY <3>1, <3>2 DEF Bars
  <2>4. Shown(n + 1) \subseteq Shown(n)
    <3>1. FunnelStages[n + 1] \subseteq FunnelStages[n]
      BY StagesNarrow
    <3>2. \A S, T : S \subseteq T => /\ ReachedNow(S) \subseteq ReachedNow(T)
                                     /\ ReachedBefore(S) \subseteq ReachedBefore(T)
      BY DEF ReachedNow, ReachedBefore
    <3> QED
      BY <3>1, <3>2 DEF Shown
  <2>5. Shown(n) \subseteq Jobs /\ Shown(n + 1) \subseteq Jobs
    BY ReachedAreJobs DEF Shown
  <2> DEFINE rest == Shown(n) \ touched
  <2>6. /\ IsFiniteSet(rest) /\ IsFiniteSet(touched) /\ IsFiniteSet(rest \union touched)
        /\ Cardinality(rest) \in Nat /\ Cardinality(touched) \in Nat
        /\ Cardinality(Shown(n + 1) \union touched) \in Nat
        /\ Cardinality(rest \union touched) \in Nat
    <3>1. rest \subseteq Jobs /\ rest \union touched \subseteq Jobs
          /\ Shown(n + 1) \union touched \subseteq Jobs
      BY <2>1, <2>5
    <3> HIDE DEF rest
    <3> QED
      BY <2>1, <3>1, Counted
  <2>7. Shown(n + 1) \union touched \subseteq rest \union touched /\ rest \intersect touched = {}
    BY <2>4
  <2> HIDE DEF rest, Shown
  <2>8. Cardinality(Shown(n + 1) \union touched) <= Cardinality(rest \union touched)
    BY <2>6, <2>7, FS_Subset
  <2>9. Cardinality(rest \union touched) = Cardinality(rest) + Cardinality(touched)
    <3>1. Cardinality(rest \intersect touched) = 0
      BY <2>7, FS_EmptySet
    <3>2. Cardinality(rest \union touched)
            = Cardinality(rest) + Cardinality(touched) - Cardinality(rest \intersect touched)
      BY <2>6, FS_Union
    <3> QED
      BY <2>6, <3>1, <3>2
  <2>10. Cardinality(rest) <= funnel.counts[n]
    BY <2>3 DEF rest
  <2> QED
    BY <2>3, <2>6, <2>8, <2>9, <2>10
<1> QED
  BY <1>1, <1>2, BoardInitInv, BoardStep, BarsStep, PTL DEF BoardSpec
=============================================================================
