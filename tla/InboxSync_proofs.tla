--------------------------- MODULE InboxSync_proofs ---------------------------
(***************************************************************************)
(* Proofs about InboxSync, for any jobs, messages, syncs, verdicts and     *)
(* bounds.                                                                 *)
(***************************************************************************)
EXTENDS InboxSync, TLAPS

\* A run about to write has a message in hand, and a move it decided on is of a
\* job it has read.
InHand ==
    \A p \in Syncs : sync[p].at = "write" =>
        /\ sync[p].batch # <<>>
        /\ sync[p].to # "none" => sync[p].job \in Jobs /\ sync[p].read \in ALL

TypeInv == TypeOK /\ InHand

\* The statuses and events are what they are called in the code.
LEMMA TableFacts ==
    /\ "none" \notin ALL /\ "other" \in EVENTS
    /\ TERMINAL \subseteq ALL /\ OUTCOMES \subseteq DOMAIN EVENT_STATUS
    /\ DOMAIN EVENT_STATUS \subseteq EVENTS
    /\ \A e \in DOMAIN EVENT_STATUS : EVENT_STATUS[e] \in ALL
    /\ \A e \in OUTCOMES : EVENT_STATUS[e] \in TERMINAL
BY DEF ALL, PIPELINE, POST_APPLY, EVENTS, EVENT_STATUS, OUTCOMES, TERMINAL

\* _decide_status returns a status or nothing.
LEMMA DecideTyped ==
    ASSUME NEW current, NEW event
    PROVE  decide_status(current, event) \in ALL \union {"none"}
BY TableFacts DEF decide_status

\* Appending adds one element and keeps the others.
LEMMA AppendFacts ==
    ASSUME NEW S, NEW s \in Seq(S), NEW x \in S
    PROVE  /\ Append(s, x) \in Seq(S)
           /\ DOMAIN Append(s, x) = DOMAIN s \union {Len(s) + 1}
           /\ Len(s) + 1 \notin DOMAIN s
           /\ \A i \in DOMAIN s : Append(s, x)[i] = s[i]
           /\ Append(s, x)[Len(s) + 1] = x
OBVIOUS

\* A sequence holds elements of its set.
LEMMA ElementFacts ==
    ASSUME NEW S, NEW s \in Seq(S), NEW i \in DOMAIN s
    PROVE  s[i] \in S
OBVIOUS

\* A move is by a message or a human, and of a job.
LEMMA MoveFacts ==
    ASSUME TypeInv, NEW n \in DOMAIN moves
    PROVE  /\ moves[n] \in MoveSet
           /\ moves[n].msg \in Messages \union {"human"}
           /\ moves[n].job \in Jobs /\ moves[n].job # "none"
<1>1. moves[n] \in MoveSet
  BY ElementFacts DEF TypeInv, TypeOK
<1> QED
  BY <1>1, InboxAssumption DEF MoveSet

\* A run that is not idle is a record with the fields of a run.
LEMMA Running ==
    ASSUME TypeOK, NEW p \in Syncs, sync[p].at # "idle"
    PROVE  sync[p] \in Runs
BY DEF TypeOK, Idle

\* What the transaction finds when it starts: a message, a row to write, and, if
\* it moves a job, a move to add.
LEMMA AtWrite ==
    ASSUME TypeInv, NEW p \in Syncs, sync[p].at = "write"
    PROVE  /\ sync[p] \in Runs /\ sync[p].batch # <<>>
           /\ TheMessage(p) \in Messages /\ Tail(sync[p].batch) \in Seq(Messages)
           /\ TheRow(p) \in Rows /\ TheRow(p) # NoRow
           /\ sync[p].to # "none" =>
                /\ sync[p].job \in Jobs /\ sync[p].to \in ALL
                /\ [msg |-> TheMessage(p), job |-> sync[p].job, read |-> sync[p].read,
                    from |-> status[sync[p].job], to |-> sync[p].to] \in MoveSet
<1>1. sync[p] \in Runs
  BY Running DEF TypeInv
<1>2. sync[p].batch \in Seq(Messages) /\ sync[p].batch # <<>>
  BY <1>1 DEF TypeInv, InHand, Runs
<1>3. TheMessage(p) \in Messages /\ Tail(sync[p].batch) \in Seq(Messages)
  BY <1>2 DEF TheMessage
<1>4. TheRow(p) \in Rows /\ TheRow(p).event # "none"
  BY <1>1 DEF TheRow, Rows, Runs, EVENTS
<1>5. TheRow(p) # NoRow
  BY <1>4 DEF NoRow
<1>6. ASSUME sync[p].to # "none"
      PROVE  /\ sync[p].job \in Jobs /\ sync[p].to \in ALL
             /\ [msg |-> TheMessage(p), job |-> sync[p].job, read |-> sync[p].read,
                 from |-> status[sync[p].job], to |-> sync[p].to] \in MoveSet
  <2>1. sync[p].job \in Jobs /\ sync[p].read \in ALL /\ sync[p].to \in ALL
    BY <1>1, <1>6 DEF TypeInv, InHand, Runs
  <2>2. status[sync[p].job] \in ALL
    BY <2>1 DEF TypeInv, TypeOK
  <2> QED
    BY <1>3, <2>1, <2>2 DEF MoveSet
<1> QED
  BY <1>1, <1>2, <1>3, <1>4, <1>5, <1>6

\* The run after its transaction, and the tables, are typed.
LEMMA RecordTyped ==
    ASSUME TypeInv, NEW p \in Syncs, Record(p)
    PROVE  TypeInv'
<1>1. sync[p].at = "write"
  BY DEF Record
<1> DEFINE m == TheMessage(p)
<1>2. CASE emails[m] # NoRow
  BY <1>2 DEF Record, TypeInv, TypeOK, InHand, Idle
<1>3. CASE emails[m] = NoRow
  <2>1. /\ Move(m, sync[p])
        /\ emails' = [emails EXCEPT ![m] = TheRow(p)]
        /\ GoOn(p)
    BY <1>3 DEF Record
  <2>2. emails' \in [Messages -> Rows \union {NoRow}]
    BY <1>1, <2>1, AtWrite DEF TypeInv, TypeOK
  <2>3. status' \in [Jobs -> ALL] /\ moves' \in Seq(MoveSet)
    <3>1. CASE sync[p].to = "none"
      BY <2>1, <3>1 DEF Move, TypeInv, TypeOK
    <3>2. CASE sync[p].to # "none"
      <4>1. PICK x \in MoveSet : moves' = Append(moves, x)
        BY <1>1, <2>1, <3>2, AtWrite DEF Move
      <4>2. status' = [status EXCEPT ![sync[p].job] = sync[p].to]
        BY <2>1, <3>2 DEF Move
      <4>3. sync[p].to \in ALL
        BY <1>1, <3>2, AtWrite
      <4> QED
        BY <4>1, <4>2, <4>3, AppendFacts DEF TypeInv, TypeOK
    <3> QED
      BY <3>1, <3>2
  <2>4. sync' \in [Syncs -> Runs \union {Idle}] /\ sync'[p].at = "next"
    <3> DEFINE r == [sync[p] EXCEPT !.at = "next", !.batch = Tail(@), !.job = "none",
                                    !.event = "other", !.read = "none", !.to = "none"]
    <3>1. sync[p] \in Runs /\ Tail(sync[p].batch) \in Seq(Messages)
      BY <1>1, AtWrite
    <3>2. r \in Runs /\ r.at = "next"
      BY <3>1, TableFacts DEF Runs
    <3>3. sync' = [sync EXCEPT ![p] = r]
      BY <2>1 DEF GoOn
    <3> QED
      BY <3>2, <3>3 DEF TypeInv, TypeOK
  <2>5. \A q \in Syncs : q # p => sync'[q] = sync[q]
    BY <2>1 DEF GoOn, TypeInv, TypeOK
  <2> QED
    BY <2>2, <2>3, <2>4, <2>5 DEF TypeInv, TypeOK, InHand
<1> QED
  BY <1>2, <1>3

\* A new message is read and judged.
LEMMA ReadTyped ==
    ASSUME TypeInv, NEW p \in Syncs, Read(p)
    PROVE  TypeInv'
<1>1. /\ sync[p] \in Runs /\ sync[p].batch # <<>>
      /\ TheMessage(p) \in Messages
  <2>1. sync[p].at = "next" /\ sync[p].batch # <<>>
    BY DEF Read, AtMessage
  <2>2. sync[p] \in Runs
    BY <2>1, Running DEF TypeInv
  <2>3. sync[p].batch \in Seq(Messages)
    BY <2>2 DEF Runs
  <2> QED
    BY <2>1, <2>2, <2>3 DEF TheMessage
<1>2. PICK v \in Reports :
        LET j == Match(v, sync[p].cands) IN
        sync' = [sync EXCEPT
                    ![p].at = "write",
                    ![p].known = @ \union {TheMessage(p)},
                    ![p].job = j,
                    ![p].event = v.event,
                    ![p].read = IF j = "none" THEN "none" ELSE status[j],
                    ![p].to = IF j = "none" THEN "none" ELSE decide_status(status[j], v.event)]
  BY DEF Read
<1> DEFINE j  == Match(v, sync[p].cands)
           rd == IF j = "none" THEN "none" ELSE status[j]
           to == IF j = "none" THEN "none" ELSE decide_status(status[j], v.event)
           r  == [sync[p] EXCEPT !.at = "write", !.known = @ \union {TheMessage(p)},
                                 !.job = j, !.event = v.event, !.read = rd, !.to = to]
<1>3. v.event \in EVENTS
  BY InboxAssumption DEF Verdict
<1>4. j \in Jobs \union {"none"}
  <2>1. sync[p].cands \subseteq Jobs
    BY <1>1 DEF Runs
  <2> QED
    BY <2>1 DEF Match
<1>5. /\ rd \in ALL \union {"none"} /\ to \in ALL \union {"none"}
      /\ to # "none" => j \in Jobs /\ rd \in ALL
  <2>1. CASE j = "none"
    BY <2>1
  <2>2. CASE j # "none"
    <3>1. j \in Jobs /\ status[j] \in ALL
      BY <1>4, <2>2 DEF TypeInv, TypeOK
    <3>2. decide_status(status[j], v.event) \in ALL \union {"none"}
      BY DecideTyped
    <3> HIDE DEF j
    <3> QED
      BY <2>2, <3>1, <3>2
  <2> QED
    BY <2>1, <2>2
<1> HIDE DEF j, rd, to
<1>6. /\ r \in Runs /\ r.batch # <<>>
      /\ r.to # "none" => r.job \in Jobs /\ r.read \in ALL
  <2>1. sync[p].known \union {TheMessage(p)} \in SUBSET Messages
    BY <1>1 DEF Runs
  <2> QED
    BY <1>1, <1>3, <1>4, <1>5, <2>1 DEF Runs
<1>7. sync' = [sync EXCEPT ![p] = r]
  BY <1>2 DEF j, rd, to
<1> QED
  BY <1>6, <1>7 DEF Read, TypeInv, TypeOK, InHand

\* The type invariant with what a run has in hand.
LEMMA TypeInvHolds == Spec => []TypeInv
<1>1. Init => TypeInv
  BY InboxAssumption DEF Init, TypeInv, TypeOK, InHand, Idle
<1>2. TypeInv /\ [Next]_vars => TypeInv'
  <2> SUFFICES ASSUME TypeInv, [Next]_vars PROVE TypeInv'
    OBVIOUS
  <2>1. ASSUME NEW p \in Syncs, StartRun(p) PROVE TypeInv'
    <3>1. PICK cands \in SUBSET Jobs :
            sync' = [sync EXCEPT ![p] =
                       [at |-> "agent", cands |-> cands,
                        known |-> {m \in Messages : emails[m] # NoRow},
                        batch |-> <<>>, job |-> "none", event |-> "other",
                        read |-> "none", to |-> "none"]]
      BY <2>1 DEF StartRun
    <3>2. sync'[p] \in Runs /\ sync'[p].at = "agent"
      BY <3>1, TableFacts DEF Runs, TypeInv, TypeOK
    <3> QED
      BY <2>1, <3>1, <3>2 DEF StartRun, TypeInv, TypeOK, InHand
  <2>2. ASSUME NEW p \in Syncs, AgentReturns(p) PROVE TypeInv'
    <3>1. PICK n \in 0..MaxBatch : \E b \in [1..n -> Messages] :
            sync' = [sync EXCEPT ![p].at = "next", ![p].batch = b]
      BY <2>2 DEF AgentReturns
    <3>2. PICK b \in [1..n -> Messages] :
            sync' = [sync EXCEPT ![p].at = "next", ![p].batch = b]
      BY <3>1
    <3>3. b \in Seq(Messages)
      <4>1. n \in Nat
        BY InboxAssumption
      <4> QED
        BY <4>1
    <3>4. sync[p] \in Runs
      BY <2>2, Running DEF AgentReturns, TypeInv
    <3>5. sync'[p] \in Runs /\ sync'[p].at = "next"
      BY <3>2, <3>3, <3>4 DEF Runs, TypeInv, TypeOK
    <3> QED
      BY <2>2, <3>2, <3>5 DEF AgentReturns, TypeInv, TypeOK, InHand
  <2>3. ASSUME NEW p \in Syncs, RunFails(p) PROVE TypeInv'
    BY <2>3 DEF RunFails, TypeInv, TypeOK, InHand, Idle
  <2>4. ASSUME NEW p \in Syncs, SkipKnown(p) PROVE TypeInv'
    <3>1. sync[p] \in Runs /\ sync[p].at = "next" /\ sync[p].batch # <<>>
      BY <2>4, Running DEF SkipKnown, AtMessage, TypeInv
    <3>2. Tail(sync[p].batch) \in Seq(Messages)
      BY <3>1 DEF Runs
    <3>3. sync'[p] \in Runs /\ sync'[p].at = "next"
      BY <2>4, <3>1, <3>2 DEF SkipKnown, Runs, TypeInv, TypeOK
    <3> QED
      BY <2>4, <3>3 DEF SkipKnown, TypeInv, TypeOK, InHand
  <2>5. ASSUME NEW p \in Syncs, Read(p) PROVE TypeInv'
    BY <2>5, ReadTyped
  <2>6. ASSUME NEW p \in Syncs, Record(p) PROVE TypeInv'
    BY <2>6, RecordTyped
  <2>7. ASSUME NEW p \in Syncs, EndRun(p) PROVE TypeInv'
    BY <2>7 DEF EndRun, TypeInv, TypeOK, InHand, Idle
  <2>8. ASSUME Human PROVE TypeInv'
    <3>1. PICK h \in HumanMoves, j \in Jobs :
            /\ status' = [status EXCEPT ![j] = h[2]]
            /\ moves' = Append(moves, [msg |-> "human", job |-> j, read |-> h[1],
                                       from |-> h[1], to |-> h[2]])
      BY <2>8 DEF Human
    <3>2. h[1] \in ALL /\ h[2] \in ALL
      BY InboxAssumption
    <3>3. moves' \in Seq(MoveSet)
      BY <3>1, <3>2, AppendFacts DEF MoveSet, TypeInv, TypeOK
    <3> QED
      BY <2>8, <3>1, <3>2, <3>3 DEF Human, TypeInv, TypeOK, InHand
  <2>9. CASE UNCHANGED vars
    BY <2>9 DEF vars, TypeInv, TypeOK, InHand
  <2> QED
    BY <2>1, <2>2, <2>3, <2>4, <2>5, <2>6, <2>7, <2>8, <2>9 DEF Next, RunStep
<1> QED
  BY <1>1, <1>2, PTL DEF Spec

\* Statuses, rows, runs and moves keep their types: whatever the agent reports,
\* no event and no "no change" is ever stored as a status, and no row names a job
\* that does not exist.
THEOREM TypeCorrect == Spec => []TypeOK
<1>1. TypeInv => TypeOK
  BY DEF TypeInv
<1> QED
  BY <1>1, TypeInvHolds, PTL

-----------------------------------------------------------------------------
\* A transaction leaves everything alone, records the message, or records it with
\* a move of the job its row names.
LEMMA RecordEffect ==
    ASSUME TypeInv, NEW p \in Syncs, Record(p)
    PROVE  LET m == TheMessage(p)
               r == sync[p]
           IN  \/ UNCHANGED <<status, emails, moves>>
               \/ /\ emails[m] = NoRow
                  /\ emails' = [emails EXCEPT ![m] = TheRow(p)]
                  /\ \/ r.to = "none" /\ UNCHANGED <<status, moves>>
                     \/ /\ r.to # "none"
                        /\ status' = [status EXCEPT ![r.job] = r.to]
                        /\ moves' = Append(moves,
                              [msg |-> m, job |-> r.job, read |-> r.read,
                               from |-> status[r.job], to |-> r.to])
BY DEF Record, Move

\* Every step but a transaction and a human's leaves the database alone.
LEMMA QuietSteps ==
    ASSUME NEW p \in Syncs, RunStep(p), ~ Record(p)
    PROVE  UNCHANGED <<status, emails, moves>>
BY DEF RunStep, StartRun, AgentReturns, RunFails, SkipKnown, Read, EndRun

\* A message moves one job, once, however many runs read it and whatever verdicts
\* they have on it: the move and the message's row are one transaction.
THEOREM OneMove == Spec => []MovedOnce
<1>1. Init => MovedOnce
  BY DEF Init, MovedOnce
<1>2. TypeInv /\ MovedOnce /\ [Next]_vars => MovedOnce'
  <2> SUFFICES ASSUME TypeInv, MovedOnce, [Next]_vars PROVE MovedOnce'
    OBVIOUS
  <2>0. /\ moves \in Seq(MoveSet) /\ emails \in [Messages -> Rows \union {NoRow}]
        /\ status \in [Jobs -> ALL]
    BY DEF TypeInv, TypeOK
  <2>1. ASSUME NEW p \in Syncs, Record(p) PROVE MovedOnce'
    <3> DEFINE m == TheMessage(p)
               r == sync[p]
               x == [msg |-> m, job |-> r.job, read |-> r.read,
                     from |-> status[r.job], to |-> r.to]
    <3>1. r.at = "write"
      BY <2>1 DEF Record
    <3>2. m \in Messages
      BY <3>1, AtWrite
    <3>3. ASSUME emails[m] = NoRow, NEW n \in DOMAIN moves PROVE moves[n].msg # m
      <4>1. moves[n].job # "none"
        BY MoveFacts
      <4> QED
        BY <3>2, <3>3, <4>1, InboxAssumption DEF MovedOnce, NoRow
    <3>4. CASE UNCHANGED <<status, emails, moves>>
      BY <3>4 DEF MovedOnce
    <3>5. CASE /\ emails[m] = NoRow /\ emails' = [emails EXCEPT ![m] = TheRow(p)]
               /\ r.to = "none" /\ UNCHANGED moves
      BY <2>0, <3>2, <3>3, <3>5, MoveFacts DEF MovedOnce
    <3>6. CASE /\ emails[m] = NoRow /\ emails' = [emails EXCEPT ![m] = TheRow(p)]
               /\ r.to # "none" /\ moves' = Append(moves, x)
      <4>1. x \in MoveSet
        BY <3>1, <3>6, AtWrite
      <4>2. /\ DOMAIN moves' = DOMAIN moves \union {Len(moves) + 1}
            /\ \A n \in DOMAIN moves : moves'[n] = moves[n]
            /\ moves'[Len(moves) + 1] = x
        BY <2>0, <3>6, <4>1, AppendFacts
      <4>3. x.msg = m /\ x.job = TheRow(p).job /\ emails'[m] = TheRow(p)
        BY <2>0, <3>2, <3>6 DEF TheRow
      <4>4. \A k \in Messages : k # m => emails'[k] = emails[k]
        BY <2>0, <3>6
      <4>5. \A n \in DOMAIN moves : moves[n].msg # m
        BY <3>3, <3>6
      <4>6. \A n \in DOMAIN moves : moves[n].msg \in Messages \union {"human"}
        BY MoveFacts
      <4> HIDE DEF m, x
      <4> QED
        BY <4>2, <4>3, <4>4, <4>5, <4>6 DEF MovedOnce
    <3> QED
      BY <2>1, <3>4, <3>5, <3>6, RecordEffect
  <2>2. CASE Human
    <3>1. PICK h \in HumanMoves, j \in Jobs :
            moves' = Append(moves, [msg |-> "human", job |-> j, read |-> h[1],
                                    from |-> h[1], to |-> h[2]])
      BY <2>2 DEF Human
    <3> DEFINE x == [msg |-> "human", job |-> j, read |-> h[1], from |-> h[1], to |-> h[2]]
    <3>2. x \in MoveSet
      BY InboxAssumption DEF MoveSet
    <3>3. /\ DOMAIN moves' = DOMAIN moves \union {Len(moves) + 1}
          /\ \A n \in DOMAIN moves : moves'[n] = moves[n]
          /\ moves'[Len(moves) + 1] = x
      BY <2>0, <3>1, <3>2, AppendFacts
    <3>4. x.msg = "human" /\ emails' = emails
      BY <2>2 DEF Human
    <3> HIDE DEF x
    <3> QED
      BY <3>3, <3>4 DEF MovedOnce
  <2>3. ASSUME NEW p \in Syncs, RunStep(p), ~ Record(p) PROVE MovedOnce'
    BY <2>3, QuietSteps DEF MovedOnce
  <2>4. CASE UNCHANGED vars
    BY <2>4 DEF vars, MovedOnce
  <2> QED
    BY <2>1, <2>2, <2>3, <2>4 DEF Next
<1> QED
  BY <1>1, <1>2, TypeInvHolds, PTL DEF Spec

-----------------------------------------------------------------------------
(***************************************************************************)
(* OutcomeStands.  A run decides from a status that may have moved on when *)
(* it writes.  What saves it: without humans, and when no write goes over  *)
(* another, the status only ever advances, so a "no change" decided on an  *)
(* older status is still right.                                            *)
(***************************************************************************)

Stands(j) ==
    \/ \E e \in Outcomes(j) : status[j] = EVENT_STATUS[e]
    \/ /\ Outcomes(j) = {}
       /\ \/ status[j] \in TERMINAL
          \/ \A e \in Said(j) : Rank(EVENT_STATUS[e]) <= Rank(status[j])

\* The job has only advanced since its status was s.
AdvancedFrom(j, s) ==
    /\ s \in TERMINAL => /\ status[j] \in TERMINAL
                         /\ status[j] = s \/ Outcomes(j) # {}
    /\ s \notin TERMINAL => status[j] \in TERMINAL \/ Rank(s) <= Rank(status[j])

\* What a run about to record a matched message knows.
Decided(p) ==
    sync[p].at = "write" /\ sync[p].job # "none" =>
        /\ sync[p].read \in ALL
        /\ sync[p].to = decide_status(sync[p].read, sync[p].event)
        /\ Undisturbed(sync[p].job) => AdvancedFrom(sync[p].job, sync[p].read)

StandInv == OutcomeStands /\ \A p \in Syncs : Decided(p)

LEMMA StandsDef == OutcomeStands <=> \A j \in Jobs : Undisturbed(j) => Stands(j)
BY DEF OutcomeStands, Stands

LEMMA RankNat == \A s : Rank(s) \in Nat
BY DEF Rank, RANK

\* _decide_status, case by case.
LEMMA DecideFacts ==
    ASSUME NEW current, NEW event
    PROVE  LET to == decide_status(current, event) IN
           /\ to # "none" => /\ event \in DOMAIN EVENT_STATUS /\ to = EVENT_STATUS[event]
                             /\ event \in OUTCOMES => to \in TERMINAL
                             /\ event \notin OUTCOMES => /\ current \notin TERMINAL
                                                        /\ Rank(current) < Rank(to)
           /\ to = "none" /\ event \in OUTCOMES => current = EVENT_STATUS[event]
           /\ to = "none" /\ event \in DOMAIN EVENT_STATUS /\ event \notin OUTCOMES =>
                \/ current \in TERMINAL
                \/ Rank(EVENT_STATUS[event]) <= Rank(current)
<1>1. Rank(current) \in Nat /\ Rank(EVENT_STATUS[event]) \in Nat
  BY RankNat
<1>2. event \in DOMAIN EVENT_STATUS => EVENT_STATUS[event] # "none"
  BY TableFacts
<1>3. event \in OUTCOMES => event \in DOMAIN EVENT_STATUS /\ EVENT_STATUS[event] \in TERMINAL
  BY TableFacts
<1> QED
  BY <1>1, <1>2, <1>3 DEF decide_status

\* A new row adds its event to what is said of its job, and nothing to others.
LEMMA SaidAfter ==
    ASSUME TypeInv, NEW m \in Messages, NEW row \in Rows, NEW j \in Jobs,
           emails[m] = NoRow, emails' = [emails EXCEPT ![m] = row]
    PROVE  Said(j)' = IF row.job = j
                      THEN Said(j) \union ({row.event} \intersect DOMAIN EVENT_STATUS)
                      ELSE Said(j)
<1>1. emails'[m] = row /\ \A k \in Messages : k # m => emails'[k] = emails[k]
  BY DEF TypeInv, TypeOK
<1>2. emails[m].job # j
  BY InboxAssumption DEF NoRow
<1>3. CASE row.job = j
  <2>1. {n \in Messages : emails'[n].job = j} = {n \in Messages : emails[n].job = j} \union {m}
    BY <1>1, <1>3
  <2> QED
    BY <1>1, <1>2, <1>3, <2>1 DEF Said
<1>4. CASE row.job # j
  <2>1. {n \in Messages : emails'[n].job = j} = {n \in Messages : emails[n].job = j}
    BY <1>1, <1>2, <1>4
  <2>2. \A n \in {k \in Messages : emails[k].job = j} : emails'[n].event = emails[n].event
    BY <1>1, <1>2
  <2> QED
    BY <1>4, <2>1, <2>2 DEF Said
<1> QED
  BY <1>3, <1>4

\* A job undisturbed after a move was so before, and the move went over nothing.
LEMMA UndisturbedAfter ==
    ASSUME TypeInv, NEW x \in MoveSet, moves' = Append(moves, x),
           NEW j \in Jobs, Undisturbed(j)'
    PROVE  /\ Undisturbed(j)
           /\ x.job = j => x.msg # "human" /\ x.read = x.from
<1>1. /\ DOMAIN moves' = DOMAIN moves \union {Len(moves) + 1}
      /\ \A n \in DOMAIN moves : moves'[n] = moves[n]
      /\ moves'[Len(moves) + 1] = x
  BY AppendFacts DEF TypeInv, TypeOK
<1> QED
  BY <1>1 DEF Undisturbed

\* A transaction, seen from a job no human moved and no write went over.
LEMMA RecordStands ==
    ASSUME TypeInv, StandInv, NEW p \in Syncs, Record(p),
           NEW j \in Jobs, Undisturbed(j)'
    PROVE  /\ Undisturbed(j)
           /\ Stands(j)'
           /\ \A s \in ALL : AdvancedFrom(j, s) => AdvancedFrom(j, s)'
<1> DEFINE m == TheMessage(p)
           r == sync[p]
           x == [msg |-> m, job |-> r.job, read |-> r.read, from |-> status[r.job], to |-> r.to]
           e == r.event
<1>1. /\ r.at = "write" /\ m \in Messages
      /\ TheRow(p) \in Rows /\ TheRow(p).job = r.job /\ TheRow(p).event = e
      /\ r.to # "none" => r.job \in Jobs /\ r.to \in ALL /\ x \in MoveSet
  BY AtWrite DEF Record, TheRow
<1>2. Undisturbed(j) => Stands(j)
  BY StandsDef DEF StandInv
<1>3. CASE UNCHANGED <<status, emails, moves>>
  BY <1>2, <1>3 DEF Undisturbed, Stands, AdvancedFrom, Outcomes, Said
<1>4. CASE emails[m] = NoRow /\ emails' = [emails EXCEPT ![m] = TheRow(p)]
  <2>1. Said(j)' = IF r.job = j THEN Said(j) \union ({e} \intersect DOMAIN EVENT_STATUS)
                                ELSE Said(j)
    BY <1>1, <1>4, SaidAfter
  <2>2. /\ Outcomes(j) \subseteq Outcomes(j)'
        /\ r.job # j => Outcomes(j)' = Outcomes(j)
        /\ e \notin OUTCOMES => Outcomes(j)' = Outcomes(j)
        /\ r.job = j /\ e \in OUTCOMES => e \in Outcomes(j)'
    BY <2>1, TableFacts DEF Outcomes
  <2>3. r.job = j => /\ r.read \in ALL /\ r.to = decide_status(r.read, e)
                     /\ Undisturbed(j) => AdvancedFrom(j, r.read)
    BY <1>1, InboxAssumption DEF StandInv, Decided
  <2>4. CASE r.to = "none" /\ UNCHANGED <<status, moves>>
    <3>1. Undisturbed(j) /\ Stands(j)
      BY <1>2, <2>4 DEF Undisturbed
    <3>2. \A s \in ALL : AdvancedFrom(j, s) => AdvancedFrom(j, s)'
      BY <2>2, <2>4 DEF AdvancedFrom
    <3>3. CASE r.job # j
      <4>1. Said(j)' = Said(j) /\ Outcomes(j)' = Outcomes(j) /\ status' = status
        BY <2>1, <2>2, <2>4, <3>3
      <4> QED
        BY <3>1, <3>2, <4>1 DEF Stands
    <3>4. CASE r.job = j /\ e \in OUTCOMES
      <4>1. r.read = EVENT_STATUS[e] /\ r.read \in TERMINAL
        BY <2>3, <2>4, <3>4, DecideFacts, TableFacts
      <4>2. status[j] = r.read \/ Outcomes(j) # {}
        BY <2>3, <3>1, <3>4, <4>1 DEF AdvancedFrom
      <4>3. status[j] = EVENT_STATUS[e] \/ \E f \in Outcomes(j) : status[j] = EVENT_STATUS[f]
        BY <3>1, <4>1, <4>2 DEF Stands
      <4>4. \E f \in Outcomes(j)' : status'[j] = EVENT_STATUS[f]
        BY <2>2, <2>4, <3>4, <4>3
      <4> QED
        BY <3>1, <3>2, <4>4 DEF Stands
    <3>5. CASE r.job = j /\ e \notin OUTCOMES
      <4>1. Outcomes(j)' = Outcomes(j) /\ status' = status
        BY <2>2, <2>4, <3>5
      <4>2. CASE e \notin DOMAIN EVENT_STATUS
        BY <2>1, <3>1, <3>2, <4>1, <4>2 DEF Stands
      <4>3. CASE e \in DOMAIN EVENT_STATUS
        <5>1. r.read \in TERMINAL \/ Rank(EVENT_STATUS[e]) <= Rank(r.read)
          BY <2>3, <2>4, <3>5, <4>3, DecideFacts
        <5>2. status[j] \in TERMINAL \/ Rank(EVENT_STATUS[e]) <= Rank(status[j])
          <6>1. /\ Rank(EVENT_STATUS[e]) \in Nat /\ Rank(r.read) \in Nat
                /\ Rank(status[j]) \in Nat
            BY RankNat
          <6> QED
            BY <2>3, <3>1, <3>5, <5>1, <6>1 DEF AdvancedFrom
        <5>3. Said(j)' = Said(j) \union {e}
          BY <2>1, <3>5, <4>3
        <5> QED
          BY <3>1, <3>2, <4>1, <5>2, <5>3 DEF Stands
      <4> QED
        BY <4>2, <4>3
    <3> QED
      BY <3>1, <3>2, <3>3, <3>4, <3>5
  <2>5. CASE /\ r.to # "none" /\ moves' = Append(moves, x)
             /\ status' = [status EXCEPT ![r.job] = r.to]
    <3>1. Undisturbed(j) /\ (r.job = j => r.read = status[j])
      BY <1>1, <2>5, UndisturbedAfter
    <3>2. CASE r.job # j
      <4>1. status'[j] = status[j]
        BY <1>1, <2>5, <3>2 DEF TypeInv, TypeOK
      <4> QED
        BY <1>2, <2>1, <2>2, <3>1, <3>2, <4>1 DEF Stands, AdvancedFrom
    <3>3. CASE r.job = j
      <4>1. /\ status'[j] = r.to /\ r.read = status[j]
            /\ e \in DOMAIN EVENT_STATUS /\ r.to = EVENT_STATUS[e]
            /\ e \in OUTCOMES => r.to \in TERMINAL
            /\ e \notin OUTCOMES => /\ status[j] \notin TERMINAL
                                    /\ Rank(status[j]) < Rank(r.to)
        BY <1>1, <2>3, <2>5, <3>1, <3>3, DecideFacts DEF TypeInv, TypeOK
      <4>2. CASE e \in OUTCOMES
        <5>1. e \in Outcomes(j)' /\ status'[j] = EVENT_STATUS[e] /\ status'[j] \in TERMINAL
          BY <2>2, <3>3, <4>1, <4>2
        <5> QED
          BY <3>1, <5>1 DEF Stands, AdvancedFrom
      <4>3. CASE e \notin OUTCOMES
        <5>1. /\ \A s : Rank(s) \in Nat
              /\ Outcomes(j)' = Outcomes(j) /\ Said(j)' = Said(j) \union {e}
          BY <2>1, <2>2, <3>3, <4>1, <4>3, RankNat
        <5>2. Outcomes(j) = {}
          <6>1. \A f \in Outcomes(j) : EVENT_STATUS[f] \in TERMINAL
            BY TableFacts DEF Outcomes
          <6> QED
            BY <1>2, <3>1, <4>1, <4>3, <6>1 DEF Stands
        <5>3. \A f \in Said(j) : Rank(EVENT_STATUS[f]) <= Rank(status[j])
          BY <1>2, <3>1, <4>1, <4>3, <5>2 DEF Stands
        <5>4. \A f \in Said(j)' : Rank(EVENT_STATUS[f]) <= Rank(status'[j])
          BY <4>1, <4>3, <5>1, <5>3
        <5>5. \A s \in ALL : AdvancedFrom(j, s) => AdvancedFrom(j, s)'
          BY <4>1, <4>3, <5>1 DEF AdvancedFrom
        <5> QED
          BY <3>1, <5>1, <5>2, <5>4, <5>5 DEF Stands
      <4> QED
        BY <4>2, <4>3
    <3> QED
      BY <3>2, <3>3
  <2> QED
    BY <1>3, <2>4, <2>5, RecordEffect
<1> QED
  BY <1>3, <1>4, RecordEffect

\* Recording a message keeps what every run knows, and leaves the one at work with
\* nothing decided.
LEMMA RecordKeepsDecided ==
    ASSUME TypeInv, StandInv, NEW p \in Syncs, Record(p), NEW q \in Syncs
    PROVE  Decided(q)'
<1>1. CASE q = p
  <2>1. sync[p] \in Runs
    BY AtWrite DEF Record
  <2>2. CASE sync' = [sync EXCEPT ![p] = Idle]
    BY <1>1, <2>2 DEF Idle, TypeInv, TypeOK, Decided
  <2>3. CASE GoOn(p)
    <3>1. sync'[p].at = "next"
      BY <2>1, <2>3 DEF GoOn, Runs, TypeInv, TypeOK
    <3> QED
      BY <1>1, <3>1 DEF Decided
  <2> QED
    BY <2>2, <2>3 DEF Record
<1>2. CASE q # p
  <2>1. sync'[q] = sync[q]
    BY <1>2 DEF Record, GoOn, TypeInv, TypeOK
  <2>2. sync[q].at = "write" /\ sync[q].job # "none" => sync[q].job \in Jobs
    BY Running DEF TypeInv, Runs
  <2>3. ASSUME sync[q].at = "write", sync[q].job # "none"
        PROVE  Undisturbed(sync[q].job)' =>
                 AdvancedFrom(sync[q].job, sync[q].read)'
    <3>1. sync[q].job \in Jobs /\ sync[q].read \in ALL
      BY <2>2, <2>3 DEF StandInv, Decided
    <3>2. Undisturbed(sync[q].job) => AdvancedFrom(sync[q].job, sync[q].read)
      BY <2>3 DEF StandInv, Decided
    <3> DEFINE j == sync[q].job
               s == sync[q].read
    <3>3. j \in Jobs /\ s \in ALL /\ (Undisturbed(j) => AdvancedFrom(j, s))
      BY <3>1, <3>2
    <3>4. ASSUME Undisturbed(j)' PROVE AdvancedFrom(j, s)'
      BY <2>1, <3>3, <3>4, RecordStands
    <3> QED
      BY <3>4
  <2> QED
    BY <2>1, <2>3 DEF StandInv, Decided
<1> QED
  BY <1>1, <1>2

\* The mail about a job no human moved, and on which no sync wrote over another,
\* has its effect whatever the order and the number of runs: an outcome it brought
\* stands, and otherwise the job is as far as any message says.
THEOREM OutcomesStand == Spec => []OutcomeStands
<1>1. Init => StandInv
  <2> SUFFICES ASSUME Init PROVE StandInv
    OBVIOUS
  <2>1. \A j \in Jobs : Said(j) = {} /\ Outcomes(j) = {}
    BY InboxAssumption DEF Init, Said, Outcomes, NoRow
  <2>2. \A p \in Syncs : sync[p].at # "write"
    BY DEF Init, Idle
  <2> QED
    BY <2>1, <2>2, StandsDef DEF Stands, StandInv, Decided
<1>2. TypeInv /\ StandInv /\ [Next]_vars => StandInv'
  <2> SUFFICES ASSUME TypeInv, StandInv, [Next]_vars PROVE StandInv'
    OBVIOUS
  <2>0. \A j \in Jobs : Undisturbed(j) => Stands(j)
    BY StandsDef DEF StandInv
  <2>1. ASSUME NEW p \in Syncs, Record(p) PROVE StandInv'
    <3>1. ASSUME NEW j \in Jobs, Undisturbed(j)' PROVE Stands(j)'
      BY <2>1, <3>1, RecordStands
    <3>2. OutcomeStands'
      BY <3>1 DEF OutcomeStands, Stands
    <3>3. \A q \in Syncs : Decided(q)'
      BY <2>1, RecordKeepsDecided
    <3> QED
      BY <3>2, <3>3 DEF StandInv
  <2>2. ASSUME NEW p \in Syncs, Read(p) PROVE StandInv'
    <3>1. UNCHANGED <<status, emails, moves>>
      BY <2>2 DEF Read
    <3>2. OutcomeStands'
      BY <3>1 DEF StandInv, OutcomeStands, Undisturbed, Outcomes, Said
    <3>3. sync[p] \in Runs
      BY <2>2, Running DEF Read, AtMessage, TypeInv
    <3>4. PICK v \in Reports :
            LET j == Match(v, sync[p].cands) IN
            sync' = [sync EXCEPT
                        ![p].at = "write",
                        ![p].known = @ \union {TheMessage(p)},
                        ![p].job = j,
                        ![p].event = v.event,
                        ![p].read = IF j = "none" THEN "none" ELSE status[j],
                        ![p].to = IF j = "none" THEN "none"
                                  ELSE decide_status(status[j], v.event)]
      BY <2>2 DEF Read
    <3> DEFINE j == Match(v, sync[p].cands)
    <3>5. j \in Jobs \union {"none"}
      BY <3>3 DEF Match, Runs
    <3>6. /\ sync'[p].job = j /\ sync'[p].event = v.event
          /\ j # "none" => /\ sync'[p].read = status[j]
                           /\ sync'[p].to = decide_status(status[j], v.event)
          /\ \A q \in Syncs : q # p => sync'[q] = sync[q]
      BY <3>3, <3>4 DEF Runs, TypeInv, TypeOK
    <3> HIDE DEF j
    <3>7. Decided(p)'
      <4>1. j # "none" => status[j] \in ALL /\ Rank(status[j]) \in Nat
        BY <3>5, RankNat DEF TypeInv, TypeOK
      <4>2. CASE j = "none"
        BY <3>6, <4>2 DEF Decided
      <4>3. CASE j # "none"
        BY <3>1, <3>6, <4>1, <4>3 DEF Decided, AdvancedFrom
      <4> QED
        BY <4>2, <4>3
    <3>8. ASSUME NEW q \in Syncs, q # p PROVE Decided(q)'
      <4>1. sync'[q] = sync[q]
        BY <3>6, <3>8
      <4> QED
        BY <3>1, <4>1 DEF StandInv, Decided, Undisturbed, AdvancedFrom, Outcomes, Said
    <3> QED
      BY <3>2, <3>7, <3>8 DEF StandInv
  <2>3. CASE Human
    <3>1. PICK h \in HumanMoves, k \in Jobs :
            /\ status' = [status EXCEPT ![k] = h[2]]
            /\ moves' = Append(moves, [msg |-> "human", job |-> k, read |-> h[1],
                                       from |-> h[1], to |-> h[2]])
      BY <2>3 DEF Human
    <3> DEFINE x == [msg |-> "human", job |-> k, read |-> h[1], from |-> h[1], to |-> h[2]]
    <3>2. x \in MoveSet /\ x.msg = "human" /\ x.job = k
      BY InboxAssumption DEF MoveSet
    <3>3. ASSUME NEW j \in Jobs, Undisturbed(j)'
          PROVE  /\ Undisturbed(j) /\ status'[j] = status[j]
                 /\ Said(j)' = Said(j) /\ Outcomes(j)' = Outcomes(j)
      <4>1. Undisturbed(j) /\ j # k
        BY <3>1, <3>2, <3>3, UndisturbedAfter
      <4>2. emails' = emails
        BY <2>3 DEF Human
      <4> QED
        BY <3>1, <4>1, <4>2 DEF TypeInv, TypeOK, Said, Outcomes
    <3>4. \A j \in Jobs : Undisturbed(j)' => Stands(j)'
      BY <2>0, <3>3 DEF Stands
    <3>5. OutcomeStands'
      BY <3>4 DEF OutcomeStands, Stands
    <3>6. ASSUME NEW q \in Syncs PROVE Decided(q)'
      <4>1. sync' = sync
        BY <2>3 DEF Human
      <4>2. sync[q].at = "write" /\ sync[q].job # "none" => sync[q].job \in Jobs
        BY Running DEF TypeInv, Runs
      <4> QED
        BY <3>3, <4>1, <4>2 DEF StandInv, Decided, AdvancedFrom
    <3> QED
      BY <3>5, <3>6 DEF StandInv
  <2>4. ASSUME NEW p \in Syncs, RunStep(p), ~ Record(p), ~ Read(p) PROVE StandInv'
    <3>1. UNCHANGED <<status, emails, moves>>
      BY <2>4, QuietSteps
    <3>2. ASSUME NEW q \in Syncs PROVE sync'[q].at = "write" => sync'[q] = sync[q]
      <4>1. CASE q # p
        BY <2>4, <4>1 DEF RunStep, StartRun, AgentReturns, RunFails, SkipKnown, EndRun,
                          TypeInv, TypeOK
      <4>2. CASE q = p /\ (StartRun(p) \/ RunFails(p) \/ EndRun(p))
        BY <4>2 DEF StartRun, RunFails, EndRun, Idle, TypeInv, TypeOK
      <4>3. CASE q = p /\ (AgentReturns(p) \/ SkipKnown(p))
        <5>1. sync[p] \in Runs /\ sync[p].at # "write"
          BY <4>3, Running DEF AgentReturns, SkipKnown, AtMessage, TypeInv
        <5>2. sync'[p].at = "next"
          BY <4>3, <5>1 DEF AgentReturns, SkipKnown, AtMessage, Runs, TypeInv, TypeOK
        <5> QED
          BY <4>3, <5>2
      <4> QED
        BY <2>4, <4>1, <4>2, <4>3 DEF RunStep
    <3> QED
      BY <3>1, <3>2 DEF StandInv, OutcomeStands, Decided, Undisturbed, AdvancedFrom,
                        Outcomes, Said
  <2>5. CASE UNCHANGED vars
    BY <2>5 DEF vars, StandInv, OutcomeStands, Decided, Undisturbed, AdvancedFrom,
                Outcomes, Said
  <2> QED
    BY <2>1, <2>2, <2>3, <2>4, <2>5 DEF Next
<1>3. StandInv => OutcomeStands
  BY DEF StandInv
<1> QED
  BY <1>1, <1>2, <1>3, TypeInvHolds, PTL DEF Spec
=============================================================================
