------------------------------- MODULE InboxSync -------------------------------
(***************************************************************************)
(* The inbox stage (email/sync.py): a run shortlists the jobs an email     *)
(* could be about and the messages already recorded, has an agent read the *)
(* mail for minutes, and then takes the agent's verdicts one by one: a     *)
(* message that is new and clearly about a shortlisted job may move the    *)
(* job, and every message is recorded, in one transaction with the move.   *)
(*                                                                         *)
(* The status is read by a SELECT, which takes no lock, and written by the *)
(* flush some lines below; from the flush to the commit the write lock is  *)
(* held, so these are one step.  Humans and other syncs write in between.  *)
(*                                                                         *)
(* Left out: what a message says (the agent's verdict on it is all that is *)
(* kept) and its date, which the code stores and does not use.             *)
(***************************************************************************)
EXTENDS PipelineStatus, Sequences, FiniteSets

CONSTANTS Jobs,          \* job ids
          Messages,      \* gmail message ids
          Syncs,         \* processes running the inbox stage
          Reports,       \* the verdicts the agent may have on a message
          StartStatuses, \* statuses jobs have at first
          MaxCandidates, \* max_candidates: jobs shortlisted besides the active ones
          HumanMoves,    \* <<from, to>>: moves by mark or the dashboard
          MaxBatch,      \* bound: verdicts the agent returns in one run
          MaxHuman       \* bound: moves by humans

EVENTS == {"application_received", "interview_invite", "rejection", "offer", "other"}

\* What the agent makes of a message: the job it is about, if any, the event,
\* whether its confidence reaches min_confidence, and whether the message itself
\* names the company.
Verdict == [job : Jobs \union {"none"}, event : EVENTS, confident : BOOLEAN, names : BOOLEAN]

ASSUME InboxAssumption ==
    /\ "none" \notin Jobs /\ "human" \notin Messages
    /\ Reports \subseteq Verdict
    /\ StartStatuses \subseteq ALL
    /\ HumanMoves \subseteq ALL \X ALL
    /\ MaxCandidates \in Nat /\ MaxBatch \in Nat /\ MaxHuman \in Nat

VARIABLES status,   \* jobs.status
          emails,   \* emails[m]: the row of email_messages, or NoRow
          sync,     \* sync[p]: where the run of p is, or Idle
          moves     \* history: the changes of status, in order

vars == <<status, emails, sync, moves>>

\* A row: job_id ("none" if null) and classification.
Rows == [job : Jobs \union {"none"}, event : EVENTS]

NoRow == [job |-> "none", event |-> "none"]

Idle == [at |-> "idle"]

\* known is the set `seen'.  Of the message in hand: job is the match, read the
\* status the session found, to the new one ("none": no change).
Runs == [at : {"agent", "next", "write"}, cands : SUBSET Jobs, known : SUBSET Messages,
         batch : Seq(Messages), job : Jobs \union {"none"}, event : EVENTS,
         read : ALL \union {"none"}, to : ALL \union {"none"}]

MoveSet == [msg : Messages \union {"human"}, job : Jobs, read : ALL, from : ALL, to : ALL]

TypeOK ==
    /\ status \in [Jobs -> ALL]
    /\ emails \in [Messages -> Rows \union {NoRow}]
    /\ sync \in [Syncs -> Runs \union {Idle}]
    /\ moves \in Seq(MoveSet)

Init ==
    /\ status \in [Jobs -> StartStatuses]
    /\ emails = [m \in Messages |-> NoRow]
    /\ sync = [p \in Syncs |-> Idle]
    /\ moves = <<>>

-----------------------------------------------------------------------------
(***************************************************************************)
(* The guards.                                                             *)
(***************************************************************************)
TRACKED_STATES == {"applied", "screening", "interviewing", "offer", "rejected",
                   "ghosted", "needs_human"}

ACTIVE_STATES == {"screening", "interviewing", "offer"}

EVENT_STATUS == [application_received |-> "applied", interview_invite |-> "interviewing",
                 rejection |-> "rejected", offer |-> "offer"]

OUTCOMES == {"rejection", "offer"}

RANK == [applied |-> 1, screening |-> 2, interviewing |-> 3, offer |-> 4]

Rank(s) == IF s \in DOMAIN RANK THEN RANK[s] ELSE 0

TERMINAL == {"rejected", "offer"}

\* Mutated form of decide_status: a final outcome is an unranked status like any
\* other, and news of progress goes past it.
decide_status_NotFinal(current, event) ==
    LET target == EVENT_STATUS[event] IN
    IF /\ event \in DOMAIN EVENT_STATUS
       /\ target # current
       /\ event \in OUTCOMES \/ Rank(current) < Rank(target)
    THEN target ELSE "none"

\* Mutated form of decide_status: an event it does not know is stored.
decide_status_AsEvent(current, event) ==
    IF event \in DOMAIN EVENT_STATUS THEN EVENT_STATUS[event] ELSE event

\* The status the event moves a job to, "none" for no change: outcomes from
\* anywhere, progress only forward and never past an outcome.
decide_status(current, event) ==
    LET target == EVENT_STATUS[event] IN
    IF /\ event \in DOMAIN EVENT_STATUS
       /\ target # current
       /\ \/ event \in OUTCOMES
          \/ current \notin TERMINAL /\ Rank(current) < Rank(target)
    THEN target ELSE "none"

\* The job a verdict is accepted for: one of the shortlist, named in the message,
\* and confidently.
Match(v, cands) ==
    IF v.job \in cands /\ v.names /\ v.confident THEN v.job ELSE "none"

-----------------------------------------------------------------------------
(***************************************************************************)
(* A run: run_inbox.                                                       *)
(***************************************************************************)
Active == {j \in Jobs : status[j] \in ACTIVE_STATES}

Others == {j \in Jobs : status[j] \in TRACKED_STATES} \ Active

\* The active jobs, and the most recently updated ones of the others.
Shortlist(cands) ==
    \E recent \in SUBSET Others :
        /\ cands = Active \union recent
        /\ Cardinality(recent) <= MaxCandidates
        /\ recent = Others \/ Cardinality(recent) = MaxCandidates

\* The first session: shortlist and known messages.  Without a job to look for
\* the run ends at once.
StartRun(p) ==
    /\ sync[p] = Idle
    /\ \E cands \in SUBSET Jobs \ {{}} :
          /\ Shortlist(cands)
          /\ sync' = [sync EXCEPT ![p] =
                         [at |-> "agent", cands |-> cands,
                          known |-> {m \in Messages : emails[m] # NoRow},
                          batch |-> <<>>, job |-> "none", event |-> "other",
                          read |-> "none", to |-> "none"]]
    /\ UNCHANGED <<status, emails, moves>>

\* The agent returns verdicts on some of the mail, in an order of its own, maybe
\* on a message twice or on one it was told to leave out.
AgentReturns(p) ==
    /\ sync[p].at = "agent"
    /\ \E n \in 0..MaxBatch : \E batch \in [1..n -> Messages] :
          sync' = [sync EXCEPT ![p].at = "next", ![p].batch = batch]
    /\ UNCHANGED <<status, emails, moves>>

\* The agent times out or prints no result (InboxAgentError), a write meets a
\* locked database (a session with a new row is not retried), or the process
\* dies: what is not committed is gone.
RunFails(p) ==
    /\ sync[p] # Idle
    /\ sync' = [sync EXCEPT ![p] = Idle]
    /\ UNCHANGED <<status, emails, moves>>

TheMessage(p) == Head(sync[p].batch)

AtMessage(p) == sync[p].at = "next" /\ sync[p].batch # <<>>

SkipKnown(p) ==
    /\ AtMessage(p)
    /\ TheMessage(p) \in sync[p].known
    /\ sync' = [sync EXCEPT ![p].batch = Tail(@)]
    /\ UNCHANGED <<status, emails, moves>>

\* A new message: the verdict -- which two runs need not agree on -- the guards,
\* and for a match s.get and _decide_status.
Read(p) ==
    /\ AtMessage(p)
    /\ TheMessage(p) \notin sync[p].known
    /\ \E v \in Reports :
          LET j == Match(v, sync[p].cands) IN
          sync' = [sync EXCEPT
                      ![p].at = "write",
                      ![p].known = @ \union {TheMessage(p)},
                      ![p].job = j,
                      ![p].event = v.event,
                      ![p].read = IF j = "none" THEN "none" ELSE status[j],
                      ![p].to = IF j = "none" THEN "none" ELSE decide_status(status[j], v.event)]
    /\ UNCHANGED <<status, emails, moves>>

\* The run goes on with the next message.
GoOn(p) ==
    sync' = [sync EXCEPT ![p].at = "next", ![p].batch = Tail(@), ![p].job = "none",
                         ![p].event = "other", ![p].read = "none", ![p].to = "none"]

\* job.status = new_status, flushed unconditionally by id.
Move(m, r) ==
    IF r.to = "none"
    THEN UNCHANGED <<status, moves>>
    ELSE /\ status' = [status EXCEPT ![r.job] = r.to]
         /\ moves' = Append(moves, [msg |-> m, job |-> r.job, read |-> r.read,
                                    from |-> status[r.job], to |-> r.to])

TheRow(p) == [job |-> sync[p].job, event |-> sync[p].event]

\* Mutated form of Record: the move is committed before the message's row.
Record_MoveFirst(p) ==
    LET m == TheMessage(p) IN
    /\ sync[p].at = "write"
    /\ Move(m, sync[p])
    /\ \/ /\ emails[m] = NoRow
          /\ emails' = [emails EXCEPT ![m] = TheRow(p)]
          /\ GoOn(p)
       \/ /\ emails[m] # NoRow
          /\ sync' = [sync EXCEPT ![p] = Idle]
          /\ UNCHANGED emails

\* The transaction: the move, and the message's row.  If another sync has
\* recorded the message the unique column raises, everything rolls back and the
\* run ends.
Record(p) ==
    LET m == TheMessage(p) IN
    /\ sync[p].at = "write"
    /\ \/ /\ emails[m] = NoRow
          /\ Move(m, sync[p])
          /\ emails' = [emails EXCEPT ![m] = TheRow(p)]
          /\ GoOn(p)
       \/ /\ emails[m] # NoRow
          /\ sync' = [sync EXCEPT ![p] = Idle]
          /\ UNCHANGED <<status, emails, moves>>

EndRun(p) ==
    /\ sync[p].at = "next"
    /\ sync[p].batch = <<>>
    /\ sync' = [sync EXCEPT ![p] = Idle]
    /\ UNCHANGED <<status, emails, moves>>

-----------------------------------------------------------------------------
ByHuman == {n \in DOMAIN moves : moves[n].msg = "human"}

\* mark, or the dashboard.
Human ==
    /\ Cardinality(ByHuman) < MaxHuman
    /\ \E h \in HumanMoves, j \in Jobs :
          /\ status[j] = h[1]
          /\ status' = [status EXCEPT ![j] = h[2]]
          /\ moves' = Append(moves, [msg |-> "human", job |-> j, read |-> h[1],
                                     from |-> h[1], to |-> h[2]])
    /\ UNCHANGED <<emails, sync>>

RunStep(p) ==
    \/ StartRun(p)
    \/ AgentReturns(p)
    \/ RunFails(p)
    \/ SkipKnown(p)
    \/ Read(p)
    \/ Record(p)
    \/ EndRun(p)

Next ==
    \/ \E p \in Syncs : RunStep(p)
    \/ Human

Spec == Init /\ [][Next]_vars

-----------------------------------------------------------------------------
(***************************************************************************)
(* Properties.                                                             *)
(***************************************************************************)

\* A message moves one job, once, whichever runs report it, crash or run side by
\* side -- and its row names that job (models.py, EmailMessage: "a message is
\* classified exactly once no matter how often inbox runs").
MovedOnce ==
    \A n \in DOMAIN moves : moves[n].msg # "human" =>
        /\ emails[moves[n].msg].job = moves[n].job
        /\ \A k \in DOMAIN moves : moves[k].msg = moves[n].msg => k = n

\* No write of the job went over one it had not read, and no human moved it.
Undisturbed(j) ==
    \A n \in DOMAIN moves : moves[n].job = j =>
        moves[n].msg # "human" /\ moves[n].read = moves[n].from

\* What the recorded mail says happened to the job.
Said(j) == {emails[m].event : m \in {n \in Messages : emails[n].job = j}}
               \intersect DOMAIN EVENT_STATUS

Outcomes(j) == Said(j) \intersect OUTCOMES

\* In whatever order, over however many runs, the mail about a job is taken in:
\* if it brought an outcome the job has that outcome, and otherwise the job is as
\* far as any of it says, or had its outcome before (_decide_status: "terminal
\* outcomes (rejection/offer) from any state; forward-only progression otherwise").
OutcomeStands ==
    \A j \in Jobs : Undisturbed(j) =>
        \/ \E e \in Outcomes(j) : status[j] = EVENT_STATUS[e]
        \/ /\ Outcomes(j) = {}
           /\ \/ status[j] \in TERMINAL
              \/ \A e \in Said(j) : Rank(EVENT_STATUS[e]) <= Rank(status[j])
=============================================================================
