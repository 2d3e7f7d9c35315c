----------------------------- MODULE JobLifecycle ----------------------------
(***************************************************************************)
(* What the database promises about one job's life, with no workers, no    *)
(* sessions and no locks: the prepare stages move a job along the edges of *)
(* the stage table, each time from the status the job has at that very     *)
(* moment, and every change of status leaves one row in job_events.        *)
(*                                                                         *)
(* StageCommit implements this although a stage reads the job long before  *)
(* it writes it.  Override is the one thing the compare-and-set does not   *)
(* cover: a writer that commits without it may record a stale `from'.      *)
(***************************************************************************)
EXTENDS PipelineStatus, Sequences

CONSTANTS Jobs,          \* job ids
          Overridable    \* BOOLEAN: are there writers outside the stages?

VARIABLES status,        \* status[j]: jobs.status
          events         \* events[j]: the rows of job_events of j, in order

lifeVars == <<status, events>>

\* The edges the stages may take: to a verdict of their work, or to failed.
StageEdge(from, to) ==
    \E s \in STAGE_NAMES :
        /\ from = Expects[s]
        /\ to # from
        /\ to \in Verdicts[s] \/ (to = "failed" /\ s \in MarkingStages)

Transition(from, to, by) == [from |-> from, to |-> to, by |-> by]

\* A job is inserted as discovered; its first event has no prior status.
LifeInit ==
    /\ status = [j \in Jobs |-> "discovered"]
    /\ events = [j \in Jobs |-> <<Transition("none", "discovered", "insert")>>]

StageMove(j) ==
    \E to \in ALL :
        /\ StageEdge(status[j], to)
        /\ status' = [status EXCEPT ![j] = to]
        /\ events' = [events EXCEPT ![j] = Append(@, Transition(status[j], to, "stage"))]

Override(j) ==
    /\ Overridable
    /\ \E to \in ALL : \E seen \in ALL \ {to} :
          /\ status' = [status EXCEPT ![j] = to]
          /\ events' = [events EXCEPT ![j] = Append(@, Transition(seen, to, "plain"))]

LifeNext == \E j \in Jobs : StageMove(j) \/ Override(j)

LifeSpec == LifeInit /\ [][LifeNext]_lifeVars
=============================================================================
