----------------------------- MODULE MCInboxSync -----------------------------
(***************************************************************************)
(* InboxSync for TLC.                                                      *)
(***************************************************************************)
EXTENDS InboxSync, TLC

CONSTANTS j1, j2

Clear(j, event) == [job |-> j, event |-> event, confident |-> TRUE, names |-> TRUE]

\* Each event for one job, one for the other, and two the guards turn down.
AllReports == {Clear(j1, e) : e \in EVENTS}
              \union {Clear(j2, "rejection"),
                      [Clear(j1, "rejection") EXCEPT !.confident = FALSE],
                      [Clear(j1, "offer") EXCEPT !.names = FALSE]}

TrackedOrNot == {"applied", "screening", "covered"}

\* The human records an interview, an offer, or puts the job back in the queue.
HumanVerdicts == {<<"applied", "interviewing">>, <<"interviewing", "offer">>,
                  <<"needs_human", "covered">>, <<"applied", "ghosted">>}

\* Messages and syncs are interchangeable: Init and Next treat them alike.
Symmetry == Permutations(Messages) \union Permutations(Syncs)
=============================================================================
