------------------------------ MODULE Migrations ------------------------------
(***************************************************************************)
(* Bringing the database up to date (init_db, db/migrate.py and the        *)
(* migrations): every command and the dashboard do it when they start, so  *)
(* two processes may do it at once; the threads of one process take turns  *)
(* (_INIT_LOCK).                                                           *)
(*                                                                         *)
(* Alembic on SQLite through pysqlite commits every CREATE and ALTER by    *)
(* itself; only the row of alembic_version is written in a transaction.  A *)
(* statement whose object exists already raises, and the launch fails.     *)
(***************************************************************************)
EXTENDS Naturals, Sequences, FiniteSets, SequencesExt

CONSTANTS Launchers,   \* processes that open the database
          MaxKills     \* bound: processes that die while they migrate

ASSUME MigrationsAssumption == IsFiniteSet(Launchers) /\ MaxKills \in Nat

VARIABLES schema,      \* the tables, columns and indexes there are
          versioned,   \* the table alembic_version exists
          heads,       \* its rows
          launch,      \* launch[p]: where the launch of p is
          kills,       \* what MaxKills bounds, so far
          crowded      \* history: a process adopted a database that another one
                       \* had adopted already

schemaVars == <<schema, versioned, heads>>
migrationVars == <<schemaVars, launch, kills, crowded>>

\* What each migration's upgrade() creates, statement by statement.
CreatesBaseline ==
    <<"jobs", "jobs.url_hash#", "jobs.company#", "jobs.status#",
      "applications", "applications.job_id#", "run_logs">>
CreatesEvents == <<"job_events", "job_events.job_id#", "job_events.at#", "jobs.notes">>
CreatesTaxonomy ==
    <<"jobs.role_family", "jobs.seniority", "jobs.work_model", "jobs.employer_tier",
      "jobs.role_family#">>
CreatesEmails ==
    <<"email_messages", "email_messages.job_id#", "email_messages.gmail_msg_id#">>
CreatesArchive == <<"jobs.archived_at", "jobs.archived_at#">>

Creates == <<CreatesBaseline, CreatesEvents, CreatesTaxonomy, CreatesEmails, CreatesArchive>>

Baseline == 1
Newest == Len(Creates)

\* The schema after the migrations up to n.
SchemaAt(n) == UNION {ToSet(Creates[m]) : m \in 1..n}

Resting == [at |-> "idle", adopt |-> FALSE, from |-> 0, next |-> 1]

\* A new database, one from before Alembic, and one at any revision.
MigrationsInit ==
    /\ \/ schema = {} /\ versioned = FALSE /\ heads = {}
       \/ schema = SchemaAt(Baseline) /\ versioned = FALSE /\ heads = {}
       \/ \E n \in 1..Newest : schema = SchemaAt(n) /\ versioned = TRUE /\ heads = {n}
    /\ launch = [p \in Launchers |-> Resting]
    /\ kills = 0
    /\ crowded = FALSE

Goto(p, at) == launch' = [launch EXCEPT ![p].at = at]

\* Mutated form of pre_alembic: any database with jobs is from before Alembic.
pre_alembic_ByJobs == "jobs" \in schema

\* run_migrations: the tables are there, and Alembic has not seen them.
pre_alembic == "jobs" \in schema /\ ~ versioned

\* run_migrations, up to its decision.
Inspect(p) ==
    /\ launch[p].at = "idle"
    /\ launch' = [launch EXCEPT ![p] = [Resting EXCEPT
                    !.at = IF pre_alembic THEN "stamp" ELSE "upgrade",
                    !.adopt = pre_alembic]]
    /\ UNCHANGED <<schemaVars, kills, crowded>>

\* The revision a row set is at: 0 if there is no row.
Rev(rows) == IF rows = {} THEN 0 ELSE CHOOSE n \in rows : TRUE

\* command.stamp, or command.upgrade: the rows are read, once, and the table is
\* made if there are none.  Two rows are one too many for Alembic.
ReadHeads(p) ==
    /\ launch[p].at \in {"stamp", "upgrade"}
    /\ IF Cardinality(heads) > 1
       THEN Goto(p, "failed") /\ UNCHANGED schemaVars
       ELSE /\ launch' = [launch EXCEPT ![p].from = Rev(heads), ![p].next = 1,
                                        ![p].at = IF @ = "stamp" THEN "mark" ELSE "create"]
            /\ versioned' = (versioned \/ heads = {})
            /\ UNCHANGED <<schema, heads>>
    /\ UNCHANGED <<kills, crowded>>

\* The row moves on: inserted, or changed from the revision that was read.  When
\* it is not there any more, the launch fails.
MoveRow(p, n, then) ==
    LET old == launch[p].from IN
    IF (old = 0 /\ n \in heads) \/ (old # 0 /\ old \notin heads)
    THEN Goto(p, "failed") /\ UNCHANGED heads
    ELSE /\ heads' = (heads \ {old}) \union {n}
         /\ launch' = [launch EXCEPT ![p].at = then, ![p].from = n, ![p].next = 1]

\* command.stamp: the database is declared to be at the baseline, whatever row
\* it has.
Stamp(p) ==
    /\ launch[p].at = "mark"
    /\ IF launch[p].from = Baseline
       THEN Goto(p, "upgrade") /\ UNCHANGED heads
       ELSE MoveRow(p, Baseline, "upgrade")
    /\ crowded' = (crowded \/ heads # {})
    /\ UNCHANGED <<schema, versioned, kills>>

Target(p) == launch[p].from + 1

\* A statement of the next migration.
Create(p) ==
    /\ launch[p].at = "create" /\ Target(p) <= Newest
    /\ launch[p].next <= Len(Creates[Target(p)])
    /\ LET object == Creates[Target(p)][launch[p].next] IN
       IF object \in schema
       THEN Goto(p, "failed") /\ UNCHANGED schema
       ELSE /\ schema' = schema \union {object}
            /\ launch' = [launch EXCEPT ![p].next = @ + 1]
    /\ UNCHANGED <<versioned, heads, kills, crowded>>

\* Mutated form of Advance: the row moves before the last statement.
Advance_Early(p) ==
    /\ launch[p].at = "create" /\ Target(p) <= Newest
    /\ launch[p].next >= Len(Creates[Target(p)])
    /\ MoveRow(p, Target(p), "create")
    /\ UNCHANGED <<schema, versioned, kills, crowded>>

\* The migration is done: its revision is written.
Advance(p) ==
    /\ launch[p].at = "create" /\ Target(p) <= Newest
    /\ launch[p].next > Len(Creates[Target(p)])
    /\ MoveRow(p, Target(p), "create")
    /\ UNCHANGED <<schema, versioned, kills, crowded>>

\* Nothing is outstanding: the command goes on with its work.
Opened(p) ==
    /\ launch[p].at = "create" /\ Target(p) > Newest
    /\ Goto(p, "open")
    /\ UNCHANGED <<schemaVars, kills, crowded>>

\* The process ends, or has raised.
Exit(p) ==
    /\ launch[p].at \in {"open", "failed"}
    /\ Goto(p, "idle")
    /\ UNCHANGED <<schemaVars, kills, crowded>>

Kill(p) ==
    /\ launch[p].at \notin {"idle", "open", "failed"}
    /\ kills < MaxKills
    /\ kills' = kills + 1
    /\ Goto(p, "idle")
    /\ UNCHANGED <<schemaVars, crowded>>

LaunchStep(p) ==
    \/ Inspect(p) \/ ReadHeads(p) \/ Stamp(p) \/ Create(p) \/ Advance(p)
    \/ Opened(p) \/ Exit(p)

MigrationsNext == \E p \in Launchers : LaunchStep(p) \/ Kill(p)

MigrationsSpec == MigrationsInit /\ [][MigrationsNext]_migrationVars

-----------------------------------------------------------------------------
MigrationsTypeOK ==
    /\ schema \subseteq SchemaAt(Newest)
    /\ versioned \in BOOLEAN /\ crowded \in BOOLEAN
    /\ heads \subseteq 1..Newest
    /\ launch \in [Launchers -> [at : {"idle", "stamp", "mark", "upgrade", "create", "open", "failed"},
                                 adopt : BOOLEAN, from : 0..Newest, next : 1..8]]
    /\ kills \in 0..MaxKills

\* A command that goes on works on the whole schema, however many processes
\* migrated at once and wherever one of them died.
OpenIsComplete == \A p \in Launchers : launch[p].at = "open" => schema = SchemaAt(Newest)

\* A launch that had the database to itself would succeed.
Launchable ==
    LET from == IF versioned \/ schema = {} THEN Rev(heads) ELSE Baseline
    IN  /\ Cardinality(heads) <= 1
        /\ schema = SchemaAt(from)

\* Between launches the database can be opened, however the launches before
\* raced, unless a process died in the middle of a migration or two of them
\* adopted a database from before Alembic at once (migrate.py:13, "so an existing
\* user's data migrates in place on next launch").
OpensAgain ==
    (\A p \in Launchers : launch[p].at = "idle") /\ kills = 0 /\ ~ crowded => Launchable
=============================================================================
