------------------------------ MODULE MCServices ------------------------------
(***************************************************************************)
(* The parts around the pipeline that share no state with each other: a    *)
(* behaviour is one part's, and the rest stay where they start.            *)
(***************************************************************************)
EXTENDS Migrations, Vault, RunControl, AnswersCache, PickCandidates, LlmGate, Enrich,
        Materials, TLC

Open(n, t, p, l) == [name |-> n, status |-> "open", title |-> t, place |-> p, live |-> l,
                     barred |-> FALSE, age |-> "new"]
Over(n, st, age) == [Open(n, 0, "germany", TRUE) EXCEPT !.status = st, !.age = age]

\* Two spellings of one employer, another one, and a name that is only a legal form.
MCKey == ("acme" :> "acme" @@ "acme gmbh" :> "acme" @@ "globex" :> "globex" @@ "se" :> "")
MCKnownBig == {"globex"}

MCRows ==
    {Open("acme", 2, "germany", l) : l \in BOOLEAN}
    \union {Open("acme", 1, "india priority", l) : l \in BOOLEAN}
    \union {Open("acme gmbh", 1, p, TRUE) : p \in {"", "india remote"}}
    \union {Over("acme", st, "new") : st \in {"applied", "rejected"}}
    \union {Open("globex", 2, "germany", l) : l \in BOOLEAN}
    \union {Over("acme gmbh", "applied", "old"), Over("globex", "rejected", "old"),
            [Open("globex", 2, "germany", TRUE) EXCEPT !.barred = TRUE]}
    \union {Open("se", 2, "germany", TRUE), Over("se", "rejected", "new"),
            Over("se", "applied", "old")}

MCAsks == {[country |-> "DE", remote |-> FALSE, established |-> FALSE],
           [country |-> "EU", remote |-> FALSE, established |-> TRUE],
           [country |-> "IN", remote |-> FALSE, established |-> FALSE],
           [country |-> "IN", remote |-> TRUE, established |-> FALSE]}

\* Fields that come together are left out on their own.
MCPages == [jsonld : SUBSET {"description", "location"},
            selectors : SUBSET {"description", "salary"},
            llm : {{}, {"description"}, Fields}]

\* A base of two facts, one of which may be left out.  The summary is the model's own
\* in an answer that only a selection accepts, and in one that only the base's facts do.
Reply(facts, summary, mentions, form) ==
    [facts |-> facts, summary |-> summary, mentions |-> mentions, form |-> form]
MCReplies ==
    {Reply({"degree"}, "written", FALSE, "resume"),
     Reply({"degree", "hobby"}, "base", TRUE, "resume"),
     Reply({"degree", "award"}, "base", FALSE, "resume"),
     Reply({"degree", "award"}, "written", TRUE, "resume"),
     Reply({"hobby"}, "base", FALSE, "resume"), Reply({}, "base", TRUE, "yaml")}
    \union {Reply({}, "base", m, "prose") : m \in BOOLEAN}

\* Of the parts, the workers and the vault's processes.
Symmetry == Permutations(Workers) \union Permutations(Clients)

VARIABLE scene  \* the part that moves

vars == <<scene, migrationVars, vaultVars, runVars, answersVars, pickVars, gateVars,
          enrichVars, materialVars>>

Scenes == {"migrations", "vault", "run", "answers", "pick", "gate", "enrich", "materials"}

Init ==
    /\ scene \in Scenes
    /\ IF scene = "migrations" THEN MigrationsInit
       ELSE /\ schema = {} /\ versioned = FALSE /\ heads = {}
            /\ launch = [p \in Launchers |-> Resting] /\ kills = 0 /\ crowded = FALSE
    /\ VaultInit /\ RunInit /\ AnswersInit /\ PickInit /\ GateInit /\ EnrichInit
    /\ MaterialsInit
    /\ scene # "pick" => ask = CHOOSE a \in Asks : TRUE
    /\ scene # "enrich" => row = Nothing
    /\ scene # "materials" => selects

Next ==
    /\ UNCHANGED scene
    /\ \/ /\ scene = "migrations" /\ MigrationsNext
          /\ UNCHANGED <<vaultVars, runVars, answersVars, pickVars, gateVars,
                         enrichVars, materialVars>>
       \/ /\ scene = "vault" /\ VaultNext
          /\ UNCHANGED <<migrationVars, runVars, answersVars, pickVars, gateVars,
                         enrichVars, materialVars>>
       \/ /\ scene = "run" /\ RunNext
          /\ UNCHANGED <<migrationVars, vaultVars, answersVars, pickVars, gateVars,
                         enrichVars, materialVars>>
       \/ /\ scene = "answers" /\ AnswersNext
          /\ UNCHANGED <<migrationVars, vaultVars, runVars, pickVars, gateVars,
                         enrichVars, materialVars>>
       \/ /\ scene = "pick" /\ Post
          /\ UNCHANGED <<migrationVars, vaultVars, runVars, answersVars, gateVars,
                         enrichVars, materialVars>>
       \/ /\ scene = "gate" /\ GateNext
          /\ UNCHANGED <<migrationVars, vaultVars, runVars, answersVars, pickVars,
                         enrichVars, materialVars>>
       \/ /\ scene = "enrich" /\ EnrichNext
          /\ UNCHANGED <<migrationVars, vaultVars, runVars, answersVars, pickVars,
                         gateVars, materialVars>>
       \/ /\ scene = "materials" /\ MaterialsNext
          /\ UNCHANGED <<migrationVars, vaultVars, runVars, answersVars, pickVars,
                         gateVars, enrichVars>>

Spec == Init /\ [][Next]_vars
=============================================================================
