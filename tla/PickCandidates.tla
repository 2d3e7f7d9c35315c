---------------------------- MODULE PickCandidates ----------------------------
(***************************************************************************)
(* scripts/pick_candidates.py: which of the open jobs a drive is given.    *)
(* Employers that say no or never answer are left alone, each employer is  *)
(* given a few slots, for the best ranked of its jobs, and the postings    *)
(* that have gone since are dropped.                                       *)
(*                                                                         *)
(* The id of a job is its place in the pool.  The regular expressions are  *)
(* the kinds of place and the tiers of title that a row carries; score,    *)
(* date and id, which break ties in this order, are the id here.           *)
(***************************************************************************)
EXTENDS Integers, FiniteSets, Sequences

CONSTANTS Rows,             \* the jobs that may be on file
          Asks,             \* the options the script may be given
          Key,              \* Key[name]: company_key
          KnownBig,         \* the names on the curated list
          PoolSize,         \* bound: the jobs on file
          LIMIT, PER_COMPANY_CAP, MAX_REJECTIONS, GHOST_APPS, MIN_POSTINGS

ASSUME PickAssumption ==
    /\ PER_COMPANY_CAP \in Int
    /\ \A row \in Rows : row.name \in DOMAIN Key /\ row.title \in Int

VARIABLES pool,  \* the jobs on file; the outcome of one is "new" or "old"
          ask    \* country, and whether only remote or established ones are wanted

pickVars == <<pool, ask>>

PickInit == pool = <<>> /\ ask \in Asks

\* A job comes on file, with what became of it so far.
Post ==
    /\ Len(pool) < PoolSize
    /\ \E row \in Rows : pool' = Append(pool, row)
    /\ UNCHANGED ask

PickSpec == PickInit /\ [][Post]_pickVars

Ids == DOMAIN pool
OfKey(k) == {j \in Ids : Key[pool[j].name] = k}
OfName(n) == {j \in Ids : pool[j].name = n}
Among(S, statuses) == {j \in S : pool[j].status \in statuses}

-----------------------------------------------------------------------------
\* blocked_companies: it said no lately, or again and again, or never answers.  A name
\* that has no key is passed over where the rejections are counted, and only there.
Blocked(k) ==
    LET rejected == IF k = "" THEN {} ELSE Among(OfKey(k), {"rejected"})
        ghosted == {j \in Among(OfKey(k), {"applied"}) : pool[j].age = "old"}
    IN  \/ Cardinality(rejected) >= MAX_REJECTIONS
        \/ \E j \in rejected : pool[j].age = "new"
        \/ Cardinality(ghosted) >= GHOST_APPS

\* The submissions to an employer: those it rejected are among them.
Applied(n) == Cardinality(Among(OfName(n), {"applied", "rejected"}))

\* _is_established: on the list, or with enough open postings on file.
Established(n) ==
    /\ n # ""
    /\ n \in KnownBig \/ Cardinality(Among(OfName(n), {"open"})) >= MIN_POSTINGS

\* The pattern of a country, and the postings without a place that Germany claims.
InCountry(place) ==
    CASE ask.country = "DE" -> place \in {"germany", ""}
      [] ask.country = "IN" -> place \in {"india", "india priority", "india remote"}
      [] ask.country = "EU" -> place \in {"germany", "europe"}
      [] ask.country = "EU_OTHER" -> place = "europe"

Eligible ==
    {j \in Among(Ids, {"open"}) :
        /\ ~Blocked(Key[pool[j].name]) /\ ~pool[j].barred
        /\ ask.remote => pool[j].place = "india remote"
        /\ ask.established => Established(pool[j].name)
        /\ InCountry(pool[j].place)}

CityRank(place) ==
    IF ask.country # "IN" THEN 0
    ELSE CASE place = "india remote" -> 3 [] place = "india priority" -> 2 [] OTHER -> 1

\* The order of the candidates: title, city, and the rest.
Outranks(i, j) ==
    LET ti == pool[i].title  tj == pool[j].title
        ci == CityRank(pool[i].place)  cj == CityRank(pool[j].place)
    IN  ti > tj \/ (ti = tj /\ (ci > cj \/ (ci = cj /\ i > j)))

\* The first n of S in this order.
Top(S, n) == {j \in S : Cardinality({i \in S : Outranks(i, j)}) < n}

\* The slots an employer has left, by the name on the posting.
Slots(n) == PER_COMPANY_CAP - Applied(n)

\* Mutated form of Capped: what the batch has already taken is not counted.
Capped_Unbatched == {j \in Eligible : Slots(pool[j].name) > 0}

\* Each employer's best ranked jobs, as many as it has slots.
Capped == UNION {Top({j \in Eligible : pool[j].name = n}, Slots(n)) : n \in DOMAIN Key}

\* _filter_live probes a padded window, and keeps the first that answer.
FilterLive(S) == Top({j \in Top(S, 3 * LIMIT) : pool[j].live}, LIMIT)

Picks == FilterLive(Capped)

-----------------------------------------------------------------------------
\* pick_candidates.py, --per-company-cap: one pick never takes an employer past the
\* cap, what was submitted to it before and what the batch holds already both counted,
\* and never takes one that just said no, under whichever spelling of its name that
\* was, unless nothing of the name is left to compare.
EmployersAreSpared ==
    \A j \in Picks :
        /\ Applied(pool[j].name) + Cardinality(Picks \cap OfName(pool[j].name))
               <= PER_COMPANY_CAP
        /\ Key[pool[j].name] # "" =>
               \A i \in OfKey(Key[pool[j].name]) :
                   ~(pool[i].status = "rejected" /\ pool[i].age = "new")
=============================================================================
