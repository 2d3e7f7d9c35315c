-------------------------------- MODULE Enrich --------------------------------
(***************************************************************************)
(* stages/enrich.py: what becomes of the fields of a posting.  A job whose *)
(* description came with the listing is read from that; otherwise its page *)
(* is fetched.  Three tiers are tried, the next one only while there is no *)
(* description: the page's JSON-LD, selectors for its ATS, and an LLM,     *)
(* whose failures count as an empty answer.                                *)
(*                                                                         *)
(* A value of a field is the tier that found it, and "" where there is     *)
(* none; the description is a "teaser" up to 50 characters long.           *)
(***************************************************************************)
EXTENDS Naturals

CONSTANTS Pages,    \* what a page may hold: a set of fields for each tier
          MaxRounds \* bound: enrichments of the job

\* posted_at is set like the salary, and is left out.
Fields == {"description", "requirements", "location", "salary"}
Tiers == {"jsonld", "selectors", "llm"}

\* Only the LLM is asked for requirements, and the selectors look for two fields.
ASSUME EnrichAssumption ==
    /\ \A p \in Pages : /\ p.jsonld \subseteq Fields \ {"requirements"}
                        /\ p.selectors \subseteq {"description", "salary"}
                        /\ p.llm \subseteq Fields
    /\ Pages # {} /\ MaxRounds \in Nat

VARIABLES row,      \* row[f]: the tier that the job's field f was found by
          known,    \* history: the fields when the last enrichment began
          page,     \* what was there to find when it did
          enriched, \* the job has been enriched
          rounds    \* what MaxRounds bounds, so far

enrichVars == <<row, known, page, enriched, rounds>>

Nothing == [f \in Fields |-> ""]

\* What the listing brought.
EnrichInit ==
    /\ row \in {[Nothing EXCEPT !.description = d, !.location = l] :
                    d \in {"", "teaser", "listing"}, l \in {"", "listing"}}
    /\ known = row
    /\ page = CHOOSE p \in Pages : TRUE
    /\ enriched = FALSE
    /\ rounds = 0

\* What a tier finds in a page.
Tier(t, p) == [f \in Fields |-> IF f \in p[t] THEN t ELSE ""]

\* _extract_jsonld: the JobPosting in the page, or what else has a description.
Jsonld(p) == Tier("jsonld", p)

\* _parse_with_bs4: the selectors of the ATS.
Selected(p) == Tier("selectors", p)

\* _extract_with_llm: the text of the page, fenced; {} when that fails.
Asked(p) == Tier("llm", p)

\* The fields of m, and those it lacks of n.
Merged(m, n) == [f \in Fields |-> IF m[f] = "" THEN n[f] ELSE m[f]]

\* Mutated form of Cascade: the LLM is asked only if the tiers before found nothing.
Cascade_AllOrNothing(p, stored) ==
    LET a == IF stored THEN Nothing ELSE Jsonld(p)
        b == IF a.description = "" THEN Merged(a, Selected(p)) ELSE a
    IN  IF b = Nothing THEN Asked(p) ELSE b

\* The three tiers in turn; a stored description has no JSON-LD.
Cascade(p, stored) ==
    LET a == IF stored THEN Nothing ELSE Jsonld(p)
        b == IF a.description = "" THEN Merged(a, Selected(p)) ELSE a
    IN  IF b.description = "" THEN Merged(b, Asked(p)) ELSE b

\* What was found takes the place of the description and the requirements, and
\* fills in the others.
AppliedTo(r, m) ==
    [f \in Fields |-> IF f \in {"description", "requirements"} THEN Merged(m, r)[f]
                      ELSE Merged(r, m)[f]]

Stored(r) == r.description \notin {"", "teaser"}

\* _enrich_job, when there is something to read; a stored description stays, its
\* tags taken out.  The job is enriched, whatever was found.
EnrichJob ==
    /\ ~enriched /\ rounds < MaxRounds
    /\ \E p \in Pages :
          LET found == Cascade(p, Stored(row))
              m == IF Stored(row) THEN [found EXCEPT !.description = row.description]
                   ELSE found
          IN  row' = AppliedTo(row, m) /\ page' = p
    /\ known' = row
    /\ enriched' = TRUE
    /\ rounds' = rounds + 1

\* The page cannot be fetched: the job stays as it is, and is tried again.
FetchFails ==
    /\ ~enriched /\ rounds < MaxRounds /\ ~Stored(row)
    /\ rounds' = rounds + 1
    /\ UNCHANGED <<row, known, page, enriched>>

\* A human has the job go through the stages again.
SendBack ==
    /\ enriched
    /\ enriched' = FALSE
    /\ UNCHANGED <<row, known, page, rounds>>

EnrichNext == EnrichJob \/ FetchFails \/ SendBack

EnrichSpec == EnrichInit /\ [][EnrichNext]_enrichVars

-----------------------------------------------------------------------------
EnrichTypeOK ==
    /\ row \in [Fields -> Tiers \union {"", "teaser", "listing"}]
    /\ known \in [Fields -> Tiers \union {"", "teaser", "listing"}]
    /\ page \in Pages
    /\ enriched \in BOOLEAN
    /\ rounds \in 0..MaxRounds

\* A job is enriched without a description only if there was none to find in any
\* tier, the LLM's included (which a usage limit leaves empty too).
BlankOnlyIfUnread ==
    enriched /\ row.description \in {"", "teaser"} =>
        \A t \in Tiers : "description" \notin page[t]

\* What the listing or an earlier round said of the place and the salary stands, and
\* a description in full is not traded for another one.
KnownStays ==
    enriched =>
        /\ \A f \in {"location", "salary"} : known[f] # "" => row[f] = known[f]
        /\ Stored(known) => row.description = known.description

\* enrich.py:7-14, 383-388: the cascade of tiers neither misses a description that one
\* of them would have found nor gives up what was known before it.
NothingIsLost == BlankOnlyIfUnread /\ KnownStays
=============================================================================
