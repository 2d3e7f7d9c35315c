---------------------------- MODULE BoardResolver ----------------------------
(***************************************************************************)
(* The employer's own posting of a job (ats/resolve.py): a company's       *)
(* possible boards, the boards asked, the postings compared by title, and  *)
(* the cache file of which board a company uses.  Pure operators: a        *)
(* resolver is a record of what the class BoardResolver keeps in memory,   *)
(* and Intake gives each discovery run one.                                *)
(*                                                                         *)
(* A title is the set of its tokens (title_tokens has dropped case, gender *)
(* markers and stop words).  Similarities are per cent, rounded down.      *)
(***************************************************************************)
EXTENDS Naturals, Sequences, FiniteSets, FiniteSetsExt, SequencesExt

CONSTANTS Companies,   \* employers, by _company_key
          Postings,    \* postings on the public boards
          BoardOf,     \* BoardOf[p]: the board, an <<ats, slug>>, that lists it
          TitleOf,     \* TitleOf[p]: its title
          Candidates,  \* Candidates[c]: the boards guessed for a company, in the
                       \* order asked: the slugs, and for each slug the ATSs
          TtlDays      \* _NEGATIVE_TTL_DAYS, in ticks of the clock

ASSUME ResolverAssumption ==
    /\ IsFiniteSet(Postings)
    /\ \A p \in Postings : IsFiniteSet(TitleOf[p])
    /\ DOMAIN BoardOf = Postings /\ DOMAIN Candidates = Companies
    /\ TtlDays \in Nat \ {0}

Boards == {BoardOf[p] : p \in Postings} \union
          UNION {{Candidates[c][n] : n \in DOMAIN Candidates[c]} : c \in Companies}

MinSimilarity == 60

\* title_similarity: 1.0 if the tokens are the same, 0.9 if one title contains
\* the other, and otherwise their Jaccard overlap.
title_similarity(a, b) ==
    CASE a = {} \/ b = {} -> 0
      [] a = b            -> 100
      [] OTHER            -> IF a \subseteq b \/ b \subseteq a THEN 90
                             ELSE (100 * Cardinality(a \intersect b))
                                    \div Cardinality(a \union b)

-----------------------------------------------------------------------------
\* An entry of the cache: nothing yet; the board a title match has confirmed; or
\* the boards that answered, possibly none, and the day they were asked.
NoEntry == [kind |-> "none"]
Confirmed(b) == [kind |-> "confirmed", board |-> b]
Asked(bs, day) == [kind |-> "asked", boards |-> bs, day |-> day]

NotLoaded == [c \in Companies |-> [kind |-> "not loaded"]]
NotAsked == [kind |-> "not asked"]
Answer(S) == [kind |-> "answer", postings |-> S]

\* BoardResolver: the cache as loaded, and the boards asked in this run.
NewResolver == [cache |-> NotLoaded, boards |-> [b \in Boards |-> NotAsked]]

\* _load: once, at the first lookup.  A file that cannot be read is no file.
Loaded(r, file) == IF r.cache = NotLoaded THEN [r EXCEPT !.cache = file] ELSE r

\* The probes: the postings of a board.  A board that cannot be reached answers
\* what a board that does not exist answers, and so does one with no open jobs.
Probe(b, open, down) == IF b \in down THEN {} ELSE {p \in open : BoardOf[p] = b}

\* _board_jobs, of several boards: what they answered the first time in this run.
AskAll(r, bs, open, down) ==
    [r EXCEPT !.boards =
        [b \in Boards |-> IF b \in bs /\ r.boards[b] = NotAsked
                          THEN Answer(Probe(b, open, down)) ELSE r.boards[b]]]

Lists(r, b) == r.boards[b].postings

\* Mutated form of Fresh: the age is compared the wrong way round.
Fresh_Inverted(entry, today) ==
    entry.kind = "confirmed" \/ (entry.kind = "asked" /\ today - entry.day >= TtlDays)

\* The cache has a verdict that still stands.
Fresh(entry, today) ==
    entry.kind = "confirmed" \/ (entry.kind = "asked" /\ today - entry.day < TtlDays)

\* candidate_boards, for a company whose cached verdict does not stand: all the
\* candidates are asked, and the ones with open jobs are cached.
Reask(r, c, open, down, today) ==
    LET asked == AskAll(r, ToSet(Candidates[c]), open, down)
        found == {b \in ToSet(Candidates[c]) : Lists(asked, b) # {}}
    IN  [asked EXCEPT !.cache[c] = Asked(found, today)]

\* candidate_boards: the resolver afterwards.
Lookup(r, c, file, open, down, today) ==
    LET l == Loaded(r, file)
    IN  IF Fresh(l.cache[c], today) THEN l ELSE Reask(l, c, open, down, today)

\* candidate_boards: the boards it returns.  resolve compares them in the order of
\* the candidates.
CandidateBoards(r, c) ==
    IF r.cache[c].kind = "confirmed" THEN {r.cache[c].board} ELSE r.cache[c].boards

\* resolve: the postings that come closest to the title on the first of the
\* boards that has one as close, if they come close enough.
BestMatches(r, c, title) ==
    LET bs    == CandidateBoards(r, c)
        close == UNION {Lists(r, b) : b \in bs}
        Sim(p) == title_similarity(title, TitleOf[p])
        best  == Max({Sim(p) : p \in close} \union {0})
        Reaching(n) == Candidates[c][n] \in bs /\ \E p \in Lists(r, Candidates[c][n]) : Sim(p) = best
        first == Min({n \in DOMAIN Candidates[c] : Reaching(n)})
    IN  IF best < MinSimilarity THEN {}
        ELSE {p \in close : Sim(p) = best /\ p \in Lists(r, Candidates[c][first])}

\* resolve: the board with the match is the company's from now on.
Confirm(r, c, b) ==
    IF r.cache[c].kind = "confirmed" THEN r ELSE [r EXCEPT !.cache[c] = Confirmed(b)]

\* The resolvers there can be after looking up the company and comparing the
\* postings with the title, with the posting matched, if any.
Resolutions(r, c, title, file, open, down, today) ==
    LET looked == Lookup(r, c, file, open, down, today)
        asked  == AskAll(looked, CandidateBoards(looked, c), open, down)
        best   == BestMatches(asked, c, title)
    IN  IF best = {} THEN {[resolver |-> asked, match |-> {}]}
        ELSE {[resolver |-> Confirm(asked, c, BoardOf[p]), match |-> {p}] : p \in best}
=============================================================================
