-------------------------------- MODULE Intake --------------------------------
(***************************************************************************)
(* `honestapply discover' and `honestapply prefilter': discovery runs go   *)
(* through the searches and then the employers, fetch what each source     *)
(* offers, swap the listing pages of the Arbeitsagentur for the employer's *)
(* own posting, and insert what the jobs table does not hold; prefilter    *)
(* drops the jobs whose page cannot be applied through.                    *)
(*                                                                         *)
(* Several runs may go on at once.  A batch is one transaction: SQLite     *)
(* has one write lock, taken by the first insert of a batch and kept until *)
(* its commit, while the look for an existing row needs no lock.  A source *)
(* may fail or answer in part, a process may die or time out on the lock,  *)
(* postings come and go, boards are unreachable for a while.               *)
(*                                                                         *)
(* Left out: descriptions, dates, salaries, and how a page is parsed.      *)
(***************************************************************************)
EXTENDS BoardResolver

CONSTANTS Runners,        \* discovery processes
          Listings,       \* what the sources offer
          Offer,          \* Offer[l]: a listing, see OfferAssumption
          Sources,        \* the searches, then the employers: [adapter, offers]
          DeadHosts,      \* pages on indeed.* and linkedin.*
          ResolveEmployer,  \* honestapply_arbeitsagentur_resolve_employer
          AllowSourceOnly,  \* honestapply_arbeitsagentur_apply
          MaxRuns,        \* bound: discovery runs in all
          MaxNow,         \* bound: the clock, in days
          MaxChanges      \* bound: postings that come or go, outages, crashes

NoUrl == "no url"

\* ref: the reference number; page, direct: its URLs, or NoUrl; lacks: what its
\* source leaves empty, or its title is not; place: what its location matches.
OfferAssumption ==
    \A l \in Listings :
        /\ Offer[l].company \in Companies
        /\ Offer[l].lacks \subseteq {"id", "title", "company", "url", "listed", "relevant", "engineering"}
        /\ Offer[l].place \subseteq {"preferred", "europe", "abroad"}

VARIABLES rows,     \* the jobs table: [listing, url, run, status]
          run,      \* run[d]: where the discovery process d is
          writer,   \* the holder of the write lock, or Nobody
          file,     \* data/employer_boards.json
          open,     \* the postings that are up
          down,     \* the boards that cannot be reached
          now,      \* the clock
          changes,  \* what MaxChanges bounds, so far
          asked     \* history: asked[b]: the day a run last asked the board

vars == <<rows, run, writer, file, open, down, now, changes, asked>>

Nobody == "nobody"

\* The jobs a row can be of: the listing, and the URL it has been given.
Pages == {Offer[l].page : l \in Listings} \union {Offer[l].direct : l \in Listings}
Urls == Pages \union Postings \union {NoUrl}

Items == [listing : Listings, url : Urls]
Rows == [listing : Listings, url : Urls, run : Runners \X (1..MaxRuns), status : {"discovered", "skipped_low_fit"}]

-----------------------------------------------------------------------------
(***************************************************************************)
(* The sources.  What a fetch can return of the offers: all or nothing, or *)
(* as many pages as were answered; what it drops itself; and whether it    *)
(* drops what it has seen before.                                          *)
(***************************************************************************)
Greenhouse == [paged |-> FALSE, needs |-> {}, dedup |-> FALSE]
Lever == [paged |-> FALSE, needs |-> {}, dedup |-> FALSE]
Ashby == [paged |-> FALSE, needs |-> {"listed"}, dedup |-> FALSE]
Smartrecruiters == [paged |-> TRUE, needs |-> {"id"}, dedup |-> FALSE]
Workday == [paged |-> TRUE, needs |-> {"url"}, dedup |-> FALSE]
Personio == [paged |-> FALSE, needs |-> {"id", "title"}, dedup |-> FALSE]
Recruitee == [paged |-> FALSE, needs |-> {"title", "url"}, dedup |-> FALSE]
Workable == [paged |-> FALSE, needs |-> {"title", "url"}, dedup |-> FALSE]
Teamtailor == [paged |-> FALSE, needs |-> {"title", "url"}, dedup |-> FALSE]
Instahyre == [paged |-> TRUE, needs |-> {"id", "title", "url", "company", "relevant"}, dedup |-> TRUE]
Jobspy == [paged |-> FALSE, needs |-> {}, dedup |-> FALSE]
Agency == [paged |-> TRUE, needs |-> {"title", "company", "url"}, dedup |-> TRUE]

\* _ATS_MODULES, and the searches.
Adapters ==
    [greenhouse |-> Greenhouse, lever |-> Lever, ashby |-> Ashby,
     smartrecruiters |-> Smartrecruiters, workday |-> Workday, personio |-> Personio,
     recruitee |-> Recruitee, workable |-> Workable, teamtailor |-> Teamtailor,
     instahyre |-> Instahyre, jobspy |-> Jobspy, arbeitsagentur |-> Agency]

Employers == DOMAIN Adapters \ {"jobspy", "arbeitsagentur"}

\* A board of an employer's names one page for a posting.
SourcesAssumption ==
    \A n \in DOMAIN Sources :
        /\ Sources[n].adapter \in DOMAIN Adapters
        /\ Sources[n].offers \in Seq(Listings)
        /\ Sources[n].adapter \in Employers =>
               \A l \in ToSet(Sources[n].offers) : Offer[l].direct = NoUrl

ASSUME IntakeAssumption ==
    /\ OfferAssumption
    /\ SourcesAssumption
    /\ IsFiniteSet(Runners) /\ Nobody \notin Runners
    /\ {ResolveEmployer, AllowSourceOnly} \subseteq BOOLEAN
    /\ {MaxRuns, MaxNow, MaxChanges} \subseteq Nat

\* location_matches: unknown places are kept; a place clearly abroad is not,
\* unless something else about it is wanted.
location_matches(place) == place = {} \/ place \intersect {"preferred", "europe"} # {}

\* Mutated form of best_url: the board's own page first.
best_url_ListingFirst(l) ==
    IF Offer[l].page # NoUrl THEN Offer[l].page ELSE Offer[l].direct

\* _best_url: the employer's link, unless it leads to a dead host.
best_url(l) ==
    IF Offer[l].direct \notin DeadHosts \union {NoUrl} THEN Offer[l].direct
    ELSE IF Offer[l].page # NoUrl THEN Offer[l].page ELSE Offer[l].direct

\* _job_url: the external link, else the agency's page.
job_url(l) == IF Offer[l].direct # NoUrl THEN Offer[l].direct ELSE Offer[l].page

UrlOf(adapter, l) ==
    CASE adapter = "jobspy"         -> best_url(l)
      [] adapter = "arbeitsagentur" -> job_url(l)
      [] OTHER                      -> Offer[l].page

Kept(adapter, l) ==
    /\ Adapters[adapter].needs \intersect Offer[l].lacks = {}
    /\ adapter \in Employers => location_matches(Offer[l].place)

\* The first of the listings kept that has its reference number.
FirstOfItsRef(s, n) ==
    \A m \in 1..(n - 1) :
        Kept(s.adapter, s.offers[m]) => Offer[s.offers[m]].ref # Offer[s.offers[n]].ref

\* Of the first n offers, the ones wanted.
Wanted(s, n) ==
    {m \in 1..n : /\ Kept(s.adapter, s.offers[m])
                  /\ Adapters[s.adapter].dedup => FirstOfItsRef(s, m)}

\* The kth smallest of S.
Nth(S, k) == CHOOSE m \in S : Cardinality({x \in S : x <= m}) = k

\* The batches a fetch may return, in the order of the offers.
Fetches(s) ==
    LET Found(m) == [listing |-> s.offers[m], url |-> UrlOf(s.adapter, s.offers[m])]
        Batch(W) == [k \in 1..Cardinality(W) |-> Found(Nth(W, k))]
    IN  {Batch(Wanted(s, n)) : n \in IF Adapters[s.adapter].paged THEN 0..Len(s.offers)
                                     ELSE {0, Len(s.offers)}}

-----------------------------------------------------------------------------
(***************************************************************************)
(* Runs.                                                                   *)
(***************************************************************************)
Never == [day |-> 0, ever |-> FALSE]
Today == [day |-> now, ever |-> TRUE]

\* What a run keeps, at first and when it is over.
Rest(n) == [at |-> "idle", nth |-> n, source |-> 1, batch |-> <<>>, next |-> 1,
            pending |-> {}, found |-> 0, inserted |-> 0, known |-> {},
            known_loaded |-> FALSE, resolver |-> NewResolver, saw |-> {}, base |-> {}]

TypeOK ==
    /\ rows \subseteq Rows
    /\ \A d \in Runners :
          /\ run[d].at \in {"idle", "fetch", "resolve", "insert", "flush"}
          /\ run[d].nth \in 0..MaxRuns
          /\ run[d].batch \in Seq(Items)
          /\ run[d].next \in 1..(Len(run[d].batch) + 1)
          /\ run[d].pending \subseteq Rows
    /\ writer \in Runners \union {Nobody}
    /\ open \subseteq Postings /\ down \subseteq Boards
    /\ now \in 0..MaxNow /\ changes \in 0..MaxChanges
    /\ asked \in [Boards -> [day : 0..MaxNow, ever : BOOLEAN]]

Init ==
    /\ rows = {}
    /\ run = [d \in Runners |-> Rest(0)]
    /\ writer = Nobody
    /\ file = [c \in Companies |-> NoEntry]
    /\ open \in SUBSET Postings
    /\ down = {}
    /\ now = 0
    /\ changes = 0
    /\ asked = [b \in Boards |-> Never]

\* The number of runs begun.
Started == Cardinality({b \in Runners \X (1..MaxRuns) : b[2] <= run[b[1]].nth})

UrlsOf(S) == {r.url : r \in S}

\* run_discover, up to the first source.
Begin(d) ==
    /\ run[d].at = "idle" /\ Started < MaxRuns
    /\ run' = [run EXCEPT ![d].nth = @ + 1, ![d].at = "fetch", ![d].saw = open,
                          ![d].base = UrlsOf(rows)]
    /\ UNCHANGED <<rows, writer, file, open, down, now, changes, asked>>

AgencyListings ==
    UNION {ToSet(Sources[n].offers) : n \in {m \in DOMAIN Sources : Sources[m].adapter = "arbeitsagentur"}}

\* _known_external_ids: the reference numbers of the agency's rows.
known_external_ids ==
    {Offer[r.listing].ref : r \in {x \in rows : x.listing \in AgencyListings}}

\* The next search or employer.  The agency's listings are to be relinked; the
\* reference numbers on file are looked up once in a run.
Fetch(d) ==
    LET r == run[d]
        s == Sources[r.source]
        relink == s.adapter = "arbeitsagentur" /\ ResolveEmployer
    IN
    /\ r.at = "fetch" /\ r.source \in DOMAIN Sources
    /\ \E b \in Fetches(s) :
          run' = [run EXCEPT ![d].batch = b, ![d].next = 1,
                             ![d].at = IF relink /\ b # <<>> THEN "resolve" ELSE "insert",
                             ![d].known = IF relink /\ ~ r.known_loaded
                                          THEN known_external_ids ELSE @,
                             ![d].known_loaded = @ \/ relink]
    /\ UNCHANGED <<rows, writer, file, open, down, now, changes, asked>>

Item(d) == run[d].batch[run[d].next]

\* The detail page of the agency, not an employer's link.
IsAgencyPage(item) == item.url = Offer[item.listing].page

\* The next listing to relink; after the last, the inserts.
NextLink(r) ==
    IF r.next < Len(r.batch) THEN [r EXCEPT !.next = @ + 1]
    ELSE [r EXCEPT !.at = "insert", !.next = 1]

\* attach_employer_links: what is on file, or has an employer's link, is left.
Relinkable(d) ==
    /\ run[d].at = "resolve"
    /\ Offer[Item(d).listing].ref \notin run[d].known
    /\ IsAgencyPage(Item(d))

\* attach_employer_links: the listing takes the URL of the posting matched, if
\* any.  The resolver writes its cache when that has changed.
Relink(d) ==
    LET l == Item(d).listing
        before == run[d].resolver
        Linked(res) == [run[d] EXCEPT !.resolver = res.resolver,
                                      !.batch[run[d].next].url =
                                          IF res.match = {} THEN @ ELSE CHOOSE p \in res.match : TRUE]
    IN
    /\ Relinkable(d)
    /\ \E res \in Resolutions(before, Offer[l].company, Offer[l].title, file, open, down, now) :
          /\ run' = [run EXCEPT ![d] = NextLink(Linked(res))]
          /\ file' = IF res.resolver.cache = Loaded(before, file).cache THEN file
                     ELSE res.resolver.cache
          /\ asked' = [b \in Boards |-> IF res.resolver.boards[b] # before.boards[b]
                                        THEN Today ELSE asked[b]]
    /\ UNCHANGED <<rows, writer, open, down, now, changes>>

\* A listing left as it is: not relinkable, or the resolver raised.
LeaveLink(d) ==
    /\ run[d].at = "resolve"
    /\ Relinkable(d) => changes < MaxChanges
    /\ changes' = IF Relinkable(d) THEN changes + 1 ELSE changes
    /\ run' = [run EXCEPT ![d] = NextLink(@)]
    /\ UNCHANGED <<rows, writer, file, open, down, now, asked>>

-----------------------------------------------------------------------------
(***************************************************************************)
(* _insert_job, of the items of a batch one by one.                        *)
(***************************************************************************)
\* What the session of the run sees.
Visible(d) == rows \union run[d].pending

\* Mutated form of already_exists: the same posting under the same name.
already_exists_ByName(d, item) ==
    \E r \in Visible(d) : /\ r.url = item.url
                          /\ Offer[r.listing].title = Offer[item.listing].title

\* _already_exists: by url_hash.  A job without a URL has one too.
already_exists(d, item) == \E r \in Visible(d) : r.url = item.url

\* Mutated form of Refused: the rows are not looked at first.
Refused_NotLooked(d, item) ==
    Offer[item.listing].lacks \intersect {"company", "title"} # {}

\* Items without a company or a title, and the ones on file.
Refused(d, item) ==
    \/ Offer[item.listing].lacks \intersect {"company", "title"} # {}
    \/ already_exists(d, item)

\* The look needs no lock, and holds none afterwards.
Look(d) ==
    /\ run[d].at = "insert" /\ run[d].next <= Len(run[d].batch)
    /\ run' = IF Refused(d, Item(d)) THEN [run EXCEPT ![d].next = @ + 1]
              ELSE [run EXCEPT ![d].at = "flush"]
    /\ UNCHANGED <<rows, writer, file, open, down, now, changes, asked>>

\* uq_job_identity: the company, the title and the URL.
Identity(listing, url) == <<Offer[listing].company, Offer[listing].title, url>>

Taken(d, item) ==
    \E r \in Visible(d) : Identity(r.listing, r.url) = Identity(item.listing, item.url)

\* The flush takes the write lock, or holds it already from an earlier insert of
\* the batch.  A violated constraint rolls the whole transaction back.
Flush(d) ==
    LET row == [listing |-> Item(d).listing, url |-> Item(d).url,
                run |-> <<d, run[d].nth>>, status |-> "discovered"]
    IN
    /\ run[d].at = "flush"
    /\ writer \in {d, Nobody}
    /\ IF Taken(d, Item(d))
       THEN /\ writer' = Nobody
            /\ run' = [run EXCEPT ![d].at = "insert", ![d].next = @ + 1, ![d].pending = {}]
       ELSE /\ writer' = d
            /\ run' = [run EXCEPT ![d].at = "insert", ![d].next = @ + 1,
                                  ![d].pending = @ \union {row}, ![d].found = @ + 1]
    /\ UNCHANGED <<rows, file, open, down, now, changes, asked>>

\* busy_timeout: the lock is not to be had, which ends the command.
Locked(d) ==
    /\ run[d].at = "flush"
    /\ writer \notin {d, Nobody}
    /\ run' = [run EXCEPT ![d] = Rest(@.nth)]
    /\ UNCHANGED <<rows, writer, file, open, down, now, changes, asked>>

\* Mutated form of Commit: the place in the batch is kept.
Commit_KeepsNext(d) ==
    LET r == run[d] IN
    /\ r.at = "insert" /\ r.next > Len(r.batch)
    /\ rows' = rows \union r.pending
    /\ writer' = IF writer = d THEN Nobody ELSE writer
    /\ run' = [run EXCEPT ![d].at = "fetch", ![d].source = @ + 1, ![d].batch = <<>>,
                          ![d].pending = {}, ![d].found = 0, ![d].inserted = @ + r.found]
    /\ UNCHANGED <<file, open, down, now, changes, asked>>

\* The end of a batch: its transaction, and on to the next source.
Commit(d) ==
    LET r == run[d] IN
    /\ r.at = "insert" /\ r.next > Len(r.batch)
    /\ rows' = rows \union r.pending
    /\ writer' = IF writer = d THEN Nobody ELSE writer
    /\ run' = [run EXCEPT ![d].at = "fetch", ![d].source = @ + 1, ![d].batch = <<>>,
                          ![d].next = 1, ![d].pending = {}, ![d].found = 0,
                          ![d].inserted = @ + r.found]
    /\ UNCHANGED <<file, open, down, now, changes, asked>>

\* Mutated form of Return: the resolver, and what its boards listed, live on.
Return_KeepsResolver(d) ==
    /\ run[d].at = "fetch" /\ run[d].source \notin DOMAIN Sources
    /\ run' = [run EXCEPT ![d] = [Rest(@.nth) EXCEPT !.resolver = run[d].resolver]]
    /\ UNCHANGED <<rows, writer, file, open, down, now, changes, asked>>

\* The count of new jobs is returned.
Return(d) ==
    /\ run[d].at = "fetch" /\ run[d].source \notin DOMAIN Sources
    /\ run' = [run EXCEPT ![d] = Rest(@.nth)]
    /\ UNCHANGED <<rows, writer, file, open, down, now, changes, asked>>

-----------------------------------------------------------------------------
(***************************************************************************)
(* Prefilter, and the environment.                                         *)
(***************************************************************************)
AgencyPages == {Offer[l].page : l \in AgencyListings}

\* is_relevant: the page is on a dead host, or a source-only one, or the title
\* is not one of engineering.
is_relevant(row) ==
    /\ row.url \notin DeadHosts
    /\ AllowSourceOnly \/ row.url \notin AgencyPages
    /\ "engineering" \notin Offer[row.listing].lacks

run_prefilter ==
    /\ writer = Nobody
    /\ \E r \in rows : r.status = "discovered" /\ ~ is_relevant(r)
    /\ rows' = {IF is_relevant(r) THEN r ELSE [r EXCEPT !.status = "skipped_low_fit"] : r \in rows}
    /\ UNCHANGED <<run, writer, file, open, down, now, changes, asked>>

\* A process dies; the database rolls its transaction back.  If it dies writing
\* the cache, the file can no longer be read.
Crash(d) ==
    /\ run[d].at # "idle"
    /\ changes < MaxChanges
    /\ changes' = changes + 1
    /\ run' = [run EXCEPT ![d] = Rest(@.nth)]
    /\ writer' = IF writer = d THEN Nobody ELSE writer
    /\ file' \in {file} \union
                 (IF run[d].at = "resolve" THEN {[c \in Companies |-> NoEntry]} ELSE {})
    /\ UNCHANGED <<rows, open, down, now, asked>>

\* A posting goes up or is taken down; a board cannot be reached, or can again.
Change ==
    /\ changes < MaxChanges
    /\ changes' = changes + 1
    /\ \/ /\ \E p \in Postings : open' = IF p \in open THEN open \ {p} ELSE open \union {p}
          /\ UNCHANGED down
       \/ /\ \E b \in Boards : down' = IF b \in down THEN down \ {b} ELSE down \union {b}
          /\ UNCHANGED open
    /\ run' = [d \in Runners |-> IF run[d].at = "idle" THEN run[d]
                                 ELSE [run[d] EXCEPT !.saw = @ \union open']]
    /\ UNCHANGED <<rows, writer, file, now, asked>>

\* Days pass between runs; a run takes less.
Tick ==
    /\ now < MaxNow
    /\ \A d \in Runners : run[d].at = "idle"
    /\ now' = now + 1
    /\ UNCHANGED <<rows, run, writer, file, open, down, changes, asked>>

RunStep(d) ==
    \/ Begin(d)
    \/ Fetch(d)
    \/ Relink(d)
    \/ LeaveLink(d)
    \/ Look(d)
    \/ Flush(d)
    \/ Locked(d)
    \/ Commit(d)
    \/ Return(d)

Next ==
    \/ \E d \in Runners : RunStep(d) \/ Crash(d)
    \/ run_prefilter
    \/ Change
    \/ Tick

Spec == Init /\ [][Next]_vars

-----------------------------------------------------------------------------
(***************************************************************************)
(* Properties.                                                             *)
(***************************************************************************)
RowsOf(d) == {r \in rows : r.run = <<d, run[d].nth>>} \union run[d].pending

\* What a run has counted as new is what it has stored, or will with its next
\* commit, however runs overlap: a violated constraint, which rolls a whole
\* batch back, never takes rows with it that were counted (discover.py:4, "the
\* count of NEW jobs inserted into the database").
CountedAreStored ==
    \A d \in Runners : run[d].at # "idle" =>
        run[d].inserted + run[d].found = Cardinality(RowsOf(d))

\* A run stores no URL that was on file when it began, and none twice: two rows
\* of a URL are the work of two runs that overlapped.
NothingTwice ==
    \A d \in Runners : \A r \in RowsOf(d) : run[d].at # "idle" =>
        /\ r.url \notin run[d].base
        /\ \A s \in RowsOf(d) : s.url = r.url => s = r

\* Only boards are remembered, not what they listed: what replaces the page of a
\* listing is a posting that was up during the run (resolve.py: "Board contents are
\* memoised for the lifetime of the resolver (one discovery run)").
RelinksAreFresh ==
    \A d \in Runners : \A n \in DOMAIN run[d].batch :
        LET item == run[d].batch[n] IN
        item.url \notin {Offer[item.listing].page, Offer[item.listing].direct} =>
            item.url \in run[d].saw

\* An agency page is kept for want of a board only if every board guessed for
\* the employer was asked within the time a negative answer stands, or a board of
\* the employer's is known (resolve.py: a negative answer "is re-checked").
UnlinkedWereAsked ==
    [][\A d \in Runners :
         Relink(d) /\ run'[d].batch = run[d].batch =>
             LET c == Offer[Item(d).listing].company IN
             \/ run'[d].resolver.cache[c].kind = "confirmed"
             \/ \A b \in ToSet(Candidates[c]) : asked'[b].ever /\ now - asked'[b].day < TtlDays]_vars

\* Prefilter drops no job for its page if the listing had an employer's link
\* that can be applied through (discover.py: "discarded thousands of jobs whose
\* direct link was perfectly appliable").
AppliableAreKept ==
    \A r \in rows :
        r.status = "skipped_low_fit" =>
            \/ "engineering" \in Offer[r.listing].lacks
            \/ Offer[r.listing].direct \in DeadHosts \union AgencyPages \union {NoUrl}
=============================================================================
