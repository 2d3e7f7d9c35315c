----------------------------- MODULE Intake_proofs -----------------------------
(***************************************************************************)
(* Proofs about the intake: any number of discovery processes and runs,    *)
(* any sources, listings, boards and clocks.                               *)
(***************************************************************************)
EXTENDS Intake, FiniteSetTheorems, FunctionTheorems, TLAPS

Refs == {Offer[l].ref : l \in Listings}

Entries == [kind : {"none"}] \union [kind : {"confirmed"}, board : Boards]
           \union [kind : {"asked"}, boards : SUBSET Boards, day : Nat]

Answers == {NotAsked} \union [kind : {"answer"}, postings : SUBSET Postings]

Resolvers == [cache : {NotLoaded} \union [Companies -> Entries], boards : [Boards -> Answers]]

Ways == {"idle", "fetch", "resolve", "insert", "flush"}

Discoveries ==
    [at : Ways, nth : 0..MaxRuns, source : Nat, batch : Seq(Items), next : Nat \ {0},
     pending : SUBSET Rows, found : Nat, inserted : Nat, known : SUBSET Refs,
     known_loaded : BOOLEAN, resolver : Resolvers, saw : SUBSET Postings, base : SUBSET Urls]

Active(d) == run[d].at # "idle"

\* A run that is over has kept nothing, and one that reads its batch is within it.
Placed(d) ==
    /\ ~Active(d) => run[d] = Rest(run[d].nth)
    /\ Active(d) => run[d].nth # 0
    /\ IsFiniteSet(run[d].pending)
    /\ run[d].next <= Len(run[d].batch) + 1
    /\ run[d].at \in {"resolve", "flush"} => run[d].next <= Len(run[d].batch)

TypesInv ==
    /\ rows \subseteq Rows /\ IsFiniteSet(rows)
    /\ run \in [Runners -> Discoveries]
    /\ file \in [Companies -> Entries]
    /\ writer \in Runners \union {Nobody}
    /\ open \subseteq Postings /\ down \subseteq Boards
    /\ now \in 0..MaxNow /\ changes \in 0..MaxChanges
    /\ asked \in [Boards -> [day : 0..MaxNow, ever : BOOLEAN]]
    /\ \A d \in Runners : Placed(d)

-----------------------------------------------------------------------------
(* What a run stores *)

Stamp(d) == <<d, run[d].nth>>
Stored(d) == {r \in rows : r.run = Stamp(d)}

\* Who has inserted holds the lock, counts what it has inserted, and stamps it.
Books(d) ==
    /\ run[d].found = Cardinality(run[d].pending)
    /\ run[d].pending # {} => writer = d
    /\ \A r \in run[d].pending : r.run = Stamp(d)
    /\ \A r \in rows : r.run[1] = d => r.run[2] <= run[d].nth

\* What a run has stored or inserted is new, and counted; what it is about to insert has
\* been looked for, and nobody can have stored it since if something was inserted before.
Holds(d) ==
    Active(d) =>
        /\ run[d].inserted + run[d].found = Cardinality(RowsOf(d))
        /\ run[d].base \subseteq UrlsOf(rows)
        /\ UrlsOf(RowsOf(d)) \intersect run[d].base = {}
        /\ \A r, s \in RowsOf(d) : r.url = s.url => r = s
        /\ run[d].at = "flush" =>
               /\ Item(d).url \notin UrlsOf(RowsOf(d)) \union run[d].base
               /\ run[d].pending # {} => Item(d).url \notin UrlsOf(Visible(d))

StoreInv == \A d \in Runners : Books(d) /\ Holds(d)

-----------------------------------------------------------------------------
(* Where the URLs come from *)

Good(l) == Offer[l].direct \notin DeadHosts \union AgencyPages \union {NoUrl}

\* A listing with a link that can be applied through has that URL.
Direct(item) == Good(item.listing) => item.url = Offer[item.listing].direct

LinkInv ==
    /\ \A d \in Runners :
          /\ \A n \in DOMAIN run[d].batch : Direct(run[d].batch[n])
          /\ run[d].at = "resolve" =>
                \A n \in DOMAIN run[d].batch : run[d].batch[n].listing \in AgencyListings
          /\ \A r \in run[d].pending : Direct(r) /\ r.status = "discovered"
    /\ \A r \in rows : Direct(r)
    /\ AppliableAreKept

-----------------------------------------------------------------------------
(* What the resolvers know *)

Fetched(item) == item.url \in {Offer[item.listing].page, Offer[item.listing].direct}

SeenInv ==
    \A d \in Runners :
        /\ Active(d) => open \subseteq run[d].saw
        /\ \A b \in Boards : run[d].resolver.boards[b] # NotAsked =>
               run[d].resolver.boards[b].postings \subseteq run[d].saw
        /\ \A n \in DOMAIN run[d].batch :
               Fetched(run[d].batch[n]) \/ run[d].batch[n].url \in run[d].saw

\* Of a company that is remembered as asked, every board was asked that day or later.
BackedBy(history, entry, c) ==
    entry.kind = "asked" =>
        \A b \in ToSet(Candidates[c]) : history[b].ever /\ history[b].day >= entry.day

Backed(entry, c) == BackedBy(asked, entry, c)

AskedInv ==
    /\ \A c \in Companies : Backed(file[c], c)
    /\ \A d \in Runners :
          /\ \A b \in Boards : run[d].resolver.boards[b] # NotAsked =>
                 asked[b].ever /\ asked[b].day = now
          /\ \A c \in Companies : run[d].resolver.cache # NotLoaded =>
                 Backed(run[d].resolver.cache[c], c)
    /\ \A b \in Boards : asked[b].day <= now

-----------------------------------------------------------------------------
(* The operators *)

LEMMA Numbers ==
    /\ MaxRuns \in Nat /\ MaxNow \in Nat /\ MaxChanges \in Nat
    /\ IsFiniteSet(Runners) /\ Nobody \notin Runners
BY IntakeAssumption

\* A finite set of numbers has a kth smallest.
LEMMA NthIsThere ==
    ASSUME NEW W \in SUBSET Nat, IsFiniteSet(W), NEW k \in 1..Cardinality(W)
    PROVE  Nth(W, k) \in W
<1> DEFINE Upto(m) == {x \in W : x <= m}
           rank == [m \in W |-> Cardinality(Upto(m))]
           size == Cardinality(W)
<1>0. size \in Nat /\ IsFiniteSet(1..size) /\ Cardinality(1..size) = size
  <2>1. size \in Nat
    BY FS_CardinalityType
  <2>2. IsFiniteSet(1..size) /\ Cardinality(1..size) = IF 1 > size THEN 0 ELSE size - 1 + 1
    BY <2>1, FS_Interval
  <2> QED
    BY <2>1, <2>2
<1>1. ASSUME NEW m \in W PROVE /\ IsFiniteSet(Upto(m)) /\ Cardinality(Upto(m)) \in 1..size
  <2>1. IsFiniteSet(Upto(m)) /\ Cardinality(Upto(m)) <= size
    BY FS_Subset
  <2>2. Upto(m) # {}
    OBVIOUS
  <2>3. Cardinality(Upto(m)) \in Nat /\ Cardinality(Upto(m)) # 0
    BY <2>1, <2>2, FS_CardinalityType, FS_EmptySet
  <2> QED
    BY <1>0, <2>1, <2>3
<1>2. ASSUME NEW m \in W, NEW n \in W, m < n PROVE Cardinality(Upto(m)) # Cardinality(Upto(n))
  <2>0. m \in Nat /\ n \in Nat /\ m < n
    BY <1>2
  <2>1. Upto(m) \subseteq Upto(n) /\ n \in Upto(n) /\ n \notin Upto(m)
    <3>1. \A x \in Nat : x <= m => x <= n
      BY <2>0
    <3>2. n <= n /\ ~(n <= m)
      BY <2>0
    <3> QED
      BY <3>1, <3>2
  <2> QED
    BY <1>1, <2>1, FS_Subset
<1>3. rank \in Injection(W, 1..size)
  <2>1. rank \in [W -> 1..size]
    BY <1>1
  <2>2. ASSUME NEW m \in W, NEW n \in W, m # n PROVE rank[m] # rank[n]
    <3>1. m < n \/ n < m
      BY <2>2
    <3> QED
      BY <1>2, <3>1
  <2> QED
    BY <2>1, <2>2 DEF Injection, IsInjective
<1>4. rank \in Surjection(W, 1..size)
  <2> HIDE DEF rank
  <2> QED
    BY <1>0, <1>3, FS_Injection
<1>5. \E m \in W : rank[m] = k
  <2> HIDE DEF rank
  <2> QED
    BY <1>4 DEF Surjection
<1>6. \E m \in W : Cardinality({x \in W : x <= m}) = k
  BY <1>5
<1> QED
  BY <1>6 DEF Nth

\* What a fetch returns are listings of its source, with one of their own URLs.
LEMMA FetchedItems ==
    ASSUME NEW n \in DOMAIN Sources, NEW b \in Fetches(Sources[n])
    PROVE  /\ b \in Seq(Items)
           /\ \A k \in DOMAIN b :
                 /\ b[k].listing \in ToSet(Sources[n].offers)
                 /\ b[k].url = UrlOf(Sources[n].adapter, b[k].listing)
                 /\ Fetched(b[k])
<1> DEFINE s == Sources[n]
           Found(m) == [listing |-> s.offers[m], url |-> UrlOf(s.adapter, s.offers[m])]
           Batch(W) == [k \in 1..Cardinality(W) |-> Found(Nth(W, k))]
<1>1. s.offers \in Seq(Listings)
  <2>1. SourcesAssumption
    BY IntakeAssumption
  <2> QED
    BY <2>1 DEF SourcesAssumption
<1>2. PICK m \in 0..Len(s.offers) : b = Batch(Wanted(s, m))
  <2>1. Len(s.offers) \in Nat /\ 0 \in 0..Len(s.offers) /\ Len(s.offers) \in 0..Len(s.offers)
    BY <1>1
  <2> QED
    BY <2>1 DEF Fetches
<1> DEFINE W == Wanted(s, m)
<1>3. W \in SUBSET (1..m) /\ IsFiniteSet(W) /\ W \in SUBSET Nat /\ Cardinality(W) \in Nat
  <2>1. W \in SUBSET (1..m)
    BY DEF Wanted
  <2>2. IsFiniteSet(1..m)
    BY FS_Interval
  <2> HIDE DEF W
  <2>3. IsFiniteSet(W)
    BY <2>1, <2>2, FS_Subset
  <2>4. Cardinality(W) \in Nat
    BY <2>3, FS_CardinalityType
  <2>5. \A x \in 1..m : x \in Nat
    OBVIOUS
  <2> QED
    BY <2>1, <2>3, <2>4, <2>5
<1>4. ASSUME NEW k \in 1..Cardinality(W) PROVE Nth(W, k) \in DOMAIN s.offers
  <2>1. Nth(W, k) \in W
    BY <1>3, NthIsThere
  <2> QED
    BY <1>1, <1>3, <2>1
<1>5. ASSUME NEW l \in Listings, NEW a PROVE UrlOf(a, l) \in {Offer[l].page, Offer[l].direct}
  BY DEF UrlOf, best_url, job_url
<1>6. ASSUME NEW k \in 1..Cardinality(W)
      PROVE  /\ b[k] = Found(Nth(W, k)) /\ b[k] \in Items
             /\ b[k].listing \in ToSet(s.offers)
             /\ b[k].url = UrlOf(s.adapter, b[k].listing) /\ Fetched(b[k])
  <2>1. b[k] = Found(Nth(W, k))
    BY <1>2
  <2> DEFINE l == s.offers[Nth(W, k)]
  <2>2. l \in Listings /\ l \in ToSet(s.offers)
    BY <1>1, <1>4 DEF ToSet
  <2>3. b[k].listing = l /\ b[k].url = UrlOf(s.adapter, l)
    BY <2>1
  <2>4. UrlOf(s.adapter, l) \in {Offer[l].page, Offer[l].direct}
    BY <1>5, <2>2
  <2>5. {Offer[l].page, Offer[l].direct} \subseteq Urls
    BY <2>2 DEF Urls, Pages
  <2>6. b[k] \in Items
    BY <2>1, <2>2, <2>4, <2>5 DEF Items
  <2> QED
    BY <2>1, <2>2, <2>3, <2>4, <2>6 DEF Fetched
<1>7. DOMAIN b = 1..Cardinality(W)
  BY <1>2
<1>8. b \in Seq(Items)
  <2>1. b \in [1..Cardinality(W) -> Items]
    <3>1. b = [k \in 1..Cardinality(W) |-> b[k]]
      BY <1>2
    <3> HIDE DEF W, Batch
    <3> QED
      BY <1>6, <3>1
  <2> HIDE DEF W
  <2> QED
    BY <1>3, <2>1
<1> QED
  BY <1>6, <1>7, <1>8

-----------------------------------------------------------------------------
(* The resolver *)

LEMMA BoardsAre ==
    /\ \A p \in Postings : BoardOf[p] \in Boards
    /\ \A c \in Companies : ToSet(Candidates[c]) \subseteq Boards
BY DEF Boards, ToSet

LEMMA EntryKinds ==
    ASSUME NEW e \in Entries
    PROVE  /\ e.kind \in {"none", "confirmed", "asked"}
           /\ e.kind = "confirmed" => e.board \in Boards
           /\ e.kind = "asked" => e.boards \in SUBSET Boards /\ e.day \in Nat
BY DEF Entries

LEMMA LoadedCache ==
    ASSUME NEW r \in Resolvers, NEW f \in [Companies -> Entries]
    PROVE  /\ Loaded(r, f) \in Resolvers /\ Loaded(r, f).boards = r.boards
           /\ Loaded(r, f).cache \in [Companies -> Entries]
           /\ Loaded(r, f).cache = IF r.cache = NotLoaded THEN f ELSE r.cache
BY DEF Loaded, Resolvers

\* Asking boards answers for the ones that were not asked yet, and for no other.
LEMMA AskedBoards ==
    ASSUME NEW r \in Resolvers, NEW bs, NEW op \in SUBSET Postings, NEW dn
    PROVE  /\ AskAll(r, bs, op, dn) \in Resolvers
           /\ AskAll(r, bs, op, dn).cache = r.cache
           /\ \A b \in Boards :
                 LET answer == AskAll(r, bs, op, dn).boards[b] IN
                 /\ answer = r.boards[b] \/ (r.boards[b] = NotAsked /\ answer = Answer(Probe(b, op, dn)))
                 /\ b \in bs => answer # NotAsked
<1> DEFINE boards == [b \in Boards |-> IF b \in bs /\ r.boards[b] = NotAsked
                                       THEN Answer(Probe(b, op, dn)) ELSE r.boards[b]]
<1>1. AskAll(r, bs, op, dn) = [r EXCEPT !.boards = boards]
  BY DEF AskAll
<1>2. \A b : Answer(Probe(b, op, dn)) \in Answers /\ Answer(Probe(b, op, dn)) # NotAsked
  BY DEF Probe, Answer, Answers, NotAsked
<1>3. boards \in [Boards -> Answers]
  BY <1>2 DEF Resolvers
<1>4. /\ AskAll(r, bs, op, dn).boards = boards /\ AskAll(r, bs, op, dn).cache = r.cache
      /\ AskAll(r, bs, op, dn) \in Resolvers
  BY <1>1, <1>3 DEF Resolvers
<1>5. \A b \in Boards : /\ boards[b] = r.boards[b] \/ (r.boards[b] = NotAsked /\ boards[b] = Answer(Probe(b, op, dn)))
                        /\ b \in bs => boards[b] # NotAsked
  BY <1>2
<1> HIDE DEF boards
<1> QED
  BY <1>4, <1>5

\* A resolver that has asked some boards since, and forgotten none.
Grown(q, r, op, dn) ==
    \A b \in Boards :
        q.boards[b] = r.boards[b]
        \/ (r.boards[b] = NotAsked /\ q.boards[b] = Answer(Probe(b, op, dn)))

\* What is known of a company after it was looked up: the board is confirmed, or the
\* verdict was fresh, or all its boards have been asked.
Settled(q, l, c, today) ==
    \/ q.cache[c].kind = "confirmed"
    \/ q.cache[c] = l.cache[c] /\ Fresh(l.cache[c], today)
    \/ /\ q.cache[c].kind = "asked" /\ q.cache[c].day = today
       /\ \A b \in ToSet(Candidates[c]) : q.boards[b] # NotAsked

\* The resolver q after company c was looked up; r was the one before, l with the file read.
Informed(q, l, r, c, op, dn, today) ==
    /\ q \in Resolvers /\ q.cache \in [Companies -> Entries]
    /\ Grown(q, r, op, dn) /\ Settled(q, l, c, today)
    /\ \A x \in Companies \ {c} : q.cache[x] = l.cache[x]

LEMMA GrownAgain ==
    ASSUME NEW r, NEW q, NEW t, NEW op, NEW dn, Grown(q, r, op, dn), Grown(t, q, op, dn)
    PROVE  Grown(t, r, op, dn)
BY DEF Grown

LEMMA LookedUp ==
    ASSUME NEW r \in Resolvers, NEW c \in Companies, NEW f \in [Companies -> Entries],
           NEW op \in SUBSET Postings, NEW dn, NEW today \in Nat,
           NEW q, q = Lookup(r, c, f, op, dn, today), NEW l, l = Loaded(r, f)
    PROVE  Informed(q, l, r, c, op, dn, today) /\ CandidateBoards(q, c) \subseteq Boards
<1> DEFINE a == AskAll(l, ToSet(Candidates[c]), op, dn)
           found == {b \in ToSet(Candidates[c]) : Lists(a, b) # {}}
<1>1. l \in Resolvers /\ l.boards = r.boards /\ l.cache \in [Companies -> Entries]
  BY LoadedCache
<1>2. /\ a \in Resolvers /\ a.cache = l.cache /\ Grown(a, l, op, dn)
      /\ \A b \in ToSet(Candidates[c]) : a.boards[b] # NotAsked
  <2> QED
    BY <1>1, AskedBoards, BoardsAre DEF Grown
<1>3. q = IF Fresh(l.cache[c], today) THEN l
          ELSE [a EXCEPT !.cache[c] = Asked(found, today)]
  BY DEF Lookup, Reask
<1>4. found \in SUBSET Boards
  BY BoardsAre
<1> HIDE DEF a, found
<1>5. CASE Fresh(l.cache[c], today)
  <2>1. q = l
    BY <1>3, <1>5
  <2>2. l.cache[c] \in Entries /\ l.cache[c].kind \in {"confirmed", "asked"}
    BY <1>1, <1>5 DEF Fresh
  <2>3. CandidateBoards(l, c) \subseteq Boards
    BY <2>2, EntryKinds DEF CandidateBoards
  <2> QED
    BY <1>1, <1>5, <2>1, <2>3 DEF Grown, Settled, Informed
<1>6. CASE ~Fresh(l.cache[c], today)
  <2>1. q = [a EXCEPT !.cache = [l.cache EXCEPT ![c] = Asked(found, today)]]
    BY <1>2, <1>3, <1>6
  <2>2. Asked(found, today) \in Entries /\ Asked(found, today).kind = "asked"
        /\ Asked(found, today).day = today /\ Asked(found, today).boards = found
    BY <1>4 DEF Asked, Entries
  <2>3. [l.cache EXCEPT ![c] = Asked(found, today)] \in [Companies -> Entries]
    BY <1>1, <2>2
  <2>4. /\ q \in Resolvers /\ q.boards = a.boards
        /\ q.cache = [l.cache EXCEPT ![c] = Asked(found, today)]
    BY <1>2, <2>1, <2>3 DEF Resolvers
  <2>5. q.cache[c] = Asked(found, today) /\ \A x \in Companies \ {c} : q.cache[x] = l.cache[x]
    BY <1>1, <2>4
  <2>6. CandidateBoards(q, c) \subseteq Boards
    BY <1>4, <2>2, <2>5 DEF CandidateBoards
  <2>7. Grown(q, r, op, dn)
    BY <1>1, <1>2, <2>4 DEF Grown
  <2>8. Settled(q, l, c, today)
    BY <1>2, <2>2, <2>4, <2>5 DEF Settled
  <2> QED
    BY <2>3, <2>4, <2>5, <2>6, <2>7, <2>8 DEF Informed
<1> QED
  BY <1>5, <1>6

\* What was matched is on a board that has been asked.
Backing(res) ==
    /\ res.match \subseteq Postings
    /\ \A p \in res.match : \E b \in Boards : /\ res.resolver.boards[b] # NotAsked
                                              /\ p \in res.resolver.boards[b].postings

\* The resolver afterwards, and the posting it found on one of the boards it asked.
LEMMA Resolved ==
    ASSUME NEW r \in Resolvers, NEW c \in Companies, NEW f \in [Companies -> Entries],
           NEW op \in SUBSET Postings, NEW dn, NEW today \in Nat, NEW title,
           NEW res \in Resolutions(r, c, title, f, op, dn, today)
    PROVE  /\ Informed(res.resolver, Loaded(r, f), r, c, op, dn, today)
           /\ Backing(res)
<1> DEFINE k == Lookup(r, c, f, op, dn, today)
           l == Loaded(r, f)
           bs == CandidateBoards(k, c)
           a == AskAll(k, bs, op, dn)
           best == BestMatches(a, c, title)
<1>1. /\ k \in Resolvers /\ k.cache \in [Companies -> Entries]
      /\ Grown(k, r, op, dn) /\ Settled(k, l, c, today)
      /\ \A x \in Companies \ {c} : k.cache[x] = l.cache[x]
      /\ bs \subseteq Boards
  <2>1. k = Lookup(r, c, f, op, dn, today) /\ l = Loaded(r, f)
    OBVIOUS
  <2> HIDE DEF k, l
  <2>2. Informed(k, l, r, c, op, dn, today) /\ CandidateBoards(k, c) \subseteq Boards
    BY <2>1, LookedUp
  <2> QED
    BY <2>2 DEF Informed
<1>2. /\ a \in Resolvers /\ a.cache = k.cache /\ Grown(a, k, op, dn)
      /\ \A b \in bs : a.boards[b] # NotAsked
  <2> HIDE DEF k, bs
  <2> QED
    BY <1>1, AskedBoards DEF Grown
<1>3. \A p \in best : \E b \in bs : p \in a.boards[b].postings
  <2>1. CandidateBoards(a, c) = bs
    BY <1>2 DEF CandidateBoards
  <2>2. \A p \in best : p \in UNION {Lists(a, b) : b \in CandidateBoards(a, c)}
    BY DEF BestMatches
  <2> HIDE DEF best, bs, a
  <2> QED
    BY <2>1, <2>2 DEF Lists
<1>4. best \subseteq Postings
  <2>1. ASSUME NEW b \in bs PROVE a.boards[b].postings \subseteq Postings
    <3>1. a.boards[b] \in Answers /\ a.boards[b] # NotAsked
      BY <1>1, <1>2 DEF Resolvers
    <3> QED
      BY <3>1 DEF Answers
  <2> HIDE DEF best, bs, a
  <2> QED
    BY <1>3, <2>1
<1>5. \/ best = {} /\ res.resolver = a /\ res.match = {}
      \/ \E p \in best : res.resolver = Confirm(a, c, BoardOf[p]) /\ res.match = {p}
  <2>1. res \in IF best = {} THEN {[resolver |-> a, match |-> {}]}
                ELSE {[resolver |-> Confirm(a, c, BoardOf[p]), match |-> {p}] : p \in best}
    BY DEF Resolutions
  <2> HIDE DEF a, best
  <2> QED
    BY <2>1
<1>6. Grown(a, r, op, dn)
  BY <1>1, <1>2, GrownAgain
<1>7. Settled(a, l, c, today)
  <2>1. ToSet(Candidates[c]) \subseteq Boards
    BY BoardsAre
  <2>2. \A b \in Boards : k.boards[b] # NotAsked => a.boards[b] # NotAsked
    BY <1>2 DEF Grown
  <2> HIDE DEF a, k, l
  <2> QED
    BY <1>1, <1>2, <2>1, <2>2 DEF Settled
<1> HIDE DEF k, l, bs, a, best
<1>8. ASSUME NEW p \in best
      PROVE  LET q == Confirm(a, c, BoardOf[p]) IN
             /\ q \in Resolvers /\ q.boards = a.boards /\ q.cache \in [Companies -> Entries]
             /\ q.cache[c].kind = "confirmed"
             /\ \A x \in Companies \ {c} : q.cache[x] = a.cache[x]
  <2> DEFINE q == Confirm(a, c, BoardOf[p])
  <2>1. CASE a.cache[c].kind = "confirmed"
    <3>1. q = a
      BY <2>1 DEF Confirm
    <3> QED
      BY <1>1, <1>2, <2>1, <3>1
  <2>2. CASE a.cache[c].kind # "confirmed"
    <3> DEFINE e == Confirmed(BoardOf[p])
               cache == [a.cache EXCEPT ![c] = e]
    <3>1. q = [a EXCEPT !.cache = cache]
      BY <2>2 DEF Confirm
    <3>2. e \in Entries /\ e.kind = "confirmed"
      <4>1. BoardOf[p] \in Boards
        BY <1>4, BoardsAre
      <4> QED
        BY <4>1 DEF Confirmed, Entries
    <3> HIDE DEF e
    <3>3. cache \in [Companies -> Entries] /\ cache[c] = e
          /\ \A x \in Companies \ {c} : cache[x] = a.cache[x]
      BY <1>1, <1>2, <3>2
    <3> HIDE DEF cache
    <3>4. q \in Resolvers /\ q.boards = a.boards /\ q.cache = cache
      BY <1>2, <3>1, <3>3 DEF Resolvers
    <3> QED
      BY <3>2, <3>3, <3>4
  <2> QED
    BY <2>1, <2>2
<1>9. ASSUME best = {}, res.resolver = a, res.match = {}
      PROVE  Informed(res.resolver, l, r, c, op, dn, today) /\ Backing(res)
  BY <1>1, <1>2, <1>6, <1>7, <1>9 DEF Informed, Backing
<1>10. ASSUME NEW p \in best, res.resolver = Confirm(a, c, BoardOf[p]), res.match = {p}
       PROVE  Informed(res.resolver, l, r, c, op, dn, today) /\ Backing(res)
  <2> DEFINE q == res.resolver
  <2>1. /\ q \in Resolvers /\ q.boards = a.boards /\ q.cache \in [Companies -> Entries]
        /\ q.cache[c].kind = "confirmed"
        /\ \A x \in Companies \ {c} : q.cache[x] = a.cache[x]
    BY <1>8, <1>10
  <2>2. Grown(q, r, op, dn) /\ Settled(q, l, c, today)
    BY <1>6, <2>1 DEF Grown, Settled
  <2>3. \E b \in Boards : q.boards[b] # NotAsked /\ p \in q.boards[b].postings
    BY <1>1, <1>2, <1>3, <2>1
  <2> HIDE DEF q
  <2>4. \A x \in Companies \ {c} : q.cache[x] = l.cache[x]
    BY <1>1, <1>2, <2>1
  <2> QED
    BY <1>4, <1>10, <2>1, <2>2, <2>3, <2>4 DEF q, Informed, Backing
<1> QED
  BY <1>5, <1>9, <1>10 DEF l

-----------------------------------------------------------------------------
(* Types *)

LEMMA RestIs ==
    ASSUME NEW n \in 0..MaxRuns
    PROVE  /\ Rest(n) \in Discoveries /\ Rest(n).at = "idle" /\ Rest(n).nth = n
           /\ Rest(n).next = 1 /\ Rest(n).batch = <<>> /\ Rest(n).pending = {}
           /\ Rest(n).found = 0 /\ Rest(n).inserted = 0
           /\ Rest(n).resolver = NewResolver /\ Rest(n).saw = {}
<1>1. NewResolver \in Resolvers
  BY DEF NewResolver, Resolvers, Answers
<1>2. <<>> \in Seq(Items)
  OBVIOUS
<1> QED
  BY <1>1, <1>2 DEF Rest, Discoveries, Ways

\* What the record of a run must be for TypesInv.
Fits(x) ==
    /\ x \in Discoveries
    /\ x.at = "idle" => x = Rest(x.nth)
    /\ x.at # "idle" => x.nth # 0
    /\ IsFiniteSet(x.pending)
    /\ x.next <= Len(x.batch) + 1
    /\ x.at \in {"resolve", "flush"} => x.next <= Len(x.batch)

LEMMA PlacedFits ==
    ASSUME run \in [Runners -> Discoveries], NEW d \in Runners
    PROVE  Placed(d) <=> Fits(run[d])
BY DEF Placed, Fits, Active

LEMMA Moved ==
    ASSUME TypesInv, NEW d \in Runners, NEW x, Fits(x), run' = [run EXCEPT ![d] = x]
    PROVE  /\ run' \in [Runners -> Discoveries] /\ \A e \in Runners : Placed(e)'
           /\ run'[d] = x /\ \A e \in Runners \ {d} : run'[e] = run[e]
<1>1. run' \in [Runners -> Discoveries] /\ run'[d] = x
      /\ \A e \in Runners \ {d} : run'[e] = run[e]
  BY DEF TypesInv, Fits
<1>2. \A e \in Runners : Fits(run[e])
  BY PlacedFits DEF TypesInv
<1>3. \A e \in Runners : Fits(run'[e])
  BY <1>1, <1>2
<1>4. \A e \in Runners : Placed(e)'
  BY <1>1, <1>3 DEF Placed, Fits, Active
<1> QED
  BY <1>1, <1>4

LEMMA RestFits ==
    ASSUME NEW n \in 0..MaxRuns PROVE Fits(Rest(n))
<1> DEFINE x == Rest(n)
<1>1. IsFiniteSet({}) /\ Len(<<>>) = 0 /\ 1 <= 0 + 1
  BY FS_EmptySet
<1>2. /\ x \in Discoveries /\ x.at = "idle" /\ x.nth = n /\ x.next = 1
      /\ x.batch = <<>> /\ x.pending = {}
  BY RestIs
<1>3. x = Rest(x.nth)
  BY <1>2
<1> HIDE DEF x
<1> QED
  BY <1>1, <1>2, <1>3 DEF Fits, x

\* A process that may begin a run has one left.
LEMMA OneLeft ==
    ASSUME TypesInv, NEW d \in Runners, Started < MaxRuns PROVE run[d].nth + 1 \in 1..MaxRuns
<1> DEFINE S == {b \in Runners \X (1..MaxRuns) : b[2] <= run[b[1]].nth}
           T == {d} \X (1..MaxRuns)
<1>1. run[d].nth \in 0..MaxRuns
  BY DEF TypesInv, Discoveries
<1>2. IsFiniteSet(S)
  <2>1. IsFiniteSet(1..MaxRuns)
    BY Numbers, FS_Interval
  <2>2. IsFiniteSet(Runners \X (1..MaxRuns))
    BY <2>1, Numbers, FS_Product
  <2>3. S \subseteq Runners \X (1..MaxRuns)
    OBVIOUS
  <2> QED
    BY <2>2, <2>3, FS_Subset
<1>3. ASSUME run[d].nth = MaxRuns PROVE FALSE
  <2>1. T \subseteq S
    <3>1. \A n \in 1..MaxRuns : n <= run[d].nth
      BY <1>3, Numbers
    <3> QED
      BY <3>1
  <2>2. IsFiniteSet({d}) /\ Cardinality({d}) = 1
    BY FS_Singleton
  <2>3. IsFiniteSet(1..MaxRuns) /\ Cardinality(1..MaxRuns) = MaxRuns
    <3>1. IsFiniteSet(1..MaxRuns)
          /\ Cardinality(1..MaxRuns) = IF 1 > MaxRuns THEN 0 ELSE MaxRuns - 1 + 1
      BY Numbers, FS_Interval
    <3> QED
      BY <3>1, Numbers
  <2>4. Cardinality(T) = 1 * MaxRuns
    BY <2>2, <2>3, FS_Product
  <2>5. Cardinality(T) <= Cardinality(S)
    <3> HIDE DEF S, T
    <3> QED
      BY <1>2, <2>1, FS_Subset
  <2>6. Cardinality(S) \in Nat
    BY <1>2, FS_CardinalityType
  <2>7. Cardinality(S) < MaxRuns
    BY DEF Started
  <2> HIDE DEF S, T
  <2>8. Cardinality(T) = MaxRuns
    BY <2>4, Numbers
  <2> QED
    BY <2>5, <2>6, <2>7, <2>8, Numbers
<1> QED
  BY <1>1, <1>3, Numbers

LEMMA LinkedNext ==
    ASSUME NEW y \in Discoveries, Fits(y), y.at = "resolve"
    PROVE  /\ Fits(NextLink(y)) /\ NextLink(y).at \in {"resolve", "insert"}
           /\ NextLink(y).nth = y.nth /\ NextLink(y).batch = y.batch
           /\ NextLink(y).pending = y.pending /\ NextLink(y).found = y.found
           /\ NextLink(y).inserted = y.inserted /\ NextLink(y).resolver = y.resolver
           /\ NextLink(y).saw = y.saw /\ NextLink(y).base = y.base
<1>1. /\ y.next \in Nat \ {0} /\ Len(y.batch) \in Nat /\ y.next <= Len(y.batch)
  BY DEF Discoveries, Fits
<1>2. CASE y.next < Len(y.batch)
  <2> DEFINE x == [y EXCEPT !.next = y.next + 1]
  <2>1. NextLink(y) = x
    BY <1>2 DEF NextLink
  <2>2. y.next + 1 \in Nat \ {0} /\ y.next + 1 <= Len(y.batch) /\ y.next + 1 <= Len(y.batch) + 1
    BY <1>1, <1>2
  <2>3. x \in Discoveries
    BY <2>2 DEF Discoveries
  <2>4. x.next = y.next + 1 /\ x.at = y.at /\ x.batch = y.batch /\ x.pending = y.pending
        /\ x.nth = y.nth /\ x.found = y.found /\ x.inserted = y.inserted
        /\ x.resolver = y.resolver /\ x.saw = y.saw /\ x.base = y.base
    BY DEF Discoveries
  <2> HIDE DEF x
  <2> QED
    BY <2>1, <2>2, <2>3, <2>4 DEF Fits
<1>3. CASE ~(y.next < Len(y.batch))
  <2> DEFINE x == [y EXCEPT !.at = "insert", !.next = 1]
  <2>1. NextLink(y) = x
    BY <1>3 DEF NextLink
  <2>2. 1 \in Nat \ {0} /\ 1 <= Len(y.batch) + 1
    BY <1>1
  <2>3. x \in Discoveries
    BY <2>2 DEF Discoveries, Ways
  <2>4. x.next = 1 /\ x.at = "insert" /\ x.batch = y.batch /\ x.pending = y.pending
        /\ x.nth = y.nth /\ x.found = y.found /\ x.inserted = y.inserted
        /\ x.resolver = y.resolver /\ x.saw = y.saw /\ x.base = y.base
    BY DEF Discoveries
  <2> HIDE DEF x
  <2> QED
    BY <2>1, <2>2, <2>3, <2>4 DEF Fits
<1> QED
  BY <1>2, <1>3

-----------------------------------------------------------------------------
(* What each step does to the record of a run *)

\* The record y keeps the books of x.
Keeps(x, y) ==
    /\ y.nth = x.nth /\ y.pending = x.pending /\ y.found = x.found
    /\ y.inserted = x.inserted /\ y.base = x.base

\* Only the record of d changes.
Only(d) ==
    /\ run' \in [Runners -> Discoveries] /\ Fits(run[d]) /\ Fits(run'[d])
    /\ \A e \in Runners : Placed(e)'
    /\ \A e \in Runners \ {d} : run'[e] = run[e]

LEMMA OnlyMoved ==
    ASSUME TypesInv, NEW d \in Runners, NEW x, Fits(x), run' = [run EXCEPT ![d] = x]
    PROVE  Only(d) /\ run'[d] = x
BY Moved, PlacedFits DEF TypesInv, Only

LEMMA RunIs ==
    ASSUME TypesInv, NEW d \in Runners
    PROVE  /\ run \in [Runners -> Discoveries] /\ run[d] \in Discoveries /\ Fits(run[d])
           /\ run[d].nth \in 0..MaxRuns
BY PlacedFits DEF TypesInv, Discoveries

LEMMA RestDoes ==
    ASSUME TypesInv, NEW d \in Runners, run' = [run EXCEPT ![d] = Rest(@.nth)]
    PROVE  Only(d) /\ run'[d] = Rest(run[d].nth) /\ run'[d].at = "idle"
<1>1. run' = [run EXCEPT ![d] = Rest(run[d].nth)] /\ Fits(Rest(run[d].nth))
      /\ Rest(run[d].nth).at = "idle"
  BY RunIs, RestFits, RestIs
<1> QED
  BY <1>1, OnlyMoved

LEMMA BeginDoes ==
    ASSUME TypesInv, NEW d \in Runners, Begin(d)
    PROVE  /\ Only(d) /\ run'[d].at = "fetch" /\ run'[d].nth = run[d].nth + 1
           /\ run'[d].batch = <<>> /\ run'[d].pending = {} /\ run'[d].found = 0
           /\ run'[d].inserted = 0 /\ run'[d].base = UrlsOf(rows)
           /\ run'[d].resolver = NewResolver /\ run'[d].saw = open
           /\ UNCHANGED <<rows, writer, file, open, down, now, changes, asked>>
<1> DEFINE x == [run[d] EXCEPT !.nth = run[d].nth + 1, !.at = "fetch", !.saw = open,
                               !.base = UrlsOf(rows)]
<1>1. run' = [run EXCEPT ![d] = x]
  BY RunIs DEF Begin
<1>2. /\ run[d] = Rest(run[d].nth) /\ run[d].nth + 1 \in 1..MaxRuns
  BY OneLeft, RunIs DEF Begin, Fits
<1>3. /\ run[d].next = 1 /\ run[d].batch = <<>> /\ run[d].pending = {} /\ run[d].found = 0
      /\ run[d].inserted = 0 /\ run[d].resolver = NewResolver
  BY <1>2, RunIs, RestIs
<1>4. open \in SUBSET Postings /\ UrlsOf(rows) \in SUBSET Urls
  BY DEF TypesInv, UrlsOf, Rows
<1>5. x \in Discoveries
  <2>1. run[d].nth + 1 \in 0..MaxRuns
    BY <1>2, RunIs
  <2> QED
    BY <1>4, <2>1, RunIs DEF Discoveries, Ways
<1>6. /\ x.at = "fetch" /\ x.nth = run[d].nth + 1 /\ x.batch = <<>> /\ x.pending = {}
      /\ x.found = 0 /\ x.inserted = 0 /\ x.base = UrlsOf(rows) /\ x.resolver = NewResolver
      /\ x.saw = open /\ x.next = 1
  BY <1>3, RunIs DEF Discoveries
<1>7. x.nth # 0 /\ IsFiniteSet({}) /\ Len(<<>>) = 0 /\ 1 <= 0 + 1
  BY <1>2, <1>6, FS_EmptySet
<1> HIDE DEF x
<1>8. Fits(x)
  BY <1>5, <1>6, <1>7 DEF Fits
<1>9. Only(d) /\ run'[d] = x
  BY <1>1, <1>8, OnlyMoved
<1> QED
  BY <1>6, <1>9 DEF Begin

LEMMA FetchDoes ==
    ASSUME TypesInv, NEW d \in Runners, Fetch(d)
    PROVE  /\ Only(d) /\ run[d].at = "fetch" /\ run'[d].at \in {"resolve", "insert"}
           /\ Keeps(run[d], run'[d]) /\ run'[d].resolver = run[d].resolver
           /\ run'[d].saw = run[d].saw
           /\ run[d].source \in DOMAIN Sources /\ run'[d].batch \in Fetches(Sources[run[d].source])
           /\ run'[d].at = "resolve" => Sources[run[d].source].adapter = "arbeitsagentur"
           /\ UNCHANGED <<rows, writer, file, open, down, now, changes, asked>>
<1> DEFINE s == Sources[run[d].source]
           relink == s.adapter = "arbeitsagentur" /\ ResolveEmployer
<1>1. PICK b \in Fetches(s) :
          run' = [run EXCEPT ![d].batch = b, ![d].next = 1,
                             ![d].at = IF relink /\ b # <<>> THEN "resolve" ELSE "insert",
                             ![d].known = IF relink /\ ~ run[d].known_loaded
                                          THEN known_external_ids ELSE @,
                             ![d].known_loaded = @ \/ relink]
  BY DEF Fetch
<1>2. run[d].at = "fetch" /\ run[d].source \in DOMAIN Sources
      /\ UNCHANGED <<rows, writer, file, open, down, now, changes, asked>>
  BY DEF Fetch
<1> DEFINE at == IF relink /\ b # <<>> THEN "resolve" ELSE "insert"
           known == IF relink /\ ~ run[d].known_loaded THEN known_external_ids ELSE run[d].known
           loaded == run[d].known_loaded \/ relink
           x == [run[d] EXCEPT !.batch = b, !.next = 1, !.at = at, !.known = known,
                               !.known_loaded = loaded]
<1>3. run' = [run EXCEPT ![d] = x]
  BY <1>1, RunIs
<1>4. b \in Seq(Items)
  BY <1>2, FetchedItems
<1>5. at \in {"resolve", "insert"} /\ (at = "resolve" => s.adapter = "arbeitsagentur" /\ b # <<>>)
  OBVIOUS
<1>6. known \in SUBSET Refs
  <2>1. known_external_ids \in SUBSET Refs
    BY DEF known_external_ids, TypesInv, Rows, Refs
  <2>2. run[d].known \in SUBSET Refs
    BY RunIs DEF Discoveries
  <2> QED
    BY <2>1, <2>2
<1>7. loaded \in BOOLEAN
  OBVIOUS
<1> HIDE DEF at, known, loaded
<1>8. x \in Discoveries
  <2>1. run[d] \in Discoveries /\ at \in Ways /\ 1 \in Nat \ {0}
    BY <1>5, RunIs DEF Ways
  <2> HIDE DEF s
  <2> QED
    BY <1>4, <1>6, <1>7, <2>1 DEF Discoveries
<1>9. /\ x.at = at /\ x.batch = b /\ x.next = 1 /\ Keeps(run[d], x)
      /\ x.resolver = run[d].resolver /\ x.saw = run[d].saw
  BY RunIs DEF Discoveries, Keeps
<1> HIDE DEF x
<1>10. Fits(x)
  <2>1. run[d].nth # 0 /\ IsFiniteSet(run[d].pending)
    BY <1>2, RunIs DEF Fits
  <2>2. 1 <= Len(b) + 1 /\ (b # <<>> => 1 <= Len(b))
    BY <1>4
  <2> QED
    BY <1>5, <1>8, <1>9, <2>1, <2>2 DEF Fits, Keeps
<1>11. Only(d) /\ run'[d] = x
  BY <1>3, <1>10, OnlyMoved
<1> QED
  BY <1>2, <1>5, <1>9, <1>11

\* The URL a listing is left with after it was compared with the postings.
Url(item, res) == IF res.match = {} THEN item.url ELSE CHOOSE p \in res.match : TRUE

LEMMA ItemIs ==
    ASSUME TypesInv, NEW d \in Runners, run[d].at \in {"resolve", "flush"}
    PROVE  /\ run[d].next \in DOMAIN run[d].batch /\ Item(d) \in Items
           /\ Item(d).listing \in Listings /\ Item(d).url \in Urls
           /\ Offer[Item(d).listing].company \in Companies
<1>1. run[d].next \in DOMAIN run[d].batch /\ run[d].batch \in Seq(Items)
  BY RunIs DEF Fits, Discoveries
<1>2. Item(d) \in Items
  BY <1>1 DEF Item
<1>3. OfferAssumption
  BY IntakeAssumption
<1> QED
  BY <1>1, <1>2, <1>3 DEF Items, OfferAssumption

LEMMA RelinkDoes ==
    ASSUME TypesInv, NEW d \in Runners, Relink(d)
    PROVE  /\ Only(d) /\ Relinkable(d) /\ run[d].at = "resolve"
           /\ run'[d].at \in {"resolve", "insert"}
           /\ Keeps(run[d], run'[d]) /\ run'[d].saw = run[d].saw
           /\ UNCHANGED <<rows, writer, open, down, now, changes>>
           /\ LET c == Offer[Item(d).listing].company IN
              \E res \in Resolutions(run[d].resolver, c, Offer[Item(d).listing].title,
                                     file, open, down, now) :
                 /\ Informed(res.resolver, Loaded(run[d].resolver, file), run[d].resolver, c,
                             open, down, now)
                 /\ Backing(res)
                 /\ run'[d].resolver = res.resolver
                 /\ run'[d].batch = [run[d].batch EXCEPT ![run[d].next].url = Url(Item(d), res)]
                 /\ Url(Item(d), res) \in Urls
                 /\ file' = IF res.resolver.cache = Loaded(run[d].resolver, file).cache THEN file
                            ELSE res.resolver.cache
                 /\ asked' = [b \in Boards |-> IF res.resolver.boards[b] # run[d].resolver.boards[b]
                                               THEN Today ELSE asked[b]]
<1> DEFINE c == Offer[Item(d).listing].company
           title == Offer[Item(d).listing].title
           before == run[d].resolver
           n == run[d].next
           batch == run[d].batch
<1>1. Relinkable(d) /\ run[d].at = "resolve" /\ UNCHANGED <<rows, writer, open, down, now, changes>>
  BY DEF Relink, Relinkable
<1>2. PICK res \in Resolutions(before, c, title, file, open, down, now) :
          /\ run' = [run EXCEPT ![d] = NextLink([run[d] EXCEPT
                        !.resolver = res.resolver,
                        !.batch[n].url = IF res.match = {} THEN @ ELSE CHOOSE p \in res.match : TRUE])]
          /\ file' = IF res.resolver.cache = Loaded(before, file).cache THEN file
                     ELSE res.resolver.cache
          /\ asked' = [b \in Boards |-> IF res.resolver.boards[b] # before.boards[b]
                                        THEN Today ELSE asked[b]]
  BY DEF Relink
<1>3. /\ n \in DOMAIN batch /\ batch \in Seq(Items) /\ before \in Resolvers /\ c \in Companies
      /\ batch[n] = Item(d) /\ Item(d) \in Items
  BY <1>1, ItemIs, RunIs DEF Discoveries, Item
<1>4. Informed(res.resolver, Loaded(before, file), before, c, open, down, now) /\ Backing(res)
  <2>1. now \in Nat /\ open \in SUBSET Postings /\ file \in [Companies -> Entries]
    BY Numbers DEF TypesInv
  <2> QED
    BY <1>3, <2>1, Resolved
<1> DEFINE u == Url(Item(d), res)
<1>5. u \in Urls
  <2>1. res.match # {} => (CHOOSE p \in res.match : TRUE) \in Postings
    BY <1>4 DEF Backing
  <2> QED
    BY <1>1, <2>1, ItemIs DEF Url, Urls
<1> DEFINE linked == [batch EXCEPT ![n].url = u]
           y == [run[d] EXCEPT !.resolver = res.resolver, !.batch = linked]
<1>6. run' = [run EXCEPT ![d] = NextLink(y)]
  BY <1>2, <1>3, RunIs DEF Url
<1>7. linked \in Seq(Items) /\ Len(linked) = Len(batch)
  <2>1. [batch[n] EXCEPT !.url = u] \in Items
    BY <1>3, <1>5 DEF Items
  <2>2. linked = [batch EXCEPT ![n] = [batch[n] EXCEPT !.url = u]]
    BY <1>3
  <2> HIDE DEF linked, u, batch, n
  <2> QED
    BY <1>3, <2>1, <2>2
<1>8. res.resolver \in Resolvers
  BY <1>4 DEF Informed
<1> HIDE DEF u, linked
<1>9. y \in Discoveries
  BY <1>7, <1>8, RunIs DEF Discoveries
<1>10. /\ y.at = "resolve" /\ y.next = n /\ y.batch = linked /\ y.resolver = res.resolver
       /\ Keeps(run[d], y) /\ y.saw = run[d].saw
  BY <1>1, RunIs DEF Discoveries, Keeps
<1> HIDE DEF y
<1>11. Fits(y)
  BY <1>1, <1>7, <1>9, <1>10, RunIs DEF Fits, Keeps
<1> DEFINE x == NextLink(y)
<1>12. /\ Fits(x) /\ x.at \in {"resolve", "insert"} /\ x.batch = linked
       /\ x.resolver = res.resolver /\ Keeps(run[d], x) /\ x.saw = run[d].saw
  BY <1>9, <1>10, <1>11, LinkedNext DEF Keeps
<1> HIDE DEF x
<1>13. Only(d) /\ run'[d] = x
  BY <1>6, <1>12, OnlyMoved DEF x
<1> QED
  BY <1>1, <1>2, <1>4, <1>5, <1>12, <1>13 DEF u, linked

LEMMA LeaveLinkDoes ==
    ASSUME TypesInv, NEW d \in Runners, LeaveLink(d)
    PROVE  /\ Only(d) /\ run[d].at = "resolve" /\ run'[d].at \in {"resolve", "insert"}
           /\ Keeps(run[d], run'[d]) /\ run'[d].batch = run[d].batch
           /\ run'[d].resolver = run[d].resolver /\ run'[d].saw = run[d].saw
           /\ changes' \in 0..MaxChanges
           /\ UNCHANGED <<rows, writer, file, open, down, now, asked>>
<1>1. run' = [run EXCEPT ![d] = NextLink(run[d])] /\ run[d].at = "resolve"
      /\ UNCHANGED <<rows, writer, file, open, down, now, asked>>
  BY RunIs DEF LeaveLink
<1>2. /\ Fits(NextLink(run[d])) /\ NextLink(run[d]).at \in {"resolve", "insert"}
      /\ NextLink(run[d]).batch = run[d].batch /\ NextLink(run[d]).resolver = run[d].resolver
      /\ NextLink(run[d]).saw = run[d].saw /\ Keeps(run[d], NextLink(run[d]))
  BY <1>1, RunIs, LinkedNext DEF Keeps
<1>3. Only(d) /\ run'[d] = NextLink(run[d])
  BY <1>1, <1>2, OnlyMoved
<1>4. changes' \in 0..MaxChanges
  <2>1. changes \in 0..MaxChanges /\ MaxChanges \in Nat
    BY Numbers DEF TypesInv
  <2>2. changes' = changes \/ (changes < MaxChanges /\ changes' = changes + 1)
    BY DEF LeaveLink
  <2> QED
    BY <2>1, <2>2
<1> QED
  BY <1>1, <1>2, <1>3, <1>4

LEMMA LookDoes ==
    ASSUME TypesInv, NEW d \in Runners, Look(d)
    PROVE  /\ Only(d) /\ run[d].at = "insert" /\ Keeps(run[d], run'[d])
           /\ run'[d].batch = run[d].batch
           /\ run'[d].resolver = run[d].resolver /\ run'[d].saw = run[d].saw
           /\ \/ run'[d].at = "insert"
              \/ run'[d].at = "flush" /\ run'[d].next = run[d].next /\ ~Refused(d, Item(d))
           /\ UNCHANGED <<rows, writer, file, open, down, now, changes, asked>>
<1>1. /\ run[d].at = "insert" /\ run[d].next <= Len(run[d].batch)
      /\ UNCHANGED <<rows, writer, file, open, down, now, changes, asked>>
  BY DEF Look
<1>2. run[d].next \in Nat \ {0} /\ Len(run[d].batch) \in Nat
  BY RunIs DEF Discoveries
<1>3. CASE Refused(d, Item(d))
  <2> DEFINE x == [run[d] EXCEPT !.next = run[d].next + 1]
  <2>1. run' = [run EXCEPT ![d] = x]
    BY <1>3, RunIs DEF Look
  <2>2. x \in Discoveries
    <3>1. run[d].next + 1 \in Nat \ {0}
      BY <1>2
    <3> QED
      BY <3>1, RunIs DEF Discoveries
  <2>3. /\ x.at = "insert" /\ x.next = run[d].next + 1 /\ x.batch = run[d].batch
        /\ Keeps(run[d], x) /\ x.resolver = run[d].resolver /\ x.saw = run[d].saw
    BY <1>1, RunIs DEF Discoveries, Keeps
  <2>4. run[d].next + 1 <= Len(run[d].batch) + 1
    BY <1>1, <1>2
  <2> HIDE DEF x
  <2>5. Fits(x)
    BY <1>1, <2>2, <2>3, <2>4, RunIs DEF Fits, Keeps
  <2> QED
    BY <1>1, <2>1, <2>3, <2>5, OnlyMoved
<1>4. CASE ~Refused(d, Item(d))
  <2> DEFINE x == [run[d] EXCEPT !.at = "flush"]
  <2>1. run' = [run EXCEPT ![d] = x]
    BY <1>4, RunIs DEF Look
  <2>2. x \in Discoveries
    BY RunIs DEF Discoveries, Ways
  <2>3. /\ x.at = "flush" /\ x.next = run[d].next /\ x.batch = run[d].batch
        /\ Keeps(run[d], x) /\ x.resolver = run[d].resolver /\ x.saw = run[d].saw
    BY <1>1, RunIs DEF Discoveries, Keeps
  <2> HIDE DEF x
  <2>4. Fits(x)
    BY <1>1, <2>2, <2>3, RunIs DEF Fits, Keeps
  <2> QED
    BY <1>1, <1>4, <2>1, <2>3, <2>4, OnlyMoved
<1> QED
  BY <1>3, <1>4

Row(d) == [listing |-> Item(d).listing, url |-> Item(d).url, run |-> Stamp(d),
           status |-> "discovered"]

LEMMA FlushDoes ==
    ASSUME TypesInv, NEW d \in Runners, Flush(d)
    PROVE  /\ Only(d) /\ run[d].at = "flush" /\ run'[d].at = "insert"
           /\ run'[d].nth = run[d].nth /\ run'[d].base = run[d].base
           /\ run'[d].inserted = run[d].inserted /\ run'[d].batch = run[d].batch
           /\ run'[d].resolver = run[d].resolver /\ run'[d].saw = run[d].saw
           /\ writer \in {d, Nobody} /\ Row(d) \in Rows
           /\ \/ /\ Taken(d, Item(d)) /\ writer' = Nobody
                 /\ run'[d].pending = {} /\ run'[d].found = run[d].found
              \/ /\ ~Taken(d, Item(d)) /\ writer' = d
                 /\ run'[d].pending = run[d].pending \union {Row(d)}
                 /\ run'[d].found = run[d].found + 1
           /\ UNCHANGED <<rows, file, open, down, now, changes, asked>>
<1>1. /\ run[d].at = "flush" /\ writer \in {d, Nobody}
      /\ UNCHANGED <<rows, file, open, down, now, changes, asked>>
  BY DEF Flush
<1>2. /\ run[d].next \in Nat \ {0} /\ Len(run[d].batch) \in Nat
      /\ run[d].next <= Len(run[d].batch) /\ run[d].nth # 0 /\ run[d].found \in Nat
      /\ run[d].nth \in 0..MaxRuns /\ IsFiniteSet(run[d].pending) /\ run[d].pending \subseteq Rows
  BY <1>1, RunIs DEF Discoveries, Fits
<1>3. Row(d) \in Rows
  <2>1. Stamp(d) \in Runners \X (1..MaxRuns)
    BY <1>2, Numbers DEF Stamp
  <2> QED
    BY <1>1, <2>1, ItemIs DEF Row, Rows
<1>4. run[d].next + 1 \in Nat \ {0} /\ run[d].next + 1 <= Len(run[d].batch) + 1
  BY <1>2
<1>5. CASE Taken(d, Item(d))
  <2> DEFINE x == [run[d] EXCEPT !.at = "insert", !.next = run[d].next + 1, !.pending = {}]
  <2>1. run' = [run EXCEPT ![d] = x] /\ writer' = Nobody
    BY <1>5, RunIs DEF Flush
  <2>2. x \in Discoveries
    BY <1>4, RunIs DEF Discoveries, Ways
  <2>3. /\ x.at = "insert" /\ x.next = run[d].next + 1 /\ x.batch = run[d].batch
        /\ x.pending = {} /\ x.found = run[d].found /\ x.nth = run[d].nth
        /\ x.inserted = run[d].inserted /\ x.base = run[d].base
        /\ x.resolver = run[d].resolver /\ x.saw = run[d].saw
    BY RunIs DEF Discoveries
  <2> HIDE DEF x
  <2>4. Fits(x)
    BY <1>2, <1>4, <2>2, <2>3, FS_EmptySet DEF Fits
  <2> QED
    BY <1>1, <1>3, <1>5, <2>1, <2>3, <2>4, OnlyMoved
<1>6. CASE ~Taken(d, Item(d))
  <2> DEFINE x == [run[d] EXCEPT !.at = "insert", !.next = run[d].next + 1,
                                 !.pending = run[d].pending \union {Row(d)},
                                 !.found = run[d].found + 1]
  <2>1. run' = [run EXCEPT ![d] = x] /\ writer' = d
    BY <1>6, RunIs DEF Flush, Row, Stamp
  <2>2. x \in Discoveries
    <3>1. run[d].pending \union {Row(d)} \in SUBSET Rows /\ run[d].found + 1 \in Nat
      BY <1>2, <1>3
    <3> QED
      BY <1>4, <3>1, RunIs DEF Discoveries, Ways
  <2>3. /\ x.at = "insert" /\ x.next = run[d].next + 1 /\ x.batch = run[d].batch
        /\ x.pending = run[d].pending \union {Row(d)} /\ x.found = run[d].found + 1
        /\ x.nth = run[d].nth
        /\ x.inserted = run[d].inserted /\ x.base = run[d].base
        /\ x.resolver = run[d].resolver /\ x.saw = run[d].saw
    BY RunIs DEF Discoveries
  <2>4. IsFiniteSet(run[d].pending \union {Row(d)})
    BY <1>2, FS_AddElement
  <2> HIDE DEF x
  <2>5. Fits(x)
    BY <1>2, <1>4, <2>2, <2>3, <2>4 DEF Fits
  <2> QED
    BY <1>1, <1>3, <1>6, <2>1, <2>3, <2>5, OnlyMoved
<1> QED
  BY <1>5, <1>6

LEMMA CommitDoes ==
    ASSUME TypesInv, NEW d \in Runners, Commit(d)
    PROVE  /\ Only(d) /\ run[d].at = "insert" /\ run'[d].at = "fetch"
           /\ run'[d].nth = run[d].nth /\ run'[d].base = run[d].base
           /\ run'[d].pending = {} /\ run'[d].found = 0
           /\ run'[d].inserted = run[d].inserted + run[d].found /\ run'[d].batch = <<>>
           /\ run'[d].resolver = run[d].resolver /\ run'[d].saw = run[d].saw
           /\ rows' = rows \union run[d].pending
           /\ writer' = IF writer = d THEN Nobody ELSE writer
           /\ UNCHANGED <<file, open, down, now, changes, asked>>
<1> DEFINE x == [run[d] EXCEPT !.at = "fetch", !.source = run[d].source + 1, !.batch = <<>>,
                               !.next = 1, !.pending = {}, !.found = 0,
                               !.inserted = run[d].inserted + run[d].found]
<1>1. run' = [run EXCEPT ![d] = x]
  BY RunIs DEF Commit
<1>2. /\ run[d].at = "insert" /\ rows' = rows \union run[d].pending
      /\ writer' = IF writer = d THEN Nobody ELSE writer
      /\ UNCHANGED <<file, open, down, now, changes, asked>>
  BY DEF Commit
<1>3. x \in Discoveries
  <2>1. run[d].source + 1 \in Nat /\ run[d].inserted + run[d].found \in Nat /\ 1 \in Nat \ {0}
        /\ <<>> \in Seq(Items) /\ 0 \in Nat
    BY RunIs DEF Discoveries
  <2> QED
    BY <2>1, RunIs DEF Discoveries, Ways
<1>4. /\ x.at = "fetch" /\ x.batch = <<>> /\ x.next = 1 /\ x.pending = {} /\ x.found = 0
      /\ x.inserted = run[d].inserted + run[d].found /\ x.nth = run[d].nth
      /\ x.base = run[d].base /\ x.resolver = run[d].resolver /\ x.saw = run[d].saw
  BY RunIs DEF Discoveries
<1>5. IsFiniteSet({}) /\ Len(<<>>) = 0 /\ 1 <= 0 + 1 /\ run[d].nth # 0
  BY <1>2, RunIs, FS_EmptySet DEF Fits
<1> HIDE DEF x
<1>6. Fits(x)
  BY <1>3, <1>4, <1>5 DEF Fits
<1> QED
  BY <1>1, <1>2, <1>4, <1>6, OnlyMoved

LEMMA ChangeDoes ==
    ASSUME TypesInv, Change
    PROVE  /\ run' \in [Runners -> Discoveries] /\ open' \subseteq Postings
           /\ down' \subseteq Boards /\ changes' \in 0..MaxChanges
           /\ \A e \in Runners :
                 /\ Placed(e)' /\ Keeps(run[e], run'[e]) /\ run'[e].at = run[e].at
                 /\ run'[e].batch = run[e].batch /\ run'[e].next = run[e].next
                 /\ run'[e].resolver = run[e].resolver
                 /\ run[e].saw \subseteq run'[e].saw /\ (Active(e) => open' \subseteq run'[e].saw)
           /\ UNCHANGED <<rows, writer, file, now, asked>>
<1>1. /\ run' = [e \in Runners |-> IF run[e].at = "idle" THEN run[e]
                                   ELSE [run[e] EXCEPT !.saw = @ \union open']]
      /\ UNCHANGED <<rows, writer, file, now, asked>>
      /\ changes < MaxChanges /\ changes' = changes + 1
  BY DEF Change
<1>2. open' \subseteq Postings /\ down' \subseteq Boards
  BY DEF Change, TypesInv
<1>3. changes' \in 0..MaxChanges
  <2>1. changes \in 0..MaxChanges /\ MaxChanges \in Nat
    BY Numbers DEF TypesInv
  <2> QED
    BY <1>1, <2>1
<1>4. ASSUME NEW e \in Runners
      PROVE  /\ run'[e] \in Discoveries
             /\ Fits(run'[e]) /\ Keeps(run[e], run'[e]) /\ run'[e].at = run[e].at
             /\ run'[e].batch = run[e].batch /\ run'[e].next = run[e].next
             /\ run'[e].resolver = run[e].resolver
             /\ run[e].saw \subseteq run'[e].saw /\ (Active(e) => open' \subseteq run'[e].saw)
  <2>1. CASE run[e].at = "idle"
    <3>1. run'[e] = run[e]
      BY <1>1, <2>1
    <3> QED
      BY <2>1, <3>1, RunIs DEF Keeps, Active
  <2>2. CASE run[e].at # "idle"
    <3> DEFINE x == [run[e] EXCEPT !.saw = run[e].saw \union open']
    <3>1. run'[e] = x
      BY <1>1, <2>2
    <3>2. x \in Discoveries
      <4>1. run[e].saw \union open' \in SUBSET Postings
        BY <1>2, RunIs DEF Discoveries
      <4> QED
        BY <4>1, RunIs DEF Discoveries
    <3>3. /\ Keeps(run[e], x) /\ x.at = run[e].at /\ x.batch = run[e].batch
          /\ x.next = run[e].next /\ x.resolver = run[e].resolver
          /\ x.saw = run[e].saw \union open'
      BY RunIs DEF Discoveries, Keeps
    <3> HIDE DEF x
    <3>4. Fits(x)
      BY <2>2, <3>2, <3>3, RunIs DEF Fits, Keeps
    <3> QED
      BY <3>1, <3>2, <3>3, <3>4
  <2> QED
    BY <2>1, <2>2
<1>5. run' \in [Runners -> Discoveries]
  <2>1. run' = [e \in Runners |-> run'[e]]
    BY <1>1
  <2> QED
    BY <1>4, <2>1
<1>6. \A e \in Runners : Placed(e)'
  BY <1>4 DEF Placed, Fits, Active
<1> QED
  BY <1>1, <1>2, <1>3, <1>4, <1>5, <1>6

\* A row as prefilter leaves it.
Judged(r) == IF is_relevant(r) THEN r ELSE [r EXCEPT !.status = "skipped_low_fit"]

LEMMA JudgedRow ==
    ASSUME NEW r \in Rows
    PROVE  /\ Judged(r) \in Rows /\ Judged(r).listing = r.listing /\ Judged(r).url = r.url
           /\ Judged(r).run = r.run
BY DEF Judged, Rows

LEMMA PrefilterDoes ==
    ASSUME TypesInv, run_prefilter
    PROVE  /\ rows' \subseteq Rows /\ IsFiniteSet(rows') /\ writer = Nobody
           /\ rows' = {Judged(r) : r \in rows}
           /\ UNCHANGED <<run, writer, file, open, down, now, changes, asked>>
<1>1. /\ rows' = {Judged(r) : r \in rows} /\ writer = Nobody
      /\ UNCHANGED <<run, writer, file, open, down, now, changes, asked>>
  BY DEF run_prefilter, Judged
<1>2. rows \subseteq Rows /\ IsFiniteSet(rows)
  BY DEF TypesInv
<1>3. rows' \subseteq Rows
  BY <1>1, <1>2, JudgedRow
<1> DEFINE f == [r \in rows |-> Judged(r)]
<1>4. f \in Surjection(rows, rows')
  BY <1>1 DEF Surjection
<1>5. IsFiniteSet(rows')
  <2> HIDE DEF f
  <2> QED
    BY <1>2, <1>4, FS_Surjection
<1> QED
  BY <1>1, <1>3, <1>5

LEMMA CrashDoes ==
    ASSUME TypesInv, NEW d \in Runners, Crash(d)
    PROVE  /\ Only(d) /\ run'[d] = Rest(run[d].nth) /\ run'[d].at = "idle"
           /\ Active(d) /\ changes' \in 0..MaxChanges
           /\ writer' = IF writer = d THEN Nobody ELSE writer
           /\ file' = file \/ file' = [c \in Companies |-> NoEntry]
           /\ UNCHANGED <<rows, open, down, now, asked>>
<1>1. /\ run' = [run EXCEPT ![d] = Rest(@.nth)] /\ run[d].at # "idle"
      /\ writer' = IF writer = d THEN Nobody ELSE writer
      /\ file' = file \/ file' = [c \in Companies |-> NoEntry]
      /\ UNCHANGED <<rows, open, down, now, asked>>
      /\ changes < MaxChanges /\ changes' = changes + 1
  BY DEF Crash
<1>2. changes' \in 0..MaxChanges
  <2>1. changes \in 0..MaxChanges /\ MaxChanges \in Nat
    BY Numbers DEF TypesInv
  <2> QED
    BY <1>1, <2>1
<1> QED
  BY <1>1, <1>2, RestDoes DEF Active

LEMMA TypesStep == TypesInv /\ [Next]_vars => TypesInv'
<1> SUFFICES ASSUME TypesInv, [Next]_vars PROVE TypesInv'
  OBVIOUS
<1>0. /\ rows \subseteq Rows /\ IsFiniteSet(rows) /\ run \in [Runners -> Discoveries]
      /\ file \in [Companies -> Entries] /\ writer \in Runners \union {Nobody}
      /\ open \subseteq Postings /\ down \subseteq Boards /\ now \in 0..MaxNow
      /\ changes \in 0..MaxChanges /\ asked \in [Boards -> [day : 0..MaxNow, ever : BOOLEAN]]
      /\ \A e \in Runners : Placed(e)
  BY DEF TypesInv
<1>1. ASSUME NEW d \in Runners, Begin(d) PROVE TypesInv'
  BY <1>0, <1>1, BeginDoes DEF Only, TypesInv
<1>2. ASSUME NEW d \in Runners, Fetch(d) PROVE TypesInv'
  BY <1>0, <1>2, FetchDoes DEF Only, TypesInv
<1>3. ASSUME NEW d \in Runners, Relink(d) PROVE TypesInv'
  <2> DEFINE c == Offer[Item(d).listing].company
  <2>1. PICK res \in Resolutions(run[d].resolver, c, Offer[Item(d).listing].title,
                                 file, open, down, now) :
          /\ Informed(res.resolver, Loaded(run[d].resolver, file), run[d].resolver, c, open, down, now)
          /\ file' = IF res.resolver.cache = Loaded(run[d].resolver, file).cache THEN file
                     ELSE res.resolver.cache
          /\ asked' = [b \in Boards |-> IF res.resolver.boards[b] # run[d].resolver.boards[b]
                                        THEN Today ELSE asked[b]]
    BY <1>3, RelinkDoes
  <2>2. file' \in [Companies -> Entries]
    BY <1>0, <2>1 DEF Informed
  <2>3. Today \in [day : 0..MaxNow, ever : BOOLEAN]
    BY <1>0 DEF Today
  <2>4. asked' \in [Boards -> [day : 0..MaxNow, ever : BOOLEAN]]
    BY <1>0, <2>1, <2>3
  <2> QED
    BY <1>0, <1>3, <2>2, <2>4, RelinkDoes DEF Only, TypesInv
<1>4. ASSUME NEW d \in Runners, LeaveLink(d) PROVE TypesInv'
  BY <1>0, <1>4, LeaveLinkDoes DEF Only, TypesInv
<1>5. ASSUME NEW d \in Runners, Look(d) PROVE TypesInv'
  BY <1>0, <1>5, LookDoes DEF Only, TypesInv
<1>6. ASSUME NEW d \in Runners, Flush(d) PROVE TypesInv'
  BY <1>0, <1>6, FlushDoes DEF Only, TypesInv
<1>7. ASSUME NEW d \in Runners, Locked(d) PROVE TypesInv'
  BY <1>0, <1>7, RestDoes DEF Locked, Only, TypesInv
<1>8. ASSUME NEW d \in Runners, Commit(d) PROVE TypesInv'
  <2>1. IsFiniteSet(run[d].pending) /\ run[d].pending \subseteq Rows
    BY RunIs DEF Fits, Discoveries
  <2>2. IsFiniteSet(rows')
    <3>1. IsFiniteSet(rows \union run[d].pending)
      BY <1>0, <2>1, FS_Union
    <3> QED
      BY <1>8, <3>1, CommitDoes
  <2> QED
    BY <1>0, <1>8, <2>1, <2>2, CommitDoes DEF Only, TypesInv
<1>9. ASSUME NEW d \in Runners, Return(d) PROVE TypesInv'
  BY <1>0, <1>9, RestDoes DEF Return, Only, TypesInv
<1>10. ASSUME NEW d \in Runners, Crash(d) PROVE TypesInv'
  <2>1. [c \in Companies |-> NoEntry] \in [Companies -> Entries]
    BY DEF NoEntry, Entries
  <2>2. file' \in [Companies -> Entries]
    BY <1>0, <1>10, <2>1, CrashDoes
  <2> QED
    BY <1>0, <1>10, <2>2, CrashDoes DEF Only, TypesInv
<1>11. ASSUME run_prefilter PROVE TypesInv'
  BY <1>0, <1>11, PrefilterDoes DEF TypesInv, Placed, Active
<1>12. ASSUME Change PROVE TypesInv'
  BY <1>0, <1>12, ChangeDoes DEF TypesInv
<1>13. ASSUME Tick PROVE TypesInv'
  <2>1. now' \in 0..MaxNow
    BY <1>0, <1>13, Numbers DEF Tick
  <2> QED
    BY <1>0, <1>13, <2>1 DEF Tick, TypesInv, Placed, Active
<1>14. ASSUME UNCHANGED vars PROVE TypesInv'
  BY <1>0, <1>14 DEF vars, TypesInv, Placed, Active
<1> QED
  BY <1>1, <1>2, <1>3, <1>4, <1>5, <1>6, <1>7, <1>8, <1>9, <1>10, <1>11, <1>12, <1>13, <1>14
     DEF Next, RunStep

LEMMA TypesInit == Init => TypesInv
<1> SUFFICES ASSUME Init PROVE TypesInv
  OBVIOUS
<1>1. 0 \in 0..MaxRuns /\ 0 \in 0..MaxNow /\ 0 \in 0..MaxChanges
  BY Numbers
<1>2. Rest(0) \in Discoveries /\ Fits(Rest(0))
  BY <1>1, RestIs, RestFits
<1>3. run \in [Runners -> Discoveries]
  BY <1>2 DEF Init
<1>4. \A e \in Runners : Placed(e)
  BY <1>2, <1>3, PlacedFits DEF Init
<1>5. Never \in [day : 0..MaxNow, ever : BOOLEAN] /\ NoEntry \in Entries
  BY <1>1 DEF Never, NoEntry, Entries
<1>6. /\ file \in [Companies -> Entries]
      /\ asked \in [Boards -> [day : 0..MaxNow, ever : BOOLEAN]]
  BY <1>5 DEF Init
<1>7. IsFiniteSet(rows) /\ rows \subseteq Rows
  BY FS_EmptySet DEF Init
<1> QED
  BY <1>1, <1>3, <1>4, <1>6, <1>7 DEF Init, TypesInv

LEMMA TypesAlways == Spec => []TypesInv
BY TypesInit, TypesStep, PTL DEF Spec

\* The intake keeps its types: whatever is fetched and relinked, no run reads past the end
\* of its batch, and no row has a URL that is neither a listing's nor a posting's.
THEOREM TypeCorrect == Spec => []TypeOK
<1>1. TypesInv => TypeOK
  <2> SUFFICES ASSUME TypesInv PROVE TypeOK
    OBVIOUS
  <2>1. ASSUME NEW d \in Runners
        PROVE  /\ run[d].at \in {"idle", "fetch", "resolve", "insert", "flush"}
               /\ run[d].nth \in 0..MaxRuns /\ run[d].batch \in Seq(Items)
               /\ run[d].next \in 1..(Len(run[d].batch) + 1)
               /\ run[d].pending \subseteq Rows
    <3>1. /\ run[d] \in Discoveries /\ run[d].next <= Len(run[d].batch) + 1
      BY RunIs DEF Fits
    <3>2. run[d].next \in Nat \ {0} /\ run[d].batch \in Seq(Items)
      BY <3>1 DEF Discoveries
    <3>3. run[d].next \in 1..(Len(run[d].batch) + 1)
      BY <3>1, <3>2
    <3> QED
      BY <3>1, <3>3 DEF Discoveries, Ways
  <2> QED
    BY <2>1 DEF TypesInv, TypeOK
<1> QED
  BY <1>1, TypesAlways, PTL

-----------------------------------------------------------------------------
(* What a run stores is new, and counted *)

\* The rows of the run of d change by its own steps alone.
LEMMA StampedRows ==
    ASSUME TypesInv, NEW d \in Runners, NEW e \in Runners, d # e
    PROVE  Stamp(d) # Stamp(e)
BY DEF Stamp

LEMMA RowsAre ==
    \A d : RowsOf(d) = Stored(d) \union run[d].pending
BY DEF RowsOf, Stored, Stamp

LEMMA FiniteRows ==
    ASSUME TypesInv, NEW d \in Runners
    PROVE  IsFiniteSet(RowsOf(d)) /\ RowsOf(d) \subseteq Rows /\ RowsOf(d) \subseteq Visible(d)
<1>1. IsFiniteSet(rows) /\ rows \subseteq Rows
  BY DEF TypesInv
<1>2. IsFiniteSet(run[d].pending) /\ run[d].pending \subseteq Rows
  BY RunIs DEF Fits, Discoveries
<1>3. Stored(d) \subseteq rows
  BY DEF Stored
<1>4. IsFiniteSet(Stored(d))
  BY <1>1, <1>3, FS_Subset
<1>5. IsFiniteSet(Stored(d) \union run[d].pending)
  BY <1>2, <1>4, FS_Union
<1> QED
  BY <1>1, <1>2, <1>3, <1>5, RowsAre DEF Visible

\* A process whose record is not touched, while others store their rows.
LEMMA BooksKept ==
    ASSUME TypesInv, NEW e \in Runners, Books(e), Placed(e)',
           Keeps(run[e], run'[e]), run[e].pending # {} => writer' = e,
           \A r \in rows' : r.run[1] = e => r.run[2] <= run[e].nth
    PROVE  Books(e)'
BY DEF Books, Keeps, Stamp

LEMMA HoldsKept ==
    ASSUME TypesInv, NEW e \in Runners, Holds(e), Active(e), Keeps(run[e], run'[e]),
           RowsOf(e)' = RowsOf(e), UrlsOf(rows) \subseteq UrlsOf(rows'),
           run'[e].at # "flush" \/
             (run[e].at = "flush" /\ Item(e)' = Item(e)
              /\ (run[e].pending # {} => UrlsOf(rows') = UrlsOf(rows)))
    PROVE  Holds(e)'
<1>1. /\ run'[e].inserted = run[e].inserted /\ run'[e].found = run[e].found
      /\ run'[e].base = run[e].base /\ run'[e].pending = run[e].pending
  BY DEF Keeps
<1>2. /\ run[e].inserted + run[e].found = Cardinality(RowsOf(e))
      /\ run[e].base \subseteq UrlsOf(rows)
      /\ UrlsOf(RowsOf(e)) \intersect run[e].base = {}
      /\ \A r, s \in RowsOf(e) : r.url = s.url => r = s
      /\ run[e].at = "flush" =>
             /\ Item(e).url \notin UrlsOf(RowsOf(e)) \union run[e].base
             /\ run[e].pending # {} => Item(e).url \notin UrlsOf(Visible(e))
  BY DEF Holds
<1>3. UrlsOf(RowsOf(e))' = UrlsOf(RowsOf(e))
  BY DEF UrlsOf
<1>4. \A S : UrlsOf(S \union run[e].pending) = UrlsOf(S) \union UrlsOf(run[e].pending)
  BY DEF UrlsOf
<1>5. ASSUME run'[e].at = "flush"
      PROVE  /\ Item(e)'.url \notin UrlsOf(RowsOf(e))' \union run'[e].base
             /\ run'[e].pending # {} => Item(e)'.url \notin UrlsOf(Visible(e))'
  <2>1. UrlsOf(Visible(e)) = UrlsOf(rows) \union UrlsOf(run[e].pending)
    BY <1>4 DEF Visible
  <2>2. UrlsOf(Visible(e))' = UrlsOf(rows') \union UrlsOf(run[e].pending)
    BY <1>1, <1>4 DEF Visible
  <2> QED
    BY <1>1, <1>2, <1>3, <1>5, <2>1, <2>2
<1>6. \A r, s \in RowsOf(e)' : r.url = s.url => r = s
  BY <1>2
<1>7. run'[e].base \subseteq UrlsOf(rows')
  BY <1>1, <1>2
<1>8. run'[e].inserted + run'[e].found = Cardinality(RowsOf(e))'
  BY <1>1, <1>2
<1>9. UrlsOf(RowsOf(e))' \intersect run'[e].base = {}
  BY <1>1, <1>2, <1>3
<1> QED
  BY <1>5, <1>6, <1>7, <1>8, <1>9 DEF Holds

LEMMA OthersKept ==
    ASSUME TypesInv, StoreInv, NEW d \in Runners, Only(d), NEW e \in Runners \ {d},
           rows' = rows, writer = e => writer' = e
    PROVE  Books(e)' /\ Holds(e)'
<1>1. run'[e] = run[e] /\ Placed(e)' /\ Books(e) /\ Holds(e)
  BY DEF Only, StoreInv
<1>2. Books(e)'
  BY <1>1, BooksKept DEF Books, Keeps
<1>3. Stamp(e)' = Stamp(e) /\ Stored(e)' = Stored(e) /\ RowsOf(e)' = RowsOf(e) /\ Item(e)' = Item(e)
  BY <1>1 DEF Stamp, Stored, RowsOf, Item
<1>4. ASSUME Active(e) PROVE Holds(e)'
  <2>1. UrlsOf(rows) \subseteq UrlsOf(rows') /\ UrlsOf(rows') = UrlsOf(rows)
    BY DEF UrlsOf
  <2>2. Keeps(run[e], run'[e])
    BY <1>1 DEF Keeps
  <2>3. run'[e].at # "flush" \/
          (run[e].at = "flush" /\ Item(e)' = Item(e)
           /\ (run[e].pending # {} => UrlsOf(rows') = UrlsOf(rows)))
    BY <1>1, <1>3, <2>1
  <2> QED
    BY <1>1, <1>3, <1>4, <2>1, <2>2, <2>3, HoldsKept
<1>5. ASSUME ~Active(e) PROVE Holds(e)'
  BY <1>1, <1>5 DEF Holds, Active
<1> QED
  BY <1>2, <1>4, <1>5

LEMMA ActorKept ==
    ASSUME TypesInv, StoreInv, NEW d \in Runners, Only(d), Active(d), Keeps(run[d], run'[d]),
           rows' = rows, run[d].pending # {} => writer' = writer, run'[d].at # "flush"
    PROVE  Books(d)' /\ Holds(d)'
<1>1. Placed(d)' /\ Books(d) /\ Holds(d)
  BY DEF Only, StoreInv
<1>2. Books(d)'
  BY <1>1, BooksKept DEF Books, Keeps
<1>3. RowsOf(d)' = RowsOf(d)
  BY DEF RowsOf, Keeps
<1> QED
  BY <1>1, <1>2, <1>3, HoldsKept

LEMMA RestKept ==
    ASSUME TypesInv, StoreInv, NEW d \in Runners, run'[d] = Rest(run[d].nth),
           rows' = rows
    PROVE  Books(d)' /\ Holds(d)'
<1>1. /\ run'[d].at = "idle" /\ run'[d].nth = run[d].nth /\ run'[d].pending = {}
      /\ run'[d].found = 0
  BY RunIs, RestIs
<1>2. Books(d)
  BY DEF StoreInv
<1> QED
  BY <1>1, <1>2, FS_EmptySet DEF Books, Holds, Active, Stamp

LEMMA BeginStores ==
    ASSUME TypesInv, StoreInv, NEW d \in Runners, Begin(d) PROVE StoreInv'
<1>1. /\ Only(d) /\ run'[d].at = "fetch" /\ run'[d].nth = run[d].nth + 1
      /\ run'[d].pending = {} /\ run'[d].found = 0
      /\ run'[d].inserted = 0 /\ run'[d].base = UrlsOf(rows)
      /\ rows' = rows /\ writer' = writer
  BY BeginDoes
<1>2. run[d].nth \in Nat
  BY RunIs
<1>3. \A r \in rows : r.run[1] = d => r.run[2] \in Nat /\ r.run[2] <= run[d].nth
  BY DEF StoreInv, Books, TypesInv, Rows
<1>4. Books(d)'
  <2>1. \A r \in rows' : r.run[1] = d => r.run[2] <= run'[d].nth
    BY <1>1, <1>2, <1>3
  <2> QED
    BY <1>1, <2>1, FS_EmptySet DEF Books
<1>5. RowsOf(d)' = {}
  <2>1. ASSUME NEW r \in rows, r.run = <<d, run[d].nth + 1>> PROVE FALSE
    BY <1>2, <1>3, <2>1
  <2> QED
    BY <1>1, <2>1 DEF RowsOf
<1>6. Holds(d)'
  <2>1. Cardinality(RowsOf(d)') = 0 /\ UrlsOf(RowsOf(d)') = {}
    BY <1>5, FS_EmptySet DEF UrlsOf
  <2>2. run'[d].inserted + run'[d].found = 0
    BY <1>1
  <2>3. run'[d].base \subseteq UrlsOf(rows')
    BY <1>1
  <2> QED
    BY <1>1, <1>5, <2>1, <2>2, <2>3 DEF Holds
<1> QED
  BY <1>1, <1>4, <1>6, OthersKept DEF StoreInv

LEMMA LookStores ==
    ASSUME TypesInv, StoreInv, NEW d \in Runners, Look(d) PROVE StoreInv'
<1>1. /\ Only(d) /\ run[d].at = "insert" /\ Keeps(run[d], run'[d])
      /\ run'[d].batch = run[d].batch /\ rows' = rows /\ writer' = writer
      /\ \/ run'[d].at = "insert"
         \/ run'[d].at = "flush" /\ run'[d].next = run[d].next /\ ~Refused(d, Item(d))
  BY LookDoes
<1>2. Active(d) /\ Placed(d)' /\ Books(d) /\ Holds(d)
  BY <1>1 DEF Active, Only, StoreInv
<1>3. CASE run'[d].at = "insert"
  BY <1>1, <1>2, <1>3, ActorKept, OthersKept DEF StoreInv
<1>4. CASE run'[d].at = "flush" /\ run'[d].next = run[d].next /\ ~Refused(d, Item(d))
  <2>1. Item(d)' = Item(d) /\ Item(d).url \notin UrlsOf(Visible(d))
    BY <1>1, <1>4 DEF Item, Refused, already_exists, UrlsOf
  <2>2. UrlsOf(RowsOf(d)) \subseteq UrlsOf(Visible(d)) /\ UrlsOf(rows) \subseteq UrlsOf(Visible(d))
    BY FiniteRows DEF UrlsOf, Visible
  <2>3. /\ run'[d].inserted = run[d].inserted /\ run'[d].found = run[d].found
        /\ run'[d].base = run[d].base /\ run'[d].pending = run[d].pending
        /\ RowsOf(d)' = RowsOf(d) /\ Visible(d)' = Visible(d)
    BY <1>1 DEF Keeps, RowsOf, Visible
  <2>4. /\ run[d].inserted + run[d].found = Cardinality(RowsOf(d))
        /\ run[d].base \subseteq UrlsOf(rows)
        /\ UrlsOf(RowsOf(d)) \intersect run[d].base = {}
        /\ \A r, s \in RowsOf(d) : r.url = s.url => r = s
    BY <1>2 DEF Holds
  <2>5. UrlsOf(RowsOf(d))' = UrlsOf(RowsOf(d)) /\ UrlsOf(Visible(d))' = UrlsOf(Visible(d))
        /\ UrlsOf(rows)' = UrlsOf(rows)
    BY <1>1, <2>3 DEF UrlsOf
  <2>6. Holds(d)'
    BY <2>1, <2>2, <2>3, <2>4, <2>5 DEF Holds
  <2>7. Books(d)'
    BY <1>1, <1>2, BooksKept DEF Books, Keeps
  <2> QED
    BY <1>1, <2>6, <2>7, OthersKept DEF StoreInv
<1> QED
  BY <1>1, <1>3, <1>4

LEMMA FlushStores ==
    ASSUME TypesInv, StoreInv, NEW d \in Runners, Flush(d) PROVE StoreInv'
<1>1. /\ Only(d) /\ run[d].at = "flush" /\ run'[d].at = "insert"
      /\ run'[d].nth = run[d].nth /\ run'[d].base = run[d].base
      /\ run'[d].inserted = run[d].inserted /\ writer \in {d, Nobody} /\ Row(d) \in Rows
      /\ rows' = rows
  BY FlushDoes
<1>2. Active(d) /\ Placed(d)' /\ Books(d) /\ Holds(d)
  BY <1>1 DEF Active, Only, StoreInv
<1>3. \A e \in Runners \ {d} : Books(e)' /\ Holds(e)'
  <2>1. \A e \in Runners \ {d} : writer # e
    BY <1>1, Numbers
  <2> QED
    BY <1>1, <2>1, OthersKept
<1>4. /\ run[d].inserted + run[d].found = Cardinality(RowsOf(d))
      /\ run[d].base \subseteq UrlsOf(rows)
      /\ UrlsOf(RowsOf(d)) \intersect run[d].base = {}
      /\ \A r, s \in RowsOf(d) : r.url = s.url => r = s
      /\ Item(d).url \notin UrlsOf(RowsOf(d)) \union run[d].base
      /\ run[d].pending # {} => Item(d).url \notin UrlsOf(Visible(d))
  BY <1>1, <1>2 DEF Holds
<1>5. run[d].found \in Nat /\ run[d].inserted \in Nat /\ IsFiniteSet(run[d].pending)
      /\ IsFiniteSet(RowsOf(d))
  BY RunIs, FiniteRows DEF Discoveries, Fits
<1>6. CASE Taken(d, Item(d)) /\ run'[d].pending = {} /\ run'[d].found = run[d].found
  <2>1. Item(d).url \in UrlsOf(Visible(d))
    BY <1>6 DEF Taken, Identity, UrlsOf
  <2>2. run[d].pending = {}
    BY <1>4, <2>1
  <2>3. Keeps(run[d], run'[d])
    BY <1>1, <1>6, <2>2 DEF Keeps
  <2> QED
    BY <1>1, <1>2, <1>3, <2>2, <2>3, ActorKept DEF StoreInv
<1>7. CASE /\ writer' = d /\ run'[d].pending = run[d].pending \union {Row(d)}
           /\ run'[d].found = run[d].found + 1
  <2>1. Row(d).url = Item(d).url /\ Row(d).run = Stamp(d)
    BY DEF Row
  <2>2. RowsOf(d)' = RowsOf(d) \union {Row(d)}
    BY <1>1, <1>7 DEF RowsOf
  <2>3. Row(d) \notin RowsOf(d) /\ run[d].pending \subseteq RowsOf(d)
    BY <1>4, <2>1 DEF UrlsOf, RowsOf
  <2>4. /\ Cardinality(RowsOf(d) \union {Row(d)}) = Cardinality(RowsOf(d)) + 1
        /\ Cardinality(run[d].pending \union {Row(d)}) = Cardinality(run[d].pending) + 1
    BY <1>5, <2>3, FS_AddElement
  <2>5. run'[d].inserted + run'[d].found = Cardinality(RowsOf(d)')
    BY <1>1, <1>4, <1>5, <1>7, <2>2, <2>4
  <2>6. UrlsOf(RowsOf(d)') \intersect run'[d].base = {}
    BY <1>1, <1>4, <2>1, <2>2 DEF UrlsOf
  <2>7. \A r, s \in RowsOf(d)' : r.url = s.url => r = s
    BY <1>4, <2>1, <2>2 DEF UrlsOf
  <2>8. run'[d].base \subseteq UrlsOf(rows')
    BY <1>1, <1>4
  <2>9. Holds(d)'
    BY <1>1, <2>5, <2>6, <2>7, <2>8 DEF Holds
  <2>10. Books(d)'
    <3>1. run'[d].found = Cardinality(run'[d].pending)
      BY <1>2, <1>7, <2>4 DEF Books
    <3>2. \A r \in run'[d].pending : r.run = <<d, run'[d].nth>>
      BY <1>1, <1>2, <1>7, <2>1 DEF Books, Stamp
    <3>3. \A r \in rows' : r.run[1] = d => r.run[2] <= run'[d].nth
      BY <1>1, <1>2 DEF Books
    <3> QED
      BY <1>7, <3>1, <3>2, <3>3 DEF Books, Stamp
  <2> QED
    BY <1>3, <2>9, <2>10 DEF StoreInv
<1> QED
  BY <1>6, <1>7, FlushDoes

LEMMA CommitStores ==
    ASSUME TypesInv, StoreInv, NEW d \in Runners, Commit(d) PROVE StoreInv'
<1>1. /\ Only(d) /\ run[d].at = "insert" /\ run'[d].at = "fetch"
      /\ run'[d].nth = run[d].nth /\ run'[d].base = run[d].base
      /\ run'[d].pending = {} /\ run'[d].found = 0
      /\ run'[d].inserted = run[d].inserted + run[d].found
      /\ rows' = rows \union run[d].pending
      /\ writer' = IF writer = d THEN Nobody ELSE writer
  BY CommitDoes
<1>2. Active(d) /\ Books(d) /\ Holds(d)
  BY <1>1 DEF Active, StoreInv
<1>3. \A r \in run[d].pending : r.run = Stamp(d) /\ r.run[1] = d /\ r.run[2] = run[d].nth
  BY <1>2 DEF Books, Stamp
<1>4. UrlsOf(rows) \subseteq UrlsOf(rows')
  BY <1>1 DEF UrlsOf
<1>5. ASSUME NEW e \in Runners \ {d} PROVE Books(e)' /\ Holds(e)'
  <2>1. run'[e] = run[e] /\ Placed(e)' /\ Books(e) /\ Holds(e) /\ Keeps(run[e], run'[e])
    BY <1>1 DEF Only, StoreInv, Keeps
  <2>2. Books(e)'
    <3>1. \A r \in rows' : r.run[1] = e => r.run[2] <= run[e].nth
      BY <1>1, <1>3, <2>1 DEF Books
    <3>2. run[e].pending # {} => writer' = e
      BY <1>1, <2>1 DEF Books
    <3> QED
      BY <2>1, <3>1, <3>2, BooksKept
  <2>3. RowsOf(e)' = RowsOf(e) /\ Item(e)' = Item(e)
    <3>1. Stamp(d) # Stamp(e)
      BY StampedRows
    <3>2. \A r \in run[d].pending : r.run # <<e, run[e].nth>>
      BY <1>3, <3>1 DEF Stamp
    <3> QED
      BY <1>1, <2>1, <3>2 DEF RowsOf, Item
  <2>4. run[e].pending # {} => UrlsOf(rows') = UrlsOf(rows)
    <3>1. run[e].pending # {} => run[d].pending = {}
      BY <1>2, <2>1 DEF Books
    <3> QED
      BY <1>1, <3>1
  <2>5. ASSUME Active(e) PROVE Holds(e)'
    <3>1. run'[e].at # "flush" \/
            (run[e].at = "flush" /\ Item(e)' = Item(e)
             /\ (run[e].pending # {} => UrlsOf(rows') = UrlsOf(rows)))
      BY <2>1, <2>3, <2>4
    <3> QED
      BY <1>4, <2>1, <2>3, <2>5, <3>1, HoldsKept
  <2>6. ASSUME ~Active(e) PROVE Holds(e)'
    BY <2>1, <2>6 DEF Holds, Active
  <2> QED
    BY <2>2, <2>5, <2>6
<1>6. RowsOf(d)' = RowsOf(d)
  BY <1>1, <1>3 DEF RowsOf, Stamp
<1>7. /\ run[d].inserted + run[d].found = Cardinality(RowsOf(d))
      /\ run[d].base \subseteq UrlsOf(rows)
      /\ UrlsOf(RowsOf(d)) \intersect run[d].base = {}
      /\ \A r, s \in RowsOf(d) : r.url = s.url => r = s
  BY <1>2 DEF Holds
<1>8. Holds(d)'
  <2>1. run'[d].inserted + run'[d].found = run[d].inserted + run[d].found
    BY <1>1, RunIs DEF Discoveries
  <2>2. UrlsOf(RowsOf(d)') = UrlsOf(RowsOf(d))
    BY <1>6
  <2>3. /\ run'[d].inserted + run'[d].found = Cardinality(RowsOf(d)')
        /\ run'[d].base \subseteq UrlsOf(rows')
        /\ UrlsOf(RowsOf(d)') \intersect run'[d].base = {}
        /\ \A r, s \in RowsOf(d)' : r.url = s.url => r = s
    BY <1>1, <1>4, <1>6, <1>7, <2>1, <2>2
  <2> QED
    BY <1>1, <2>3 DEF Holds
<1>9. Books(d)'
  <2>1. run[d].nth \in Nat
    BY RunIs
  <2>2. \A r \in rows' : r.run[1] = d => r.run[2] <= run'[d].nth
    BY <1>1, <1>2, <1>3, <2>1 DEF Books
  <2> QED
    BY <1>1, <2>2, FS_EmptySet DEF Books
<1> QED
  BY <1>5, <1>8, <1>9 DEF StoreInv

LEMMA LocalStores ==
    ASSUME TypesInv, StoreInv, NEW d \in Runners, Only(d), Active(d), Keeps(run[d], run'[d]),
           rows' = rows, writer' = writer, run'[d].at # "flush"
    PROVE  StoreInv'
BY ActorKept, OthersKept DEF StoreInv

\* A run that is over, or lost: what it had not committed is rolled back.
LEMMA RestStores ==
    ASSUME TypesInv, StoreInv, NEW d \in Runners, Only(d), run'[d] = Rest(run[d].nth),
           rows' = rows, \A e \in Runners \ {d} : writer = e => writer' = e
    PROVE  StoreInv'
BY RestKept, OthersKept DEF StoreInv

\* Prefilter changes the status of rows, and runs when nobody is inserting.
LEMMA PrefilterStores ==
    ASSUME TypesInv, StoreInv, run_prefilter PROVE StoreInv'
<1>1. /\ rows' = {Judged(r) : r \in rows} /\ writer = Nobody /\ IsFiniteSet(rows')
      /\ run' = run /\ rows \subseteq Rows
  BY PrefilterDoes DEF TypesInv
<1>2. \A r \in rows : /\ Judged(r).url = r.url /\ Judged(r).run = r.run
  BY <1>1, JudgedRow
<1>3. UrlsOf(rows') = UrlsOf(rows)
  <2>1. \A r \in rows : Judged(r) \in rows' /\ Judged(r).url = r.url
    BY <1>1, <1>2
  <2>2. \A r \in rows' : \E q \in rows : r = Judged(q) /\ r.url = q.url
    BY <1>1, <1>2
  <2> QED
    BY <2>1, <2>2 DEF UrlsOf
<1>4. ASSUME NEW e \in Runners PROVE Books(e)' /\ Holds(e)'
  <2>1. run[e].pending = {} /\ Books(e) /\ Holds(e)
    BY <1>1, Numbers DEF StoreInv, Books
  <2>2. Books(e)'
    <3>1. \A r \in rows' : r.run[1] = e => r.run[2] <= run[e].nth
      BY <1>1, <1>2, <2>1 DEF Books
    <3> QED
      BY <1>1, <2>1, <3>1 DEF Books, Stamp
  <2> DEFINE mine == RowsOf(e)
             after == RowsOf(e)'
  <2>3. mine \subseteq rows /\ after \subseteq rows' /\ IsFiniteSet(mine)
    BY <1>1, <2>1, FiniteRows DEF RowsOf
  <2>4. \A r \in rows : r \in mine <=> r.run = <<e, run[e].nth>>
    BY <2>1 DEF RowsOf
  <2>5. \A r \in rows' : r \in after <=> r.run = <<e, run[e].nth>>
    BY <1>1, <2>1 DEF RowsOf
  <2> HIDE DEF mine, after
  <2>6. \A r \in mine : Judged(r) \in after /\ Judged(r).url = r.url
    BY <1>1, <1>2, <2>3, <2>4, <2>5
  <2>7. \A s \in after : \E r \in mine : s = Judged(r) /\ s.url = r.url
    BY <1>1, <1>2, <2>3, <2>4, <2>5
  <2>8. ASSUME Active(e) PROVE Holds(e)'
    <3>1. /\ run[e].inserted + run[e].found = Cardinality(mine)
          /\ run[e].base \subseteq UrlsOf(rows)
          /\ UrlsOf(mine) \intersect run[e].base = {}
          /\ \A r, s \in mine : r.url = s.url => r = s
          /\ run[e].at = "flush" => Item(e).url \notin UrlsOf(mine) \union run[e].base
      BY <2>1, <2>8 DEF Holds, mine
    <3> DEFINE f == [r \in mine |-> Judged(r)]
    <3>2. f \in Surjection(mine, after) /\ f \in Injection(mine, after)
      <4>1. f \in [mine -> after]
        BY <2>6
      <4>2. \A r, s \in mine : f[r] = f[s] => r = s
        BY <2>6, <3>1
      <4>3. \A s \in after : \E r \in mine : f[r] = s
        BY <2>7
      <4> HIDE DEF f
      <4> QED
        BY <4>1, <4>2, <4>3 DEF Injection, Surjection, IsInjective
    <3>3. Cardinality(after) = Cardinality(mine)
      <4> HIDE DEF f
      <4> QED
        BY <2>3, <3>2, FS_Surjection
    <3>4. UrlsOf(after) = UrlsOf(mine)
      BY <2>6, <2>7 DEF UrlsOf
    <3>5. \A r, s \in after : r.url = s.url => r = s
      BY <2>7, <3>1
    <3>6. /\ run'[e] = run[e] /\ Item(e)' = Item(e) /\ after = RowsOf(e)'
      BY <1>1 DEF Item, after
    <3>7. run'[e].inserted + run'[e].found = Cardinality(RowsOf(e)')
      BY <3>1, <3>3, <3>6
    <3>8. /\ run'[e].base \subseteq UrlsOf(rows')
          /\ UrlsOf(RowsOf(e)') \intersect run'[e].base = {}
          /\ \A r, s \in RowsOf(e)' : r.url = s.url => r = s
      BY <1>3, <3>1, <3>4, <3>5, <3>6
    <3>9. run'[e].at = "flush" =>
             /\ Item(e)'.url \notin UrlsOf(RowsOf(e)') \union run'[e].base
             /\ run'[e].pending = {}
      BY <2>1, <3>1, <3>4, <3>6
    <3> QED
      BY <3>7, <3>8, <3>9 DEF Holds
  <2>9. ASSUME ~Active(e) PROVE Holds(e)'
    BY <1>1, <2>9 DEF Holds, Active
  <2> QED
    BY <2>2, <2>8, <2>9
<1> QED
  BY <1>4 DEF StoreInv

LEMMA ChangeStores ==
    ASSUME TypesInv, StoreInv, Change PROVE StoreInv'
<1>1. rows' = rows /\ writer' = writer
  BY ChangeDoes
<1>2. ASSUME NEW e \in Runners PROVE Books(e)' /\ Holds(e)'
  <2>1. /\ Placed(e)' /\ Keeps(run[e], run'[e]) /\ run'[e].at = run[e].at
        /\ run'[e].batch = run[e].batch /\ run'[e].next = run[e].next
        /\ Books(e) /\ Holds(e)
    BY ChangeDoes DEF StoreInv
  <2>2. Books(e)'
    <3>1. \A r \in rows' : r.run[1] = e => r.run[2] <= run[e].nth
      BY <1>1, <2>1 DEF Books
    <3>2. run[e].pending # {} => writer' = e
      BY <1>1, <2>1 DEF Books
    <3> QED
      BY <2>1, <3>1, <3>2, BooksKept
  <2>3. RowsOf(e)' = RowsOf(e) /\ Item(e)' = Item(e)
    BY <1>1, <2>1 DEF RowsOf, Item, Keeps
  <2>4. ASSUME Active(e) PROVE Holds(e)'
    <3>1. UrlsOf(rows) \subseteq UrlsOf(rows') /\ UrlsOf(rows') = UrlsOf(rows)
      BY <1>1
    <3>2. run'[e].at # "flush" \/
            (run[e].at = "flush" /\ Item(e)' = Item(e)
             /\ (run[e].pending # {} => UrlsOf(rows') = UrlsOf(rows)))
      BY <2>1, <2>3, <3>1
    <3> QED
      BY <2>1, <2>3, <2>4, <3>1, <3>2, HoldsKept
  <2>5. ASSUME ~Active(e) PROVE Holds(e)'
    BY <2>1, <2>5 DEF Holds, Active
  <2> QED
    BY <2>2, <2>4, <2>5
<1> QED
  BY <1>2 DEF StoreInv

LEMMA SameStores ==
    ASSUME TypesInv, StoreInv, UNCHANGED <<rows, run, writer>> PROVE StoreInv'
<1> SUFFICES ASSUME NEW d \in Runners PROVE Books(d)' /\ Holds(d)'
  BY DEF StoreInv
<1>1. Books(d) /\ Holds(d)
  BY DEF StoreInv
<1>2. /\ RowsOf(d)' = RowsOf(d) /\ Visible(d)' = Visible(d) /\ Item(d)' = Item(d)
      /\ Stamp(d)' = Stamp(d)
  BY DEF RowsOf, Visible, Item, Stamp
<1>3. Books(d)'
  BY <1>1, <1>2 DEF Books
<1>4. Holds(d)'
  BY <1>1, <1>2 DEF Holds, Active
<1> QED
  BY <1>3, <1>4

LEMMA StoreStep == TypesInv /\ StoreInv /\ [Next]_vars => StoreInv'
<1> SUFFICES ASSUME TypesInv, StoreInv, [Next]_vars PROVE StoreInv'
  OBVIOUS
<1>1. ASSUME NEW d \in Runners, Begin(d) PROVE StoreInv'
  BY <1>1, BeginStores
<1>2. ASSUME NEW d \in Runners, Fetch(d) PROVE StoreInv'
  BY <1>2, FetchDoes, LocalStores DEF Active
<1>3. ASSUME NEW d \in Runners, Relink(d) PROVE StoreInv'
  <2>1. /\ Only(d) /\ run[d].at = "resolve" /\ run'[d].at \in {"resolve", "insert"}
        /\ Keeps(run[d], run'[d]) /\ rows' = rows /\ writer' = writer
    BY <1>3, RelinkDoes
  <2> QED
    BY <2>1, LocalStores DEF Active
<1>4. ASSUME NEW d \in Runners, LeaveLink(d) PROVE StoreInv'
  BY <1>4, LeaveLinkDoes, LocalStores DEF Active
<1>5. ASSUME NEW d \in Runners, Look(d) PROVE StoreInv'
  BY <1>5, LookStores
<1>6. ASSUME NEW d \in Runners, Flush(d) PROVE StoreInv'
  BY <1>6, FlushStores
<1>7. ASSUME NEW d \in Runners, Locked(d) PROVE StoreInv'
  BY <1>7, RestDoes, RestStores DEF Locked
<1>8. ASSUME NEW d \in Runners, Commit(d) PROVE StoreInv'
  BY <1>8, CommitStores
<1>9. ASSUME NEW d \in Runners, Return(d) PROVE StoreInv'
  BY <1>9, RestDoes, RestStores DEF Return
<1>10. ASSUME NEW d \in Runners, Crash(d) PROVE StoreInv'
  BY <1>10, CrashDoes, RestStores
<1>11. ASSUME run_prefilter PROVE StoreInv'
  BY <1>11, PrefilterStores
<1>12. ASSUME Change PROVE StoreInv'
  BY <1>12, ChangeStores
<1>13. ASSUME Tick PROVE StoreInv'
  BY <1>13, SameStores DEF Tick
<1>14. ASSUME UNCHANGED vars PROVE StoreInv'
  BY <1>14, SameStores DEF vars
<1> QED
  BY <1>1, <1>2, <1>3, <1>4, <1>5, <1>6, <1>7, <1>8, <1>9, <1>10, <1>11, <1>12, <1>13, <1>14
     DEF Next, RunStep

LEMMA StoreInit == Init => StoreInv
<1> SUFFICES ASSUME Init, NEW d \in Runners PROVE Books(d) /\ Holds(d)
  BY DEF StoreInv
<1>1. rows = {} /\ run[d] = Rest(0)
  BY DEF Init
<1>2. run[d].at = "idle" /\ run[d].pending = {} /\ run[d].found = 0
  BY <1>1 DEF Rest
<1> QED
  BY <1>1, <1>2, FS_EmptySet DEF Books, Holds, Active

LEMMA StoreAlways == Spec => []StoreInv
<1>1. TypesInv /\ StoreInv /\ [Next]_vars => StoreInv'
  BY StoreStep
<1> QED
  BY <1>1, StoreInit, TypesAlways, PTL DEF Spec

\* In every reachable state, what a run has counted as new is the number of rows of its
\* own that are stored or in its transaction (discover.py: the count it returns).
THEOREM CountsAreStored == Spec => []CountedAreStored
<1>1. StoreInv => CountedAreStored
  BY DEF StoreInv, Holds, CountedAreStored, Active
<1> QED
  BY <1>1, StoreAlways, PTL

\* In every reachable state, no run has stored a URL that was on file when it began, or
\* one URL twice (discover.py: _already_exists and the constraint behind it).
THEOREM NothingIsStoredTwice == Spec => []NothingTwice
<1>1. StoreInv => NothingTwice
  <2> SUFFICES ASSUME StoreInv, NEW d \in Runners, NEW r \in RowsOf(d), run[d].at # "idle"
               PROVE  r.url \notin run[d].base /\ \A s \in RowsOf(d) : s.url = r.url => s = r
    BY DEF NothingTwice
  <2>1. Holds(d) /\ Active(d)
    BY DEF StoreInv, Active
  <2> QED
    BY <2>1 DEF Holds, UrlsOf
<1> QED
  BY <1>1, StoreAlways, PTL

-----------------------------------------------------------------------------
(* The links that can be applied through are kept *)

\* The URL a listing is fetched with is the employer's link, if that can be applied through.
LEMMA FetchedLinks ==
    ASSUME NEW n \in DOMAIN Sources, NEW b \in Fetches(Sources[n]), NEW k \in DOMAIN b
    PROVE  Direct(b[k]) /\ (Sources[n].adapter = "arbeitsagentur" => b[k].listing \in AgencyListings)
<1> DEFINE a == Sources[n].adapter
           l == b[k].listing
<1>1. l \in ToSet(Sources[n].offers) /\ b[k].url = UrlOf(a, l)
  BY FetchedItems
<1>2. a \in DOMAIN Adapters /\ (a \in Employers => Offer[l].direct = NoUrl)
  BY <1>1, IntakeAssumption DEF SourcesAssumption
<1>3. a = "jobspy" \/ a = "arbeitsagentur" \/ a \in Employers
  BY <1>2 DEF Employers
<1>4. ASSUME Good(l) PROVE UrlOf(a, l) = Offer[l].direct
  <2>1. Offer[l].direct \notin DeadHosts \union {NoUrl} /\ Offer[l].direct # NoUrl
    BY <1>4 DEF Good
  <2>2. CASE a = "jobspy"
    BY <2>1, <2>2 DEF UrlOf, best_url
  <2>3. CASE a = "arbeitsagentur"
    BY <2>1, <2>3 DEF UrlOf, job_url
  <2> QED
    BY <1>2, <1>3, <2>1, <2>2, <2>3
<1>5. a = "arbeitsagentur" => l \in AgencyListings
  BY <1>1 DEF AgencyListings
<1> QED
  BY <1>1, <1>4, <1>5 DEF Direct

\* The part of LinkInv about a run.
Linking(d) ==
    /\ \A n \in DOMAIN run[d].batch : Direct(run[d].batch[n])
    /\ run[d].at = "resolve" =>
          \A n \in DOMAIN run[d].batch : run[d].batch[n].listing \in AgencyListings
    /\ \A r \in run[d].pending : Direct(r) /\ r.status = "discovered"

LEMMA LinkParts ==
    LinkInv <=> /\ \A d \in Runners : Linking(d)
                /\ \A r \in rows : Direct(r)
                /\ AppliableAreKept
BY DEF LinkInv, Linking

\* A step of d that stores nothing.
LEMMA LinkKept ==
    ASSUME LinkInv, NEW d \in Runners, Only(d), rows' = rows, Linking(d)' PROVE LinkInv'
<1>1. \A e \in Runners : Linking(e)
  BY LinkParts
<1>2. ASSUME NEW e \in Runners PROVE Linking(e)'
  <2>1. CASE e = d
    BY <2>1
  <2>2. CASE e # d
    BY <1>1, <2>2 DEF Only, Linking
  <2> QED
    BY <2>1, <2>2
<1>3. (\A r \in rows : Direct(r))' /\ AppliableAreKept'
  BY DEF LinkInv, Direct, AppliableAreKept
<1> QED
  BY <1>2, <1>3 DEF LinkInv, Linking

LEMMA FetchLinks ==
    ASSUME TypesInv, LinkInv, NEW d \in Runners, Fetch(d) PROVE LinkInv'
<1> DEFINE n == run[d].source
           b == run'[d].batch
<1>1. /\ Only(d) /\ rows' = rows /\ n \in DOMAIN Sources /\ b \in Fetches(Sources[n])
      /\ run'[d].pending = run[d].pending
      /\ run'[d].at = "resolve" => Sources[n].adapter = "arbeitsagentur"
  BY FetchDoes DEF Keeps
<1> HIDE DEF n, b
<1>2. \A k \in DOMAIN b : Direct(b[k]) /\ (Sources[n].adapter = "arbeitsagentur" => b[k].listing \in AgencyListings)
  BY <1>1, FetchedLinks
<1>3. Linking(d)
  BY LinkParts
<1>4. Linking(d)'
  BY <1>1, <1>2, <1>3 DEF Linking, b
<1> QED
  BY <1>1, <1>4, LinkKept

\* What is relinked is the agency's page, and so had no other link.
LEMMA RelinkLinks ==
    ASSUME TypesInv, LinkInv, NEW d \in Runners, Relink(d) PROVE LinkInv'
<1> DEFINE c == Offer[Item(d).listing].company
<1>1. /\ Only(d) /\ Relinkable(d) /\ run[d].at = "resolve" /\ rows' = rows
      /\ run'[d].pending = run[d].pending
  BY RelinkDoes DEF Keeps
<1>2. PICK u : run'[d].batch = [run[d].batch EXCEPT ![run[d].next].url = u]
  BY RelinkDoes
<1>3. Linking(d)
  BY LinkParts
<1>4. run[d].next \in DOMAIN run[d].batch /\ Item(d) = run[d].batch[run[d].next]
      /\ Item(d) \in Items
  BY <1>1, ItemIs DEF Item
<1>5. Item(d).listing \in AgencyListings /\ Direct(Item(d)) /\ Item(d).url = Offer[Item(d).listing].page
  BY <1>1, <1>3, <1>4 DEF Linking, Relinkable, IsAgencyPage
<1>6. ~Good(Item(d).listing)
  BY <1>5 DEF Direct, Good, AgencyPages
<1>7. /\ DOMAIN run'[d].batch = DOMAIN run[d].batch
      /\ \A n \in DOMAIN run[d].batch : n # run[d].next => run'[d].batch[n] = run[d].batch[n]
      /\ run'[d].batch[run[d].next] = [Item(d) EXCEPT !.url = u]
  BY <1>2, <1>4
<1>8. [Item(d) EXCEPT !.url = u].listing = Item(d).listing
  BY <1>4 DEF Items
<1>9. ASSUME NEW n \in DOMAIN run'[d].batch
      PROVE  Direct(run'[d].batch[n]) /\ run'[d].batch[n].listing \in AgencyListings
  <2>1. CASE n = run[d].next
    BY <1>5, <1>6, <1>7, <1>8, <2>1 DEF Direct
  <2>2. CASE n # run[d].next
    BY <1>1, <1>3, <1>7, <2>2 DEF Linking
  <2> QED
    BY <2>1, <2>2
<1>10. Linking(d)'
  BY <1>1, <1>3, <1>9 DEF Linking
<1> QED
  BY <1>1, <1>10, LinkKept

LEMMA FlushLinks ==
    ASSUME TypesInv, LinkInv, NEW d \in Runners, Flush(d) PROVE LinkInv'
<1>1. /\ Only(d) /\ run[d].at = "flush" /\ run'[d].at = "insert" /\ rows' = rows
      /\ run'[d].batch = run[d].batch
      /\ run'[d].pending \subseteq run[d].pending \union {Row(d)}
  BY FlushDoes
<1>2. Linking(d) /\ run[d].next \in DOMAIN run[d].batch
  BY <1>1, LinkParts, ItemIs
<1>3. Direct(Row(d)) /\ Row(d).status = "discovered"
  BY <1>2 DEF Linking, Direct, Row, Item
<1>4. Linking(d)'
  BY <1>1, <1>2, <1>3 DEF Linking
<1> QED
  BY <1>1, <1>4, LinkKept

LEMMA CommitLinks ==
    ASSUME TypesInv, LinkInv, NEW d \in Runners, Commit(d) PROVE LinkInv'
<1>1. /\ Only(d) /\ run'[d].at = "fetch" /\ run'[d].pending = {} /\ run'[d].batch = <<>>
      /\ rows' = rows \union run[d].pending
  BY CommitDoes
<1>2. \A r \in run[d].pending : Direct(r) /\ r.status = "discovered"
  BY DEF LinkInv
<1>3. (\A r \in rows : Direct(r))'
  BY <1>1, <1>2 DEF LinkInv, Direct
<1>4. AppliableAreKept'
  BY <1>1, <1>2 DEF LinkInv, AppliableAreKept
<1>5. ASSUME NEW e \in Runners PROVE Linking(e)'
  <2>1. CASE e = d
    BY <1>1, <2>1 DEF Linking
  <2>2. CASE e # d
    BY <1>1, <2>2, LinkParts DEF Only, Linking
  <2> QED
    BY <2>1, <2>2
<1> QED
  BY <1>3, <1>4, <1>5 DEF LinkInv, Linking

LEMMA PrefilterLinks ==
    ASSUME TypesInv, LinkInv, run_prefilter PROVE LinkInv'
<1>1. rows' = {Judged(r) : r \in rows} /\ run' = run /\ rows \subseteq Rows
  BY PrefilterDoes DEF TypesInv
<1>2. ASSUME NEW r \in rows
      PROVE  /\ Direct(Judged(r))
             /\ Judged(r).status = "skipped_low_fit" =>
                   \/ "engineering" \in Offer[r.listing].lacks
                   \/ ~Good(r.listing)
             /\ Judged(r).listing = r.listing
  <2>1. /\ Judged(r).listing = r.listing /\ Judged(r).url = r.url /\ Direct(r)
    BY <1>1, JudgedRow DEF LinkInv
  <2>2. CASE is_relevant(r)
    BY <2>1, <2>2 DEF Judged, LinkInv, AppliableAreKept, Good, Direct
  <2>3. CASE ~is_relevant(r)
    BY <2>1, <2>3 DEF is_relevant, Direct, Good
  <2> QED
    BY <2>2, <2>3
<1>3. (\A r \in rows : Direct(r))'
  BY <1>1, <1>2 DEF Direct
<1>4. AppliableAreKept'
  BY <1>1, <1>2 DEF AppliableAreKept, Good
<1> QED
  BY <1>1, <1>3, <1>4 DEF LinkInv, Direct

LEMMA LinkStep == TypesInv /\ LinkInv /\ [Next]_vars => LinkInv'
<1> SUFFICES ASSUME TypesInv, LinkInv, [Next]_vars PROVE LinkInv'
  OBVIOUS
<1>0. \A e \in Runners : Linking(e)
  BY LinkParts
<1>1. ASSUME NEW d \in Runners, Only(d), rows' = rows, run'[d].pending \subseteq run[d].pending,
             run'[d].batch = <<>> \/ run'[d].batch = run[d].batch,
             run'[d].at = "resolve" => run[d].at = "resolve"
      PROVE  LinkInv'
  <2>1. Linking(d)'
    BY <1>0, <1>1 DEF Linking
  <2> QED
    BY <1>1, <2>1, LinkKept
<1>2. ASSUME NEW d \in Runners, run'[d] = Rest(run[d].nth), Only(d), rows' = rows PROVE LinkInv'
  BY <1>1, <1>2, RestIs, RunIs
<1>3. ASSUME NEW d \in Runners, Begin(d) PROVE LinkInv'
  BY <1>1, <1>3, BeginDoes
<1>4. ASSUME NEW d \in Runners, LeaveLink(d) PROVE LinkInv'
  BY <1>1, <1>4, LeaveLinkDoes DEF Keeps
<1>5. ASSUME NEW d \in Runners, Look(d) PROVE LinkInv'
  BY <1>1, <1>5, LookDoes DEF Keeps
<1>6. ASSUME NEW d \in Runners, Locked(d) PROVE LinkInv'
  BY <1>2, <1>6, RestDoes DEF Locked
<1>7. ASSUME NEW d \in Runners, Return(d) PROVE LinkInv'
  BY <1>2, <1>7, RestDoes DEF Return
<1>8. ASSUME NEW d \in Runners, Crash(d) PROVE LinkInv'
  BY <1>2, <1>8, CrashDoes
<1>9. ASSUME Change PROVE LinkInv'
  <2>1. rows' = rows /\ \A e \in Runners : /\ run'[e].batch = run[e].batch /\ run'[e].at = run[e].at
                                           /\ run'[e].pending = run[e].pending
    BY <1>9, ChangeDoes DEF Keeps
  <2> QED
    BY <1>0, <2>1 DEF LinkInv, Linking, Direct, AppliableAreKept
<1>10. ASSUME UNCHANGED <<rows, run>> PROVE LinkInv'
  BY <1>10 DEF LinkInv, Direct, AppliableAreKept
<1>11. Tick => UNCHANGED <<rows, run>>
  BY DEF Tick
<1>12. UNCHANGED vars => UNCHANGED <<rows, run>>
  BY DEF vars
<1> QED
  BY <1>3, <1>4, <1>5, <1>6, <1>7, <1>8, <1>9, <1>10, <1>11, <1>12,
     FetchLinks, RelinkLinks, FlushLinks, CommitLinks, PrefilterLinks DEF Next, RunStep

LEMMA LinkInit == Init => LinkInv
BY DEF Init, LinkInv, Rest, AppliableAreKept

\* In every reachable state prefilter has dropped no job of engineering for its page whose
\* listing had an employer's link that can be applied through.
THEOREM AppliableAlwaysKept == Spec => []AppliableAreKept
<1>1. TypesInv /\ LinkInv /\ [Next]_vars => LinkInv'
  BY LinkStep
<1>2. Spec => []LinkInv
  BY <1>1, LinkInit, TypesAlways, PTL DEF Spec
<1>3. LinkInv => AppliableAreKept
  BY DEF LinkInv
<1> QED
  BY <1>2, <1>3, PTL

-----------------------------------------------------------------------------
(* What replaces a page was seen during the run *)

\* The part of SeenInv about a run.
Seeing(d) ==
    /\ Active(d) => open \subseteq run[d].saw
    /\ \A b \in Boards : run[d].resolver.boards[b] # NotAsked =>
           run[d].resolver.boards[b].postings \subseteq run[d].saw
    /\ \A n \in DOMAIN run[d].batch :
           Fetched(run[d].batch[n]) \/ run[d].batch[n].url \in run[d].saw

LEMMA SeenParts == SeenInv <=> \A d \in Runners : Seeing(d)
BY DEF SeenInv, Seeing

LEMMA SeenKept ==
    ASSUME SeenInv, NEW d \in Runners, Only(d), open' = open, Seeing(d)' PROVE SeenInv'
<1>1. ASSUME NEW e \in Runners PROVE Seeing(e)'
  <2>1. CASE e = d
    BY <2>1
  <2>2. CASE e # d
    BY <2>2, SeenParts DEF Only, Seeing, Active
  <2> QED
    BY <2>1, <2>2
<1> QED
  BY <1>1 DEF SeenInv, Seeing

LEMMA NothingSeen ==
    /\ \A b \in Boards : NewResolver.boards[b] = NotAsked
    /\ NewResolver.cache = NotLoaded
BY DEF NewResolver

LEMMA RelinkSees ==
    ASSUME TypesInv, SeenInv, NEW d \in Runners, Relink(d) PROVE SeenInv'
<1> DEFINE c == Offer[Item(d).listing].company
           r == run[d].resolver
           n == run[d].next
<1>1. /\ Only(d) /\ run[d].at = "resolve" /\ run'[d].saw = run[d].saw /\ open' = open
  BY RelinkDoes
<1>2. PICK res : /\ Grown(res.resolver, r, open, down) /\ Backing(res)
                 /\ run'[d].resolver = res.resolver
                 /\ run'[d].batch = [run[d].batch EXCEPT ![n].url = Url(Item(d), res)]
  BY RelinkDoes DEF Informed
<1>3. Seeing(d) /\ Active(d)
  BY <1>1, SeenParts DEF Active
<1>4. \A b \in Boards : Probe(b, open, down) \subseteq run[d].saw
  BY <1>3 DEF Probe, Seeing
<1>5. ASSUME NEW b \in Boards, res.resolver.boards[b] # NotAsked
      PROVE  res.resolver.boards[b].postings \subseteq run[d].saw
  <2>1. CASE res.resolver.boards[b] = r.boards[b]
    BY <1>3, <1>5, <2>1 DEF Seeing
  <2>2. CASE res.resolver.boards[b] = Answer(Probe(b, open, down))
    BY <1>4, <2>2 DEF Answer
  <2> QED
    BY <1>2, <2>1, <2>2 DEF Grown
<1>6. /\ n \in DOMAIN run[d].batch /\ Item(d) = run[d].batch[n] /\ Item(d) \in Items
  BY <1>1, ItemIs DEF Item
<1>7. res.match # {} => Url(Item(d), res) \in run[d].saw
  <2>1. res.match # {} => Url(Item(d), res) \in res.match
    BY DEF Url
  <2> QED
    BY <1>2, <1>5, <2>1 DEF Backing
<1>8. /\ DOMAIN run'[d].batch = DOMAIN run[d].batch
      /\ \A m \in DOMAIN run[d].batch : m # n => run'[d].batch[m] = run[d].batch[m]
      /\ run'[d].batch[n] = [Item(d) EXCEPT !.url = Url(Item(d), res)]
  BY <1>2, <1>6
<1>9. Fetched(run'[d].batch[n]) \/ run'[d].batch[n].url \in run[d].saw
  <2>1. CASE res.match = {}
    <3>1. run'[d].batch[n] = Item(d)
      BY <1>6, <1>8, <2>1 DEF Url, Items
    <3> QED
      BY <1>3, <1>6, <3>1 DEF Seeing
  <2>2. CASE res.match # {}
    BY <1>6, <1>7, <1>8, <2>2 DEF Items
  <2> QED
    BY <2>1, <2>2
<1>10. \A m \in DOMAIN run'[d].batch :
          Fetched(run'[d].batch[m]) \/ run'[d].batch[m].url \in run'[d].saw
  BY <1>1, <1>3, <1>8, <1>9 DEF Seeing
<1>11. Seeing(d)'
  BY <1>1, <1>2, <1>3, <1>5, <1>10 DEF Seeing, Fetched
<1> QED
  BY <1>1, <1>11, SeenKept

LEMMA SeenStep == TypesInv /\ SeenInv /\ [Next]_vars => SeenInv'
<1> SUFFICES ASSUME TypesInv, SeenInv, [Next]_vars PROVE SeenInv'
  OBVIOUS
<1>0. \A e \in Runners : Seeing(e)
  BY SeenParts
<1>1. ASSUME NEW d \in Runners, Only(d), open' = open, Active(d),
             run'[d].resolver = run[d].resolver, run'[d].saw = run[d].saw,
             \A n \in DOMAIN run'[d].batch :
                 Fetched(run'[d].batch[n]) \/ run'[d].batch = run[d].batch
      PROVE  SeenInv'
  <2>1. \A n \in DOMAIN run'[d].batch :
            Fetched(run'[d].batch[n]) \/ run'[d].batch[n].url \in run'[d].saw
    BY <1>0, <1>1 DEF Seeing
  <2>2. Seeing(d)'
    BY <1>0, <1>1, <2>1 DEF Seeing, Fetched
  <2> QED
    BY <1>1, <2>2, SeenKept
<1>2. ASSUME NEW d \in Runners, Only(d), open' = open, run'[d].resolver = NewResolver,
             run'[d].batch = <<>>, Active(d)' => open \subseteq run'[d].saw
      PROVE  SeenInv'
  <2>1. Seeing(d)'
    BY <1>2, NothingSeen DEF Seeing
  <2> QED
    BY <1>2, <2>1, SeenKept
<1>3. ASSUME NEW d \in Runners, run'[d] = Rest(run[d].nth), Only(d), open' = open PROVE SeenInv'
  BY <1>2, <1>3, RestIs, RunIs DEF Active
<1>4. ASSUME NEW d \in Runners, Begin(d) PROVE SeenInv'
  BY <1>2, <1>4, BeginDoes
<1>5. ASSUME NEW d \in Runners, Fetch(d) PROVE SeenInv'
  <2>1. \A n \in DOMAIN run'[d].batch : Fetched(run'[d].batch[n])
    BY <1>5, FetchDoes, FetchedItems
  <2> QED
    BY <1>1, <1>5, <2>1, FetchDoes DEF Active
<1>6. ASSUME NEW d \in Runners, LeaveLink(d) PROVE SeenInv'
  BY <1>1, <1>6, LeaveLinkDoes DEF Active
<1>7. ASSUME NEW d \in Runners, Look(d) PROVE SeenInv'
  BY <1>1, <1>7, LookDoes DEF Active
<1>8. ASSUME NEW d \in Runners, Flush(d) PROVE SeenInv'
  BY <1>1, <1>8, FlushDoes DEF Active
<1>9. ASSUME NEW d \in Runners, Commit(d) PROVE SeenInv'
  BY <1>1, <1>9, CommitDoes DEF Active
<1>10. ASSUME NEW d \in Runners, Locked(d) PROVE SeenInv'
  BY <1>3, <1>10, RestDoes DEF Locked
<1>11. ASSUME NEW d \in Runners, Return(d) PROVE SeenInv'
  BY <1>3, <1>11, RestDoes DEF Return
<1>12. ASSUME NEW d \in Runners, Crash(d) PROVE SeenInv'
  BY <1>3, <1>12, CrashDoes
<1>13. ASSUME Change PROVE SeenInv'
  <2>1. ASSUME NEW e \in Runners PROVE Seeing(e)'
    <3>1. /\ run'[e].at = run[e].at /\ run'[e].batch = run[e].batch
          /\ run'[e].resolver = run[e].resolver /\ run[e].saw \subseteq run'[e].saw
          /\ Active(e) => open' \subseteq run'[e].saw
      BY <1>13, ChangeDoes
    <3> QED
      BY <1>0, <3>1 DEF Seeing, Fetched, Active
  <2> QED
    BY <2>1 DEF SeenInv, Seeing
<1>14. ASSUME UNCHANGED <<run, open>> PROVE SeenInv'
  BY <1>14 DEF SeenInv, Fetched, Active
<1>15. run_prefilter \/ Tick \/ UNCHANGED vars => UNCHANGED <<run, open>>
  BY DEF run_prefilter, Tick, vars
<1> QED
  BY <1>4, <1>5, <1>6, <1>7, <1>8, <1>9, <1>10, <1>11, <1>12, <1>13, <1>14, <1>15,
     RelinkSees DEF Next, RunStep

LEMMA SeenInit == Init => SeenInv
BY NothingSeen DEF Init, SeenInv, Active, Rest

\* In every reachable state the URL a listing was relinked to is of a posting that was up
\* during the run (resolve.py: board contents are memoised for one run).
THEOREM RelinksAlwaysFresh == Spec => []RelinksAreFresh
<1>1. TypesInv /\ SeenInv /\ [Next]_vars => SeenInv'
  BY SeenStep
<1>2. Spec => []SeenInv
  BY <1>1, SeenInit, TypesAlways, PTL DEF Spec
<1>3. SeenInv => RelinksAreFresh
  BY DEF SeenInv, Fetched, RelinksAreFresh
<1> QED
  BY <1>2, <1>3, PTL

-----------------------------------------------------------------------------
(* Who is left without a link was asked *)

\* The part of AskedInv about a run.
Asking(d) ==
    /\ \A b \in Boards : run[d].resolver.boards[b] # NotAsked =>
           asked[b].ever /\ asked[b].day = now
    /\ \A c \in Companies : run[d].resolver.cache # NotLoaded =>
           Backed(run[d].resolver.cache[c], c)

LEMMA AskedParts ==
    AskedInv <=> /\ \A c \in Companies : Backed(file[c], c)
                 /\ \A d \in Runners : Asking(d)
                 /\ \A b \in Boards : asked[b].day <= now
BY DEF AskedInv, Asking

\* A board that is asked again is asked later.
AskedLater ==
    \A b \in Boards :
        /\ asked'[b].day \in Nat /\ asked'[b].day <= now
        /\ asked[b].ever => asked'[b].ever
        /\ asked[b].day <= asked'[b].day

LEMMA LaterBacked ==
    ASSUME TypesInv, AskedLater, NEW entry, entry.kind = "asked" => entry.day \in Nat,
           NEW c \in Companies, Backed(entry, c)
    PROVE  BackedBy(asked', entry, c)
<1> SUFFICES ASSUME entry.kind = "asked", NEW b \in ToSet(Candidates[c])
             PROVE  asked'[b].ever /\ asked'[b].day >= entry.day
  BY DEF BackedBy
<1>1. b \in Boards /\ entry.day \in Nat
  BY BoardsAre
<1>2. asked[b].ever /\ asked[b].day >= entry.day /\ asked[b].day \in Nat
  BY <1>1, Numbers DEF Backed, BackedBy, TypesInv
<1>3. asked'[b].ever /\ asked'[b].day \in Nat /\ asked[b].day <= asked'[b].day
  BY <1>1, <1>2 DEF AskedLater
<1> QED
  BY <1>1, <1>2, <1>3

LEMMA Ages ==
    ASSUME NEW today \in Nat, NEW day \in Nat, NEW earlier \in Nat, NEW ttl \in Nat,
           day >= earlier, today - earlier < ttl
    PROVE  today - day < ttl
OBVIOUS

\* What is known after relinking a listing of company c, with the resolver q afterwards.
Known(q, c) ==
    q.cache[c].kind = "confirmed"
    \/ \A b \in ToSet(Candidates[c]) : asked'[b].ever /\ now - asked'[b].day < TtlDays

LEMMA RelinkAsks ==
    ASSUME TypesInv, AskedInv, NEW d \in Runners, Relink(d),
           NEW q, q = run'[d].resolver, NEW c, c = Offer[Item(d).listing].company
    PROVE  /\ AskedLater /\ Known(q, c)
           /\ \A x \in Companies : BackedBy(asked', file'[x], x) /\ BackedBy(asked', q.cache[x], x)
           /\ \A b \in Boards : q.boards[b] # NotAsked => asked'[b].ever /\ asked'[b].day = now
<1> DEFINE r == run[d].resolver
           l == Loaded(r, file)
<1>1. /\ Only(d) /\ run[d].at = "resolve" /\ now' = now
  BY RelinkDoes
<1>2. /\ Informed(q, l, r, c, open, down, now)
      /\ file' = IF q.cache = l.cache THEN file ELSE q.cache
      /\ asked' = [b \in Boards |-> IF q.boards[b] # r.boards[b] THEN Today ELSE asked[b]]
  <2>1. PICK res \in Resolutions(r, Offer[Item(d).listing].company,
                                 Offer[Item(d).listing].title, file, open, down, now) :
          /\ Informed(res.resolver, l, r, Offer[Item(d).listing].company, open, down, now)
          /\ run'[d].resolver = res.resolver
          /\ file' = IF res.resolver.cache = l.cache THEN file ELSE res.resolver.cache
          /\ asked' = [b \in Boards |-> IF res.resolver.boards[b] # r.boards[b]
                                        THEN Today ELSE asked[b]]
    BY RelinkDoes
  <2>2. res.resolver = q
    BY <2>1
  <2> QED
    BY <2>1, <2>2
<1>3. c \in Companies /\ r \in Resolvers /\ file \in [Companies -> Entries]
      /\ now \in Nat /\ l.cache \in [Companies -> Entries]
      /\ l.cache = IF r.cache = NotLoaded THEN file ELSE r.cache
  <2>1. c \in Companies
    BY <1>1, ItemIs
  <2>2. r \in Resolvers /\ file \in [Companies -> Entries] /\ now \in Nat
    BY RunIs, Numbers DEF Discoveries, TypesInv
  <2> QED
    BY <2>1, <2>2, LoadedCache
<1>4. /\ q \in Resolvers /\ q.cache \in [Companies -> Entries]
      /\ Grown(q, r, open, down) /\ Settled(q, l, c, now)
      /\ \A x \in Companies \ {c} : q.cache[x] = l.cache[x]
  BY <1>2 DEF Informed
<1>5. \A b \in Boards : asked[b].day \in Nat /\ asked[b].day <= now
  BY Numbers DEF TypesInv, AskedInv
<1>6. \A b \in Boards : asked'[b] = Today \/ (asked'[b] = asked[b] /\ q.boards[b] = r.boards[b])
  BY <1>2
<1>7. Today.ever = TRUE /\ Today.day = now
  BY DEF Today
<1>8. \A b \in Boards : q.boards[b] # NotAsked => asked'[b].ever /\ asked'[b].day = now
  <2>1. \A b \in Boards : r.boards[b] # NotAsked => asked[b].ever /\ asked[b].day = now
    BY DEF AskedInv
  <2> QED
    BY <1>6, <1>7, <2>1
<1>9. \A x \in Companies : Backed(l.cache[x], x)
  <2>1. l.cache = file \/ (r.cache # NotLoaded /\ l.cache = r.cache)
    BY <1>3
  <2>2. \A x \in Companies : Backed(file[x], x) /\ (r.cache # NotLoaded => Backed(r.cache[x], x))
    BY AskedParts DEF Asking
  <2> QED
    BY <2>1, <2>2
<1> HIDE DEF l, r
<1>10. AskedLater
  <2>1. ASSUME NEW b \in Boards
        PROVE  /\ asked'[b].day \in Nat /\ asked'[b].day <= now /\ asked[b].day <= asked'[b].day
    <3>1. asked'[b].day = now \/ asked'[b].day = asked[b].day
      BY <1>6, <1>7
    <3>2. now <= now
      BY <1>3
    <3> QED
      BY <1>3, <1>5, <3>1, <3>2
  <2>2. \A b \in Boards : asked[b].ever => asked'[b].ever
    BY <1>6, <1>7
  <2> QED
    BY <2>1, <2>2 DEF AskedLater
<1>11. \A x \in Companies : l.cache[x].kind = "asked" => l.cache[x].day \in Nat
  BY <1>3, EntryKinds
<1>12. \A x \in Companies : BackedBy(asked', l.cache[x], x)
  BY <1>9, <1>10, <1>11, LaterBacked
<1>13. \A b \in ToSet(Candidates[c]) : b \in Boards
  BY <1>3, BoardsAre
<1>14. TtlDays \in Nat \ {0}
  BY ResolverAssumption
<1>15. Known(q, c) /\ BackedBy(asked', q.cache[c], c)
  <2>1. CASE q.cache[c].kind = "confirmed"
    BY <2>1 DEF Known, BackedBy
  <2>2. CASE q.cache[c] = l.cache[c] /\ Fresh(l.cache[c], now) /\ q.cache[c].kind # "confirmed"
    <3>1. /\ q.cache[c].kind = "asked" /\ now - q.cache[c].day < TtlDays
          /\ BackedBy(asked', q.cache[c], c) /\ q.cache[c].day \in Nat
      BY <1>3, <1>11, <1>12, <2>2 DEF Fresh
    <3>2. ASSUME NEW b \in ToSet(Candidates[c])
          PROVE  asked'[b].ever /\ now - asked'[b].day < TtlDays
      <4>1. asked'[b].ever /\ asked'[b].day >= q.cache[c].day
        BY <3>1 DEF BackedBy
      <4>2. asked'[b].day \in Nat
        BY <1>10, <1>13 DEF AskedLater
      <4>3. now - asked'[b].day < TtlDays
        BY <1>3, <1>14, <3>1, <4>1, <4>2, Ages
      <4> QED
        BY <4>1, <4>3
    <3> QED
      BY <3>1, <3>2 DEF Known
  <2>3. CASE /\ q.cache[c].kind = "asked" /\ q.cache[c].day = now
             /\ \A b \in ToSet(Candidates[c]) : q.boards[b] # NotAsked
    <3>1. \A b \in ToSet(Candidates[c]) : asked'[b].ever /\ asked'[b].day = now
      BY <1>8, <1>13, <2>3
    <3>2. now - now < TtlDays /\ now >= now
      BY <1>3, <1>14
    <3> QED
      BY <2>3, <3>1, <3>2 DEF Known, BackedBy
  <2> QED
    BY <1>4, <2>1, <2>2, <2>3 DEF Settled
<1>16. \A x \in Companies : BackedBy(asked', q.cache[x], x)
  BY <1>4, <1>12, <1>15
<1>17. \A x \in Companies : BackedBy(asked', file'[x], x)
  <2>1. \A x \in Companies : file[x].kind = "asked" => file[x].day \in Nat
    BY <1>3, EntryKinds
  <2>2. \A x \in Companies : BackedBy(asked', file[x], x)
    BY <1>10, <2>1, LaterBacked DEF AskedInv
  <2> QED
    BY <1>2, <1>16, <2>2
<1> QED
  BY <1>8, <1>10, <1>15, <1>16, <1>17

\* A step of d that asks no board.
LEMMA AskedKept ==
    ASSUME AskedInv, NEW d \in Runners, Only(d), asked' = asked, now' = now,
           \A c \in Companies : Backed(file'[c], c),
           run'[d].resolver = run[d].resolver \/ run'[d].resolver = NewResolver
    PROVE  AskedInv'
<1>1. ASSUME NEW e \in Runners PROVE Asking(e)'
  <2>1. run'[e].resolver = run[e].resolver \/ run'[e].resolver = NewResolver
    BY DEF Only
  <2>2. Asking(e)
    BY AskedParts
  <2> QED
    BY <2>1, <2>2, NothingSeen DEF Asking, Backed
<1>2. \A c \in Companies : Backed(file[c], c)'
  BY DEF Backed
<1>3. \A b \in Boards : asked'[b].day <= now'
  BY DEF AskedInv
<1> QED
  BY <1>1, <1>2, <1>3 DEF AskedInv, Asking

LEMMA RelinkAsked ==
    ASSUME TypesInv, AskedInv, NEW d \in Runners, Relink(d) PROVE AskedInv'
<1>1. Only(d) /\ now' = now
  BY RelinkDoes
<1>2. /\ AskedLater
      /\ \A x \in Companies : /\ BackedBy(asked', file'[x], x)
                              /\ BackedBy(asked', run'[d].resolver.cache[x], x)
      /\ \A b \in Boards : run'[d].resolver.boards[b] # NotAsked =>
             asked'[b].ever /\ asked'[b].day = now
  BY RelinkAsks
<1>3. ASSUME NEW e \in Runners \ {d} PROVE Asking(e)'
  <2>1. run'[e] = run[e] /\ Asking(e)
    BY <1>1, AskedParts DEF Only
  <2>2. ASSUME NEW b \in Boards, run[e].resolver.boards[b] # NotAsked
        PROVE  asked'[b].ever /\ asked'[b].day = now
    <3>1. asked[b].ever /\ asked[b].day = now
      BY <2>1, <2>2 DEF Asking
    <3>2. /\ asked'[b].ever /\ asked'[b].day <= now /\ now <= asked'[b].day
          /\ asked'[b].day \in Nat /\ now \in Nat
      BY <1>2, <3>1, Numbers DEF AskedLater, TypesInv
    <3> QED
      BY <3>2
  <2>3. ASSUME NEW x \in Companies, run[e].resolver.cache # NotLoaded
        PROVE  BackedBy(asked', run[e].resolver.cache[x], x)
    <3>1. run[e].resolver.cache[x] \in Entries
      BY <2>3, RunIs DEF Discoveries, Resolvers
    <3>2. Backed(run[e].resolver.cache[x], x)
      BY <2>1, <2>3 DEF Asking
    <3> QED
      BY <1>2, <3>1, <3>2, EntryKinds, LaterBacked
  <2> QED
    BY <1>1, <2>1, <2>2, <2>3 DEF Asking, Backed
<1>4. Asking(d)'
  BY <1>1, <1>2 DEF Asking, Backed
<1>5. \A b \in Boards : asked'[b].day <= now'
  BY <1>1, <1>2 DEF AskedLater
<1>6. \A x \in Companies : Backed(file[x], x)'
  BY <1>2 DEF Backed
<1>7. \A e \in Runners : Asking(e)'
  BY <1>3, <1>4
<1> QED
  BY <1>5, <1>6, <1>7 DEF AskedInv, Asking

\* A day passes only when no run goes on, and a run remembers no board when it is over.
LEMMA TickAsked ==
    ASSUME TypesInv, AskedInv, Tick PROVE AskedInv'
<1>1. /\ now' = now + 1 /\ UNCHANGED <<run, file, asked>>
      /\ \A e \in Runners : run[e].at = "idle"
  BY DEF Tick
<1>2. ASSUME NEW e \in Runners PROVE run[e].resolver = NewResolver
  <2>1. run[e] = Rest(run[e].nth) /\ run[e].nth \in 0..MaxRuns
    BY <1>1, RunIs DEF Fits
  <2> QED
    BY <2>1, RestIs
<1>3. \A b \in Boards : asked'[b].day <= now'
  <2>1. \A b \in Boards : asked[b].day <= now /\ asked[b].day \in Nat
    BY Numbers DEF AskedInv, TypesInv
  <2>2. now \in Nat
    BY Numbers DEF TypesInv
  <2> QED
    BY <1>1, <2>1, <2>2
<1>4. \A c \in Companies : Backed(file[c], c)'
  BY <1>1 DEF AskedInv, Backed
<1>5. \A e \in Runners : Asking(e)'
  BY <1>1, <1>2, NothingSeen DEF Asking
<1> QED
  BY <1>3, <1>4, <1>5 DEF AskedInv, Asking

LEMMA AskedStep == TypesInv /\ AskedInv /\ [Next]_vars => AskedInv'
<1> SUFFICES ASSUME TypesInv, AskedInv, [Next]_vars PROVE AskedInv'
  OBVIOUS
<1>0. \A c \in Companies : Backed(file[c], c)
  BY AskedParts
<1>1. ASSUME NEW d \in Runners, Only(d), UNCHANGED <<asked, now, file>>,
             run'[d].resolver = run[d].resolver \/ run'[d].resolver = NewResolver
      PROVE  AskedInv'
  BY <1>0, <1>1, AskedKept
<1>2. ASSUME NEW d \in Runners, Only(d), run'[d] = Rest(run[d].nth), UNCHANGED <<asked, now>>,
             file' = file \/ file' = [c \in Companies |-> NoEntry]
      PROVE  AskedInv'
  <2>1. run'[d].resolver = NewResolver
    BY <1>2, RestIs, RunIs
  <2>2. \A c \in Companies : Backed(file'[c], c)
    BY <1>0, <1>2 DEF Backed, BackedBy, NoEntry
  <2> QED
    BY <1>2, <2>1, <2>2, AskedKept
<1>3. ASSUME NEW d \in Runners, Begin(d) PROVE AskedInv'
  BY <1>1, <1>3, BeginDoes
<1>4. ASSUME NEW d \in Runners, Fetch(d) PROVE AskedInv'
  BY <1>1, <1>4, FetchDoes
<1>5. ASSUME NEW d \in Runners, LeaveLink(d) PROVE AskedInv'
  BY <1>1, <1>5, LeaveLinkDoes
<1>6. ASSUME NEW d \in Runners, Look(d) PROVE AskedInv'
  BY <1>1, <1>6, LookDoes
<1>7. ASSUME NEW d \in Runners, Flush(d) PROVE AskedInv'
  BY <1>1, <1>7, FlushDoes
<1>8. ASSUME NEW d \in Runners, Commit(d) PROVE AskedInv'
  BY <1>1, <1>8, CommitDoes
<1>9. ASSUME NEW d \in Runners, Locked(d) PROVE AskedInv'
  BY <1>2, <1>9, RestDoes DEF Locked
<1>10. ASSUME NEW d \in Runners, Return(d) PROVE AskedInv'
  BY <1>2, <1>10, RestDoes DEF Return
<1>11. ASSUME NEW d \in Runners, Crash(d) PROVE AskedInv'
  BY <1>2, <1>11, CrashDoes
<1>12. ASSUME UNCHANGED <<file, now, asked>>, \A e \in Runners : run'[e].resolver = run[e].resolver
       PROVE  AskedInv'
  BY <1>12 DEF AskedInv, Backed
<1>13. run_prefilter \/ UNCHANGED vars =>
           UNCHANGED <<file, now, asked>> /\ \A e \in Runners : run'[e].resolver = run[e].resolver
  BY DEF run_prefilter, vars
<1>14. Change => UNCHANGED <<file, now, asked>> /\ \A e \in Runners : run'[e].resolver = run[e].resolver
  BY ChangeDoes
<1> QED
  BY <1>3, <1>4, <1>5, <1>6, <1>7, <1>8, <1>9, <1>10, <1>11, <1>12, <1>13, <1>14,
     RelinkAsked, TickAsked DEF Next, RunStep

LEMMA AskedInit == Init => AskedInv
<1> SUFFICES ASSUME Init PROVE AskedInv
  OBVIOUS
<1>1. \A b \in Boards : asked[b].day <= now
  BY DEF Init, Never
<1>2. \A c \in Companies : Backed(file[c], c)
  BY DEF Init, NoEntry, Backed, BackedBy
<1>3. \A e \in Runners : run[e].resolver = NewResolver
  BY DEF Init, Rest
<1> QED
  BY <1>1, <1>2, <1>3, NothingSeen DEF AskedInv

\* No step leaves a listing with the agency's page unless the company's board is known, or
\* each of its boards was asked within the days a negative answer stands for (resolve.py).
THEOREM WhoIsUnlinkedWasAsked == Spec => UnlinkedWereAsked
<1> DEFINE A == \A d \in Runners :
                  Relink(d) /\ run'[d].batch = run[d].batch =>
                      LET c == Offer[Item(d).listing].company IN
                      \/ run'[d].resolver.cache[c].kind = "confirmed"
                      \/ \A b \in ToSet(Candidates[c]) :
                            asked'[b].ever /\ now - asked'[b].day < TtlDays
<1>1. TypesInv /\ AskedInv /\ [Next]_vars => AskedInv'
  BY AskedStep
<1>2. Spec => []AskedInv
  BY <1>1, AskedInit, TypesAlways, PTL DEF Spec
<1>3. TypesInv /\ AskedInv => A
  <2> SUFFICES ASSUME TypesInv, AskedInv, NEW d \in Runners, Relink(d),
                      NEW c, c = Offer[Item(d).listing].company
               PROVE  Known(run'[d].resolver, c)
    BY DEF Known
  <2> QED
    BY RelinkAsks
<1>4. TypesInv /\ AskedInv /\ [Next]_vars => [A]_vars
  BY <1>3
<1> HIDE DEF A
<1>5. Spec => [][A]_vars
  BY <1>2, <1>4, TypesAlways, PTL DEF Spec
<1> QED
  BY <1>5 DEF A, UnlinkedWereAsked
=============================================================================
