-------------------------------- MODULE Engine --------------------------------
(***************************************************************************)
(* What internal/cache answers a request with, as operators on one loaded  *)
(* dataset: the popularity-sorted list (browse), the in-memory engine      *)
(* (searchEngine), the search index with its hit cache (searchIndex), and  *)
(* the sidebar ranked for each.  Locks, refreshes and the filling of the   *)
(* hit cache are module QueryPath's.                                       *)
(*                                                                         *)
(* An asset is a record [id, pop, title, amount, cur, recency, first,      *)
(* tags, author, words]: title and words stand for the text by its rank    *)
(* and by the terms the index keeps of it, cur is "none" without a price.  *)
(* A dataset db is [data, known, rates, docs, docRates, priced]: the list  *)
(* in popularity order with the tag universe and the rates loaded beside   *)
(* it, and the documents of the index in the order they were indexed, the  *)
(* rates they were priced with, and whether the index is new enough to     *)
(* have the prices at all.  The tag universe is tags.json, a file of its   *)
(* own that a crawl rewrites when it begins: it may name tags no listed    *)
(* asset carries, or lack some, and is empty when the file is missing.     *)
(***************************************************************************)
EXTENDS Lists

CONSTANTS
    Slugs,          \* the tag slugs, a range of numbers in slug order
    PageSize,       \* assets per page
    HitCacheDepth,  \* pages of hits in a hit-cache entry (10 in the code)
    MaxFacetTags,   \* rows of the sidebar (200 in the code)
    MaxInt,         \* the largest int64, scaled down
    Unranked,       \* models.unranked
    UnknownPrice    \* models.UnknownPrice

ASSUME EngineConstants ==
    /\ IsFiniteSet(Slugs) /\ Slugs = 1..Cardinality(Slugs)
    /\ {PageSize, HitCacheDepth, MaxFacetTags, MaxInt, Unranked, UnknownPrice} \subseteq Nat \ {0}
    /\ HitCacheDepth * PageSize <= MaxInt

None == "none"     \* no author, no ?like=, no price
NoQuery == [words |-> {}, quoted |-> FALSE]

Ceiling == [p \in {"under-5", "under-20"} |-> IF p = "under-5" THEN 5 ELSE 20]
-----------------------------------------------------------------------------
(* pkg/models.                                                             *)

Asset == [id : STRING \ {None}, pop : Nat, title : Nat, amount : Nat, cur : STRING, recency : Nat,
          first : Nat, tags : SUBSET Slugs, author : STRING, words : SUBSET STRING]

Free(a) == a.cur = None

PriceUSD(a, rates) ==
    IF Free(a) THEN 0
    ELSE IF a.cur \in DOMAIN rates THEN a.amount * rates[a.cur] ELSE UnknownPrice

RecencyRank(a) == IF a.recency = 0 THEN Unranked ELSE a.recency
-----------------------------------------------------------------------------
(* What doRefresh derives from the list.                                   *)

\* The stable sort by popularity: smaller first, else as assets.json has it.
Loaded(list) ==
    LET order == OrderBy([i \in DOMAIN list |-> list[i].pop])
    IN  [k \in DOMAIN list |-> list[order[k]]]

Find1(data, id) == {i \in DOMAIN data : data[i].id = id}     \* dataMap
HasRecency(db) == \E i \in DOMAIN db.data : db.data[i].recency > 0
HasPriceBands(db) == db.priced /\ db.docs # <<>>     \* indexHasPriceUSD

CountOf(list, t) == Cardinality({i \in DOMAIN list : t \in list[i].tags})
Counts(list) == [t \in Slugs |-> CountOf(list, t)]

\* The head of some tags in some order.
Rows(tags, order, count) ==
    LET ranked == Arranged(tags, order)
    IN  [k \in 1..Min({Cardinality(tags), MaxFacetTags}) |->
            [slug |-> ranked[k], count |-> count[ranked[k]]]]

\* Count descending, then slug.
CountOrder(count) ==
    {p \in Slugs \X Slugs : \/ count[p[1]] > count[p[2]]
                            \/ count[p[1]] = count[p[2]] /\ p[1] <= p[2]}
TopTags(count) == Rows({t \in Slugs : count[t] > 0}, CountOrder(count), count)

TagCounts(db) == TopTags(Counts(db.data))
-----------------------------------------------------------------------------
(* SearchOptions.                                                          *)

ResolvedSort(o) ==
    IF o.sort \in {"popular", "title", "price", "recent", "new"} THEN o.sort
    ELSE IF o.query = NoQuery THEN "popular" ELSE "relevance"

Filtered(o) ==
    \/ o.query # NoQuery \/ o.tags # {} \/ o.not # {} \/ o.price # None
    \/ o.author # None \/ o.minFirst > 0 \/ o.like # None

\* int64 arithmetic.
Wrap(x) == ((x + MaxInt + 1) % (2 * MaxInt + 2)) - (MaxInt + 1)

Start(page) == Wrap((page - 1) * PageSize)

\* s[start:end], both guards of the code against a wrapped bound included.
Slice(s, start, size) ==
    LET end == Wrap(start + size)
    IN  IF start >= Len(s) THEN <<>>
        ELSE SubSeq(s, start + 1, IF end < start \/ end > Len(s) THEN Len(s) ELSE end)

Empty == [assets |-> <<>>, total |-> 0, tags |-> <<>>, matched |-> "all"]
-----------------------------------------------------------------------------
(* The sidebar of a narrowed search.                                       *)

MinFacetCount(total) ==
    Max({1, Min({total - 1, Max({3, (total + 99) \div 100})})})

\* How often a tag is carried, never fewer than the results that carry it.
InCatalog(db, count) == [t \in Slugs |-> Max({CountOf(db.data, t), count[t]})]

\* By how over-represented a tag is, compared by cross products; then by count,
\* then by slug.
LiftOrder(count, cat) ==
    {p \in Slugs \X Slugs :
        LET left == count[p[1]] * cat[p[2]]
            right == count[p[2]] * cat[p[1]]
        IN  \/ left > right
            \/ left = right /\ count[p[1]] > count[p[2]]
            \/ left = right /\ count[p[1]] = count[p[2]] /\ p[1] <= p[2]}

\* Mutant: a tag every result carries is offered too.
OfferableWithFullTags(count, applied, total) ==
    {t \in Slugs : count[t] >= MinFacetCount(total) /\ t \notin applied}

Offerable(count, applied, total) ==
    {t \in Slugs : count[t] < total /\ count[t] >= MinFacetCount(total) /\ t \notin applied}

RankLift(db, count, applied, total) ==
    Rows(Offerable(count, applied, total), LiftOrder(count, InCatalog(db, count)), count)
-----------------------------------------------------------------------------
(* The in-memory engine.                                                   *)

\* The key of an ordering over one asset; popularity is the list's own.
SortKey(sort, a, usd) ==
    CASE sort = "title"  -> a.title
      [] sort = "price"  -> usd
      [] sort = "recent" -> RecencyRank(a)
      [] sort = "new"    -> -a.first
      [] OTHER           -> 0

\* The precomputed orderings: by key, then by position.
EngineOrder(db, sort) ==
    LET key == [i \in DOMAIN db.data |->
                   SortKey(sort, db.data[i], PriceUSD(db.data[i], db.rates))]
    IN  OrderBy(key)

LikeTags(db, o) == UNION {db.data[i].tags : i \in Find1(db.data, o.like)}

\* filterFor, with tags interned as positions in the list's vocabulary.
EngineFilter(db, o) ==
    LET vocabulary == UNION {db.data[i].tags : i \in DOMAIN db.data}
        authors == {db.data[i].author : i \in DOMAIN db.data}
    IN  [none |-> \/ ~(o.tags \subseteq vocabulary)
                  \/ o.author # None /\ o.author \notin authors
                  \/ o.like # None /\ LikeTags(db, o) = {},
         req |-> o.tags \cap vocabulary,
         excl |-> o.not \cap vocabulary,
         hasAny |-> o.like # None,
         any |-> LikeTags(db, o),
         skip |-> Find1(db.data, o.like),
         author |-> o.author,
         price |-> o.price,
         minFirst |-> o.minFirst]

\* Nothing but MinFirstSeen narrows the catalog.
Pure(f) == f.req = {} /\ f.excl = {} /\ ~f.hasAny /\ f.author = None /\ f.price = None

EngineMatches(db, f, i) ==
    LET a == db.data[i]
        usd == PriceUSD(a, db.rates)
    IN  /\ i \notin f.skip
        /\ f.minFirst > 0 => a.first >= f.minFirst
        /\ f.author # None => a.author = f.author
        /\ f.price = "free" => Free(a)
        /\ f.price = "paid" => ~Free(a)
        /\ f.price \in DOMAIN Ceiling => usd > 0 /\ usd < Ceiling[f.price]
        /\ f.req \subseteq a.tags
        /\ f.hasAny => f.any \cap a.tags # {}
        /\ f.excl \cap a.tags = {}

\* Mutant: a first-seen bound is not taken for a filter.
EverythingHoweverOld(o, f) == Pure(f) /\ ~(o.facets = "wanted" /\ Filtered(o))

Everything(o, f) == Pure(f) /\ o.minFirst = 0 /\ ~(o.facets = "wanted" /\ Filtered(o))

NewestOnly(o, f) == Pure(f) /\ o.minFirst > 0 /\ ResolvedSort(o) = "new" /\ o.facets # "wanted"

\* The positions of the matches in order, by whichever of the shortcuts of
\* searchEngine applies: nothing can match, everything does, a prefix of the
\* newest-first ordering (found by binary search), or the pass over all assets.
EngineHits(db, o, f, order) ==
    CASE f.none -> <<>>
      [] ~f.none /\ Everything(o, f) -> order
      [] ~f.none /\ NewestOnly(o, f) ->
            LET old == {k \in DOMAIN order : db.data[order[k]].first < o.minFirst}
            IN  SubSeq(order, 1, Min(old \cup {Len(order) + 1}) - 1)
      [] OTHER -> Kept(order, {i \in DOMAIN db.data : EngineMatches(db, f, i)})

PageLimit(o) == IF o.limit > 0 THEN o.limit ELSE PageSize

Ids(list) == [k \in DOMAIN list |-> list[k].id]

\* The ?like= source is not there.
Unlike(db, o) == o.like # None /\ Find1(db.data, o.like) = {}

SearchEngine(db, o) ==
    LET f == EngineFilter(db, o)
        hits == EngineHits(db, o, f, EngineOrder(db, ResolvedSort(o)))
        found == [k \in DOMAIN hits |-> db.data[hits[k]]]
    IN  IF Unlike(db, o) \/ Start(o.page) < 0
          THEN Empty
          ELSE [assets |-> Slice(Ids(found), Start(o.page), PageLimit(o)),
                total |-> Len(hits),
                tags |-> CASE o.facets # "wanted" -> <<>>
                           [] o.facets = "wanted" /\ Filtered(o) ->
                                 RankLift(db, Counts(found), o.tags, Len(hits))
                           [] OTHER -> TagCounts(db),
                matched |-> "all"]
-----------------------------------------------------------------------------
(* The search index.  bleve finds the documents every conjunct admits.     *)

PriceQuery(price, a, usd) ==
    CASE price \in {"free", "paid"}  -> Free(a) <=> price = "free"
      [] price \in DOMAIN Ceiling    -> usd > 0 /\ usd < Ceiling[price]
      [] OTHER                       -> TRUE

\* textQuery and phraseQuery: all words, or any of them; a phrase as a whole.
TextMatches(query, a, mode) ==
    \/ query.words \subseteq a.words
    \/ mode = "any" /\ ~query.quoted /\ query.words \cap a.words # {}

IndexMatches(o, like, a, usd, mode) ==
    /\ TextMatches(o.query, a, mode)
    /\ \A t \in o.tags : t \in a.tags
    /\ o.author # None => a.author = o.author
    /\ PriceQuery(o.price, a, usd)
    /\ o.minFirst > 0 => a.first >= o.minFirst
    /\ o.like # None => \E t \in like : t \in a.tags
    /\ \A t \in o.not : t \notin a.tags
    /\ o.like # None => a.id # o.like

Score(o, a) == Cardinality(o.query.words \cap a.words)

\* The price a document was indexed with.
DocUSD(db, i) == IF db.priced THEN PriceUSD(db.docs[i], db.docRates) ELSE UnknownPrice

\* sortOrder's fields, ending in InvPopularity, then the order of indexing.
IndexKey(db, o, i) ==
    CASE ResolvedSort(o) = "popular"   -> db.docs[i].pop
      [] ResolvedSort(o) = "relevance" -> -Score(o, db.docs[i])
      [] OTHER -> SortKey(ResolvedSort(o), db.docs[i], DocUSD(db, i))

IndexOrder(db, o) ==
    LET key == [i \in DOMAIN db.docs |-> IndexKey(db, o, i)]
    IN  {p \in (DOMAIN key) \X (DOMAIN key) :
            \/ key[p[1]] < key[p[2]]
            \/ key[p[1]] = key[p[2]] /\ db.docs[p[1]].pop < db.docs[p[2]].pop
            \/ key[p[1]] = key[p[2]] /\ db.docs[p[1]].pop = db.docs[p[2]].pop /\ p[1] <= p[2]}

MatchingDocs(db, o, mode) ==
    {i \in DOMAIN db.docs : IndexMatches(o, LikeTags(db, o), db.docs[i], DocUSD(db, i), mode)}

\* Hits [from, from + size), each mapped to its asset; one without is dropped.
RunQuery(db, o, from, size, facets, mode) ==
    LET hits == Arranged(MatchingDocs(db, o, mode), IndexOrder(db, o))
        found == [k \in DOMAIN hits |-> db.docs[hits[k]]]
    IN  [assets |-> Kept(Slice(Ids(found), from, size), ToSet(Ids(db.data))),
         total |-> Len(hits),
         tags |-> CASE facets # "wanted" -> <<>>
                    [] facets = "wanted" /\ Filtered(o) ->
                          RankLift(db, Counts(found), o.tags, Len(hits))
                    [] OTHER -> TopTags(Counts(found)),
         matched |-> IF hits = <<>> THEN "all" ELSE mode]

CanFallBack(o) == ~o.query.quoted /\ Cardinality(o.query.words) >= 2

\* All words first; any word when that finds nothing at all.
Mode(db, o) == IF MatchingDocs(db, o, "all") = {} /\ CanFallBack(o) THEN "any" ELSE "all"
QueryIndex(db, o, from, size, facets) == RunQuery(db, o, from, size, facets, Mode(db, o))

HitCacheable(o) == o.query # NoQuery /\ o.limit = 0

\* Mutant: an entry is used for any page that starts within it.
StartsInHitCache(o) == HitCacheable(o) /\ Start(o.page) <= HitCacheDepth * PageSize

\* The page lies within an entry, which holds the sidebar too.
InHitCache(o) == HitCacheable(o) /\ Start(o.page) + PageLimit(o) <= HitCacheDepth * PageSize

\* searchIndex without its hit cache.
SearchUncached(db, o) ==
    IF Unlike(db, o) \/ Start(o.page) < 0 THEN Empty
    ELSE QueryIndex(db, o, Start(o.page), PageLimit(o), o.facets)

\* searchIndex: a page cut from the hit cache's entry where it reaches, else
\* asked for directly.
SearchIndex(db, o) ==
    IF InHitCache(o) /\ ~Unlike(db, o) /\ Start(o.page) >= 0
      THEN [QueryIndex(db, o, 0, HitCacheDepth * PageSize, "wanted") EXCEPT
              !.assets = Slice(@, Start(o.page), PageLimit(o)),
              !.tags = IF o.facets = "wanted" THEN @ ELSE <<>>]
      ELSE SearchUncached(db, o)
-----------------------------------------------------------------------------
(* Find.                                                                   *)

Browse(db, page) ==
    [assets |-> IF Start(page) < 0 THEN <<>> ELSE Slice(Ids(db.data), Start(page), PageSize),
     total |-> Len(db.data), tags |-> TagCounts(db), matched |-> "all"]

\* The orderings and price bands the dataset cannot serve are dropped.
Servable(db, o) ==
    [o EXCEPT
        !.sort = IF @ = "recent" /\ ~HasRecency(db) THEN "popular" ELSE @,
        !.price = IF @ \in DOMAIN Ceiling /\ ~HasPriceBands(db) THEN None ELSE @]

Find(db, o) ==
    LET s == Servable(db, o)
    IN  IF ~Filtered(s) /\ ResolvedSort(s) = "popular" THEN Browse(db, s.page)
        ELSE IF s.query = NoQuery THEN SearchEngine(db, s)
        ELSE SearchIndex(db, s)
==============================================================================
