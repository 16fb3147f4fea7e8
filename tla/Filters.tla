------------------------------- MODULE Filters -------------------------------
(***************************************************************************)
(* The state of the search controls and the addresses that carry it:       *)
(* templates.Filters with its With* methods, parseFilterValues, the        *)
(* canonical redirect of HandleIndex, the links of a result page, and what *)
(* the access log counts as a search.                                      *)
(*                                                                         *)
(* An address is a record of raw parameter values, Junk standing for any   *)
(* value the parser drops.  Filters are the same record after parsing,     *)
(* without path and page, and with tags and not sorted.  alltags, which    *)
(* changes no result, is left out, and so is the clamping of long text.    *)
(***************************************************************************)
EXTENDS Engine

CONSTANTS
    MaxTags, MaxNotTags,  \* how many tags may be required, and excluded
    MaxPage,              \* the largest ?page= that is not refused
    Prices                \* the values of ?price= the controls offer

ASSUME FilterConstants ==
    /\ {MaxTags, MaxNotTags, MaxPage} \subseteq Nat \ {0}
    /\ MaxPage * PageSize <= MaxInt
    /\ Prices \subseteq {"free", "paid", "under-5", "under-20"}

Junk == 0          \* among tag values
Default == ""      \* an absent ?sort=, ?cur=

NoFilters == [query |-> NoQuery, tags |-> <<>>, not |-> <<>>, author |-> None,
              price |-> None, sort |-> Default, like |-> None, cur |-> Default]
-----------------------------------------------------------------------------
(* The With* methods.                                                      *)

AtTagLimit(f) == Len(f.tags) >= MaxTags
AtNotTagLimit(f) == Len(f.not) >= MaxNotTags

Without(list, t) == Kept(list, ToSet(list) \ {t})

\* Before the first larger tag.
InsertSorted(list, t) ==
    LET k == Min({i \in DOMAIN list : t < list[i]} \cup {Len(list) + 1})
    IN  SubSeq(list, 1, k - 1) \o <<t>> \o SubSeq(list, k, Len(list))

WithTag(f, t) ==
    IF Contains(f.tags, t) \/ AtTagLimit(f) THEN f
    ELSE [f EXCEPT !.tags = InsertSorted(@, t), !.not = Without(@, t)]

WithNotTag(f, t) ==
    IF Contains(f.not, t) \/ AtNotTagLimit(f) THEN f
    ELSE [f EXCEPT !.not = InsertSorted(@, t), !.tags = Without(@, t)]

WithoutTag(f, t) == [f EXCEPT !.tags = Without(@, t)]
WithoutNotTag(f, t) == [f EXCEPT !.not = Without(@, t)]
ToggleTag(f, t) == IF Contains(f.tags, t) THEN WithoutTag(f, t) ELSE WithTag(f, t)

\* The author, the price and the similar-to control: a second click clears.
Toggled(old, new) == IF old = new THEN None ELSE new
WithAuthor(f, a) == [f EXCEPT !.author = Toggled(@, a)]
WithLike(f, id) == [f EXCEPT !.like = Toggled(@, id)]
WithPrice(f, p) == [f EXCEPT !.price = Toggled(@, p)]
WithSort(f, s) == [f EXCEPT !.sort = s]
Cleared(f) == [NoFilters EXCEPT !.query = f.query, !.sort = f.sort, !.cur = f.cur]
-----------------------------------------------------------------------------
(* Addresses.                                                              *)

DefaultSort(f) == IF f.query = NoQuery THEN "popular" ELSE "relevance"
SortInForce(f) == IF f.sort = Default THEN DefaultSort(f) ELSE f.sort

Address(path, f, page) ==
    [path |-> path, page |-> page, query |-> f.query, tags |-> f.tags, not |-> f.not,
     author |-> f.author, price |-> f.price, sort |-> f.sort, like |-> f.like, cur |-> f.cur]

\* Mutant: popular taken for the default even where relevance is.
PageURLDropsPopular(f, page) ==
    Address("/", [f EXCEPT !.sort = IF @ = "popular" THEN Default ELSE @], page)

\* Values, in PageURL's form: an ordering the server would pick is left out.
PageURL(f, page) ==
    Address("/", [f EXCEPT !.sort = IF @ = DefaultSort(f) THEN Default ELSE @], page)

ShareURL(f) == PageURL(f, 1)
Bare(f) == ShareURL(f) = ShareURL(NoFilters)
TagURL(t, page) == Address("/tag", [NoFilters EXCEPT !.tags = <<t>>], page)

Currency(cur, rates) == IF cur \in DOMAIN rates THEN cur ELSE Default

\* The tags read from a list of raw values until there are as many as allowed.
Taken(list, limit) ==
    {list[i] : i \in {j \in DOMAIN list :
        list[j] \in Slugs /\ Cardinality({list[k] : k \in 1..j - 1} \cap Slugs) < limit}}

Sorts == {"relevance", "popular", "title", "price", "recent"}
PriceFilters == {"free", "paid", "under-5", "under-20"}

\* Relevance means nothing without a query.
KnownSort(sort, query) ==
    IF sort \in Sorts /\ (sort = "relevance" => query # NoQuery) THEN sort ELSE Default

\* parseFilterValues.  The exclusions are applied after the tags and stand where
\* an address names a tag as both; values outside an enumeration are dropped.
Parse(u, rates) ==
    LET excluded == Taken(u.not, MaxNotTags)
    IN  [query |-> u.query,
         tags |-> Ascending(Taken(u.tags, MaxTags) \ excluded),
         not |-> Ascending(excluded),
         author |-> u.author,
         price |-> IF u.price \in PriceFilters THEN u.price ELSE None,
         sort |-> KnownSort(u.sort, u.query),
         like |-> u.like,
         cur |-> Currency(u.cur, rates)]

\* Mutant: any page number that fits the word.
AnyPage(u) == u.page >= 1

\* pageParam: a page that is not a number in range is refused.
PageOK(u) == u.page >= 1 /\ u.page <= MaxPage

\* Whether a tag has a page is up to the tag universe, not to the list.
HasTag(db, t) == t \in db.known

\* HandleIndex and HandleTag: what an address is answered with.
Canonical(db, u) ==
    IF u.path = "/tag" THEN TagURL(u.tags[1], u.page) ELSE PageURL(Parse(u, db.rates), u.page)

Serves(db, u) ==
    /\ PageOK(u)
    /\ Canonical(db, u) = u
    /\ u.path = "/tag" => HasTag(db, u.tags[1])

\* A request the full page makes of the cache, and the one of /results for a
\* later page, which leaves the sidebar out.
Options(f, page, facets) ==
    [query |-> f.query, tags |-> ToSet(f.tags), not |-> ToSet(f.not), author |-> f.author,
     price |-> f.price, sort |-> f.sort, like |-> f.like, minFirst |-> 0, limit |-> 0,
     facets |-> facets, page |-> page]

\* HandleFeed: the filters' arrivals, newest first; HandleNew with none.
FeedOptions(f, limit) ==
    [Options(f, 1, "omitted") EXCEPT !.sort = "new", !.minFirst = 1, !.limit = limit]

HasMore(page, total) == page * PageSize < total
-----------------------------------------------------------------------------
(* The links of a result page, by the control they belong to.              *)

SortLinks(db, f) ==
    {WithSort(f, s) : s \in {"popular", "price", "title"}
                            \cup (IF f.query # NoQuery THEN {"relevance"} ELSE {})
                            \cup (IF HasRecency(db) THEN {"recent"} ELSE {})}

\* What the currency's form submits: the filters as they are, an ordering that
\* PageURL would leave out included, and no page.
CurrencyForm(db, f) == {Address("/", [f EXCEPT !.cur = c], 1) : c \in {Default} \cup DOMAIN db.rates}

\* Where sort and currency lead: the same results shown differently.  A form
\* takes the visitor to the address of the filters its fields are read as, be it
\* that HandleResults pushes it or that HandleIndex redirects to it.
DisplayAddresses(db, f) ==
    {ShareURL(g) : g \in SortLinks(db, f)}
    \cup {ShareURL(Parse(u, db.rates)) : u \in CurrencyForm(db, f)}

Offered(r) == {r.tags[k] : k \in DOMAIN r.tags}

Narrowed(f) ==
    f.tags # <<>> \/ f.not # <<>> \/ f.price # None \/ f.author # None \/ f.like # None

\* What the chips remove.
Chips(db, f) ==
    {WithoutTag(f, t) : t \in ToSet(f.tags)}
    \cup {WithoutNotTag(f, t) : t \in ToSet(f.not)}
    \cup (IF f.author # None THEN {WithAuthor(f, f.author)} ELSE {})
    \cup (IF f.price # None THEN {WithPrice(f, f.price)} ELSE {})
    \cup (IF Find1(db.data, f.like) # {} THEN {WithLike(f, f.like)} ELSE {})
    \cup (IF Narrowed(f) THEN {Cleared(f)} ELSE {})

PriceControl(db, f) ==
    {WithPrice(f, p) : p \in {q \in Prices : q \in DOMAIN Ceiling => HasPriceBands(db)}}

TagSidebar(f, r) ==
    (IF AtTagLimit(f) THEN {} ELSE {WithTag(f, row.slug) : row \in Offered(r)})
    \cup (IF AtNotTagLimit(f) THEN {} ELSE {WithNotTag(f, row.slug) : row \in Offered(r)})

\* A card links to its author, to what is like it, and to each of its tags.
AssetCard(f, a) ==
    {WithLike(f, a.id)}
    \cup (IF a.author # None THEN {WithAuthor(f, a.author)} ELSE {})
    \cup {ToggleTag(f, t) : t \in {x \in a.tags : Contains(f.tags, x) \/ ~AtTagLimit(f)}}

FilterLinks(db, f, r) ==
    Chips(db, f) \cup PriceControl(db, f) \cup TagSidebar(f, r)
    \cup UNION {AssetCard(f, db.data[i]) : i \in {j \in DOMAIN db.data : Contains(r.assets, db.data[j].id)}}
-----------------------------------------------------------------------------
(* isSearchRequest, for a request htmx makes from the page at cur.         *)

\* Mutant: the exclusions are forgotten.
NarrowingKeyWithoutNot(u) ==
    LET f == [Parse(u, <<>>) EXCEPT !.sort = Default, !.cur = Default, !.not = <<>>]
    IN  IF f = NoFilters THEN <<>> ELSE <<f>>

\* What narrows the catalog; empty when nothing does.
NarrowingKey(u) ==
    LET f == [Parse(u, <<>>) EXCEPT !.sort = Default, !.cur = Default]
    IN  IF f = NoFilters THEN <<>> ELSE <<f>>

\* The address bar of a /tag page has no query string, so there is nothing to
\* compare with.
IsSearch(u, cur) ==
    /\ u.page = 1
    /\ NarrowingKey(u) # <<>>
    /\ cur.path = "/tag" \/ NarrowingKey(u) # NarrowingKey(cur)
==============================================================================
