------------------------------- MODULE Queries -------------------------------
(***************************************************************************)
(* A visitor's session with the search controls: addresses typed in, the   *)
(* canonical redirect, the links of each result page, load-more, and new   *)
(* datasets published in between.  Modules Engine and Filters say what     *)
(* each request is answered with; here it is checked that the answers and  *)
(* the addresses fit each other.                                           *)
(***************************************************************************)
EXTENDS Filters

CONSTANTS
    Catalogs,        \* the datasets that may be loaded
    TypedAddresses,  \* addresses visitors arrive with: bookmarks, forms, typos
    MaxClicks        \* links followed since the last typed address (a bound)

\* A dataset that may be loaded: every asset has an id of its own, and the last
\* page of the longest list has a number that is not refused.
IsRates(r) == r \in [DOMAIN r -> Nat]
IsAssetList(list) ==
    /\ list \in Seq(Asset)
    /\ IsInjective(Ids(list))
    /\ Len(list) <= MaxPage * PageSize
IsDataset(db) ==
    /\ IsAssetList(db.data) /\ IsAssetList(db.docs)
    /\ IsRates(db.rates) /\ IsRates(db.docRates)
    /\ db.priced \in BOOLEAN
    /\ db.known \subseteq Slugs

\* An address with whatever values; HandleTag ignores the query string.
IsAddress(u) ==
    /\ u = Address(u.path, u, u.page)
    /\ u.path \in {"/", "/tag"} /\ u.page \in Int
    /\ u.query \in [words : SUBSET STRING, quoted : BOOLEAN] /\ IsFiniteSet(u.query.words)
    /\ u.tags \in Seq(Nat) /\ u.not \in Seq(Nat)
    /\ u.path = "/tag" => Len(u.tags) = 1 /\ u = TagURL(u.tags[1], u.page)

ASSUME VisitorConstants ==
    /\ \A db \in Catalogs : IsDataset(db)
    /\ \A u \in TypedAddresses : IsAddress(u)
    /\ MaxClicks \in Nat

VARIABLES
    cat,     \* the dataset being served
    at,      \* the address bar
    via,     \* "typed", "redirect" or "link": how the visitor came to it
    clicks

visitorVars == <<cat, at, via, clicks>>

Here == Parse(at, cat.rates)
Asked(u) == Find(cat, Options(Parse(u, cat.rates), u.page, "wanted"))
Shown == Asked(at)
-----------------------------------------------------------------------------
VisitorInit ==
    /\ cat \in Catalogs
    /\ at = ShareURL(NoFilters)
    /\ via = "typed"
    /\ clicks = 0

\* An address typed, pasted or submitted by the search form.
Open ==
    /\ \E u \in TypedAddresses :
          /\ PageOK(u)
          /\ u.path = "/tag" => HasTag(cat, u.tags[1])
          /\ at' = u
    /\ via' = "typed"
    /\ clicks' = 0
    /\ UNCHANGED cat

\* HandleIndex answers an address that is not the canonical one by a redirect.
Redirect ==
    /\ Canonical(cat, at) # at
    /\ at' = Canonical(cat, at)
    /\ via' = "redirect"
    /\ UNCHANGED <<cat, clicks>>

Follow(u) ==
    /\ Serves(cat, at)
    /\ clicks < MaxClicks
    /\ at' = u
    /\ via' = "link"
    /\ clicks' = clicks + 1
    /\ UNCHANGED cat

\* Sort and currency.
ShowDifferently == \E u \in DisplayAddresses(cat, Here) : Follow(u)

\* Chips, price, sidebar, cards.
Narrow == \E g \in FilterLinks(cat, Here, Shown) : Follow(ShareURL(g))

\* The sidebar of the front page links to the tags' own pages.
FollowTag ==
    /\ Bare(Here)
    /\ \E row \in Offered(Shown) : Follow(TagURL(row.slug, 1))

LoadMore ==
    /\ HasMore(at.page, Shown.total)
    /\ Follow(PageURL(Here, at.page + 1))

\* A refresh swaps in another dataset; the visitor still has the page.
AnotherDataset ==
    /\ \E c \in Catalogs \ {cat} : cat' = c
    /\ via' = "typed"
    /\ UNCHANGED <<at, clicks>>

VisitorNext ==
    \/ Open \/ Redirect \/ AnotherDataset
    \/ ShowDifferently \/ Narrow \/ FollowTag \/ LoadMore

VisitorSpec == VisitorInit /\ [][VisitorNext]_visitorVars
-----------------------------------------------------------------------------
VisitorTypeOK ==
    /\ cat \in Catalogs
    /\ via \in {"typed", "redirect", "link"}
    /\ clicks \in 0..MaxClicks
    /\ at.page \in 1..MaxPage

\* The whole answer in one page, and the chain of pages that load-more builds.
AllIn(db, o) == Find(db, [o EXCEPT !.limit = Len(db.data) + Len(db.docs), !.page = 1])

PageCount(total) == (total + PageSize - 1) \div PageSize

Chain(db, o, total) ==
    FlattenSeq([p \in 1..PageCount(total) |->
        Find(db, [o EXCEPT !.page = p, !.facets = IF p = 1 THEN "wanted" ELSE "omitted"]).assets])

\* Whatever is asked for, load-more shows every match once, in the order of
\* the whole answer, and stops: a page past the last is empty, up to the last
\* page number that is not refused.  The pages of a text search come in part
\* from an entry of the hit cache and in part from the index, which may be of
\* another publish than the list its hits are looked up in.
PagesCoverMatches ==
    LET o == Servable(cat, Options(Here, at.page, "wanted"))
        all == IF ~Filtered(o) /\ ResolvedSort(o) = "popular"
                 THEN Ids(cat.data) ELSE AllIn(cat, o).assets
    IN  /\ Chain(cat, o, Shown.total) = all
        /\ IsInjective(all)
        /\ at.page > PageCount(Shown.total) => Shown.assets = <<>>

\* The index was built from the list it is served with, and holds the prices
\* if they are what is ordered by.
Untorn(db, o) ==
    /\ db.data = Loaded(db.docs)
    /\ IF db.priced THEN db.docRates = db.rates ELSE o.sort # "price"

\* The three answers to one request are the same answer wherever two of them
\* could give it: browse for the front page, the engine for everything without
\* a text query, the index for everything; and a page cut from a hit-cache
\* entry is the page the index gives directly.  Said of the full page, the
\* load-more page, the feed and /new.
PathsAgree ==
    LET asked == {Options(Here, p, facets) : p \in {at.page, at.page + 1}, facets \in {"wanted", "omitted"}}
                     \cup {FeedOptions(Here, 2), FeedOptions(NoFilters, 3)}
    IN  \A o \in {Servable(cat, x) : x \in asked} :
            LET byIndex == SearchUncached(cat, o)
            IN  /\ SearchIndex(cat, o) = byIndex \/ ~Untorn(cat, o)
                /\ Untorn(cat, o) /\ o.query = NoQuery =>
                     /\ SearchEngine(cat, o) = byIndex
                     /\ ~Filtered(o) /\ ResolvedSort(o) = "popular" /\ o.facets = "wanted" =>
                           Browse(cat, o.page) = byIndex

\* Every row the sidebar of a narrowed page offers leads somewhere: requiring
\* the tag shows as many assets as the row says, excluding it the rest, and
\* neither is everything or nothing.
SidebarTellsTruth ==
    LET f == Here
        totalOf(g) == Find(cat, Options(g, 1, "wanted")).total
    IN  \A row \in Offered(Shown) :
            /\ ~AtTagLimit(f) => totalOf(WithTag(f, row.slug)) = row.count
            /\ ~AtNotTagLimit(f) => totalOf(WithNotTag(f, row.slug)) = Shown.total - row.count
            /\ Filtered(Servable(cat, Options(f, 1, "wanted"))) =>
                  row.count > 0 /\ row.count < Shown.total

(* The three parts of LinksKeepMeaning.                                    *)

TagsKnown(db) == \A i \in DOMAIN db.data : db.data[i].tags \subseteq db.known

\* No link of a page and no redirect leads to a redirect or a refused page
\* number, and none to a tag's page with nothing on it, as long as the dataset
\* it was made from is the one that answers.  Unless the tag universe lacks a
\* tag of the list, none leads to a 404 either.  No address names a tag as both
\* required and excluded.
NoRedirectFollows ==
    /\ via # "typed" =>
          /\ PageOK(at) /\ Canonical(cat, at) = at
          /\ at.path = "/tag" => CountOf(cat.data, at.tags[1]) > 0
          /\ TagsKnown(cat) => Serves(cat, at)
    /\ ToSet(Here.tags) \cap ToSet(Here.not) = {}

\* A redirect changes the address and nothing the visitor sees.
RedirectKeepsAnswer ==
    Canonical(cat, at) # at /\ via' = "redirect" =>
        /\ Asked(at') = Shown
        /\ SortInForce(Parse(at', cat.rates)) = SortInForce(Here)

\* A request htmx makes that is not counted as a search shows the very
\* results its page already had; and changing the order or the currency of a
\* query-string page is never counted.
UncountedIsRedisplay ==
    via' = "link" /\ at'.path = "/" =>
        /\ ~IsSearch(at', at) /\ NarrowingKey(at') # <<>> => Asked(at').total = Shown.total
        /\ at.path = "/" /\ at' \in DisplayAddresses(cat, Here) => ~IsSearch(at', at)

\* The three readings of an address - the parser's, the link builders' and the
\* access log's - agree: following a link never ends in a redirect, nor, while
\* the tag universe holds the list's tags, in a 404; a redirect keeps the
\* answer, and what the log takes for a re-display is one.
LinksKeepMeaning == []NoRedirectFollows /\ [][RedirectKeepsAnswer /\ UncountedIsRedisplay]_visitorVars

\* What isSearchRequest's comment says of every page: "a request carrying only
\* a currency or a sort is the same results re-displayed, so neither counts".
RedisplayNeverCounted ==
    [][via' = "link" /\ at' \in DisplayAddresses(cat, Here) => ~IsSearch(at', at)]_visitorVars

\* What facetHref's comment says of the front page's tag links, "one clean,
\* canonical, followable path per tag", and HasTag's of a 404, that it is for
\* "a typo or a probe".  The links are made from the list, the pages from the
\* tag universe.
TagLinksAreServed == [](via = "link" /\ at.path = "/tag" => Serves(cat, at))
==============================================================================
