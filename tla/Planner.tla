------------------------------- MODULE Planner -------------------------------
(***************************************************************************)
(* What a crawl visits (internal/fetcher/planner.go), as operators: no     *)
(* state, all of a crawl's cost and reach.                                 *)
(*                                                                         *)
(* A tag is a record of slug and count; slugs are numbers, in the order of *)
(* the strings, 0 the empty one.                                           *)
(***************************************************************************)
EXTENDS Lists

CONSTANTS
    MaxPagesPerView,
    allSorts,    \* a sequence, "" for the default ordering
    allFilters   \* a sequence; "" stands for none

\* The default ordering, and no filter.
Unnamed == ""

\* The default ordering and newest are among the orderings, no name stands
\* twice, and none is an ordering's and a filter's.
PlannerConstants ==
    /\ MaxPagesPerView \in Nat \ {0}
    /\ allSorts \in Seq(STRING) /\ IsInjective(allSorts) /\ {Unnamed, "newest"} \subseteq ToSet(allSorts)
    /\ allFilters \in Seq(STRING) /\ IsInjective(allFilters)
    /\ ToSet(allSorts) \cap ToSet(allFilters) = {}

\* The four fields of a Slice and its mark.
Slice(sort, filter, tags, count, pageInFull) ==
    [Sort |-> sort, Filter |-> filter, Tags |-> tags, Count |-> count, PageInFull |-> pageInFull]

\* itch.io's URL grammar.
Valid(s) ==
    /\ Len(s.Tags) <= 2
    /\ Len(s.Tags) = 2 => s.Sort = Unnamed /\ s.Tags[1] < s.Tags[2]
    /\ s.Filter # Unnamed => s.Sort = Unnamed /\ Len(s.Tags) <= 1 /\ Contains(allFilters, s.Filter)
    /\ Contains(allSorts, s.Sort)

IsRoot(s) == s.Sort = Unnamed /\ s.Filter = Unnamed /\ s.Tags = <<>>
IsNewestRoot(s) == s.Sort = "newest" /\ s.Filter = Unnamed /\ s.Tags = <<>>

\* The path's segments, which are also the key of a finished slice.
Segment(name) == IF name = Unnamed THEN <<>> ELSE <<<<"name", name>>>>
Label(s) == Segment(s.Sort) \o Segment(s.Filter) \o [i \in DOMAIN s.Tags |-> <<"tag-", s.Tags[i]>>]

\* Mutant: the last, shorter page is not counted.
PagesRoundedDown(s, itemsPerPage) ==
    LET pages == s.Count \div itemsPerPage
    IN  CASE pages > MaxPagesPerView -> MaxPagesPerView
          [] pages < 1 -> 1
          [] OTHER -> pages

PagesToFetch(s, itemsPerPage) ==
    LET pages == (s.Count + itemsPerPage - 1) \div itemsPerPage
    IN  CASE itemsPerPage <= 0 -> 0
          [] pages > MaxPagesPerView -> MaxPagesPerView
          [] pages < 1 -> 1
          [] OTHER -> pages
-----------------------------------------------------------------------------
Places(seq) == (DOMAIN seq) \X (DOMAIN seq)

SlugOrder(tags) ==
    {p \in Places(tags) : \/ tags[p[1]].slug < tags[p[2]].slug
                          \/ tags[p[1]].slug = tags[p[2]].slug /\ p[1] <= p[2]}
BySlug(tags) == LET found == SetToSeq(tags) IN Ranked(found, SlugOrder(found))

\* sort.SliceStable by falling count.
SizeOrder(slices) ==
    {p \in Places(slices) : \/ slices[p[1]].Count > slices[p[2]].Count
                            \/ slices[p[1]].Count = slices[p[2]].Count /\ p[1] <= p[2]}
LargestFirst(slices) == Ranked(slices, SizeOrder(slices))

\* Tags that fit a view are paged in full; a larger one is seen through every
\* ordering, narrowed by every filter and paired with the others.
Untagged(ceiling) == [f \in DOMAIN allFilters |-> Slice(Unnamed, allFilters[f], <<>>, ceiling, FALSE)]
Whole(small) == [i \in DOMAIN small |-> Slice(Unnamed, Unnamed, <<small[i].slug>>, small[i].count, TRUE)]
Windows(t) ==
    [o \in DOMAIN allSorts |-> Slice(allSorts[o], Unnamed, <<t.slug>>, t.count, FALSE)]
    \o [f \in DOMAIN allFilters |-> Slice(Unnamed, allFilters[f], <<t.slug>>, t.count, TRUE)]
Pair(a, b) ==
    Slice(Unnamed, Unnamed, <<a.slug, b.slug>>, IF b.count < a.count THEN b.count ELSE a.count, FALSE)
PairsFrom(big, i) == [j \in 1..Len(big) - i |-> Pair(big[i], big[i + j])]

Small(tags, ceiling) == {t \in tags : t.slug # 0 /\ t.count <= ceiling}
Big(tags, ceiling) == {t \in tags : t.slug # 0 /\ t.count > ceiling}

Views(small, big, ceiling) ==
    Untagged(ceiling) \o Whole(small)
        \o FlattenSeq([i \in DOMAIN big |-> Windows(big[i])])
        \o FlattenSeq([i \in DOMAIN big |-> PairsFrom(big, i)])

\* PlanSlices.  The two views of the whole catalog lead, the rest comes largest
\* first.
PlanSlices(tags, itemsPerPage) ==
    LET ceiling == MaxPagesPerView * itemsPerPage
    IN  <<Slice(Unnamed, Unnamed, <<>>, ceiling, FALSE), Slice("newest", Unnamed, <<>>, ceiling, TRUE)>>
        \o LargestFirst(Views(BySlug(Small(tags, ceiling)), BySlug(Big(tags, ceiling)), ceiling))
-----------------------------------------------------------------------------
(* What a plan is for, of catalogs in which an asset is a number, the most *)
(* popular and oldest first, and carries tags and passes filters.          *)

Carriers(catalog, tag) == {a \in DOMAIN catalog : tag \in catalog[a].tags}
TagsOf(catalog, tags) == {[slug |-> t, count |-> Cardinality(Carriers(catalog, t))] : t \in tags}

\* What a view holds, and what of it lies on the pages worth requesting.
View(s, catalog) ==
    {a \in DOMAIN catalog : /\ ToSet(s.Tags) \subseteq catalog[a].tags
                            /\ s.Filter \in {Unnamed} \cup catalog[a].filters}
Before(a, s, view) == IF s.Sort = "newest" THEN {b \in view : b > a} ELSE {b \in view : b < a}
Paged(s, catalog, itemsPerPage) ==
    LET view == View(s, catalog)
    IN  {a \in view : Cardinality(Before(a, s, view)) < PagesToFetch(s, itemsPerPage) * itemsPerPage}

Shown(plan, catalog, itemsPerPage) ==
    UNION {Paged(plan[i], catalog, itemsPerPage) :
               i \in {i \in DOMAIN plan : plan[i].PageInFull /\ plan[i].Tags # <<>>}}

\* "an asset is fully reachable if it carries at least one tag whose total count
\* fits within a single view" (PlanSlices), or a larger one that a filter the
\* asset passes narrows to that: whatever the yield heuristic abandons, some view
\* that is paged in full shows the asset on the pages its count implies.
Narrowed(catalog, tag, filter) == {a \in Carriers(catalog, tag) : filter \in catalog[a].filters}
FitsAView(catalog, a, tag, ceiling) ==
    \/ Cardinality(Carriers(catalog, tag)) <= ceiling
    \/ \E f \in catalog[a].filters : Cardinality(Narrowed(catalog, tag, f)) <= ceiling
ReachesAll(plan, catalog, itemsPerPage) ==
    LET shown == Shown(plan, catalog, itemsPerPage)
    IN  \A a \in DOMAIN catalog : \A t \in catalog[a].tags :
           FitsAView(catalog, a, t, MaxPagesPerView * itemsPerPage) => a \in shown

\* Every planned slice satisfies itch.io's grammar, no two share the key of the
\* checkpoint ("it must be unique per slice, or resuming skips views that were
\* never crawled"), the two views that rank the whole catalog lead, are the only
\* ones taken for that and are paged to the cap, the rest comes largest first.
WellFormed(plan, itemsPerPage) ==
    /\ Len(plan) >= 2
    /\ \A i \in DOMAIN plan :
          /\ Valid(plan[i])
          /\ IsRoot(plan[i]) <=> i = 1
          /\ IsNewestRoot(plan[i]) <=> i = 2
          /\ \A j \in 1..i - 1 : Label(plan[j]) # Label(plan[i])
          /\ i \in 4..Len(plan) => plan[i].Count <= plan[i - 1].Count
    /\ \A i \in 1..2 : PagesToFetch(plan[i], itemsPerPage) = MaxPagesPerView
==============================================================================
