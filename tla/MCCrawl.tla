------------------------------- MODULE MCCrawl -------------------------------
(***************************************************************************)
(* A small itch.io for the runs of Crawl: a root view, a malformed slice,  *)
(* a small tag paged in full, a poor tag that is abandoned before its last *)
(* page, and a deep one that overlaps the root view and is worth paging to *)
(* its end.  And, for the planner, every small catalog: five assets, two   *)
(* tags, two assets to a page, two pages to a view.                        *)
(***************************************************************************)
EXTENDS Crawl, TagWalk

Planning == INSTANCE Planner WITH
    MaxPagesPerView <- 6, allSorts <- <<"", "newest">>, allFilters <- <<"free", "store">>

\* The slices, one asset to a page.
MCSlices == [
    root      |-> Planning!Slice("", "", <<>>, 2, FALSE),
    malformed |-> Planning!Slice("newest", "", <<1, 2>>, 2, FALSE),
    small     |-> Planning!Slice("", "", <<1>>, 2, TRUE),
    poor      |-> Planning!Slice("newest", "", <<2>>, 6, FALSE),
    deep      |-> Planning!Slice("", "", <<2>>, 6, FALSE)]

MCPlan == <<"root", "malformed", "small", "poor", "deep">>
MCListing == [
    root      |-> <<{"a"}, {"b"}>>,
    malformed |-> <<>>,
    small     |-> <<{"a", "c"}>>,
    poor      |-> <<{"a"}, {"b"}, {"a"}, {"b"}, {"d"}>>,
    deep      |-> <<{"a"}, {"b", "d"}, {"a"}, {"d", "e"}>>]
MCPageBudget == [s \in Range(MCPlan) |-> Planning!PagesToFetch(MCSlices[s], 1)]
MCMalformed == {s \in Range(MCPlan) : ~Planning!Valid(MCSlices[s])}
MCInFull == {s \in Range(MCPlan) : Planning!IsRoot(MCSlices[s]) \/ MCSlices[s].PageInFull}
-----------------------------------------------------------------------------
Narrow == INSTANCE Planner WITH
    MaxPagesPerView <- 2, allSorts <- <<"", "newest">>, allFilters <- <<"free", "store">>

ASSUME NarrowConstants == Narrow!PlannerConstants

PerPage == 2

Tags == 1..2
Kinds == {[tags |-> {}, filters |-> {"store"}], [tags |-> {1}, filters |-> {"free"}],
          [tags |-> {1}, filters |-> {"free", "store"}], [tags |-> {1, 2}, filters |-> {"store"}]}
ItchCatalogs == [1..5 -> Kinds]

\* The plan of each tag universe.
PlanOf == [counts \in [Tags -> 0..5] |->
              Narrow!PlanSlices({[slug |-> t, count |-> counts[t]] : t \in Tags}, PerPage)]

PlanReaches ==
    \A catalog \in ItchCatalogs :
        LET counts == [t \in Tags |-> Cardinality(Narrow!Carriers(catalog, t))]
        IN  Narrow!ReachesAll(PlanOf[counts], catalog, PerPage)
PlanWellFormed == \A counts \in DOMAIN PlanOf : Narrow!WellFormed(PlanOf[counts], PerPage)

\* The tags a walk along the links of working facet pages comes to.
RECURSIVE Linked(_, _, _)
Linked(from, coTags, fails) ==
    LET next == from \cup UNION {Range(coTags[t]) : t \in from \ fails}
    IN  IF next = from THEN from \ fails ELSE Linked(next, coTags, fails)

Lists(S) == {<<>>} \cup UNION {{s \in [1..n -> S] : IsInjective(s)} : n \in 1..Cardinality(S)}

\* DiscoverTags visits no facet twice, never more than maxTags, and with room
\* for all of them finds every tag that links lead to, although some facet
\* pages cannot be fetched.
DiscoveryComplete ==
    \A coTags \in [1..3 -> Lists({1, 2}) \cup {<<3>>, <<3, 1>>}], seed \in Lists({1, 3}) \ {<<>>},
       fails \in SUBSET (1..3), maxTags \in 1..3 :
        LET found == DiscoverTags(seed, coTags, fails, maxTags)
        IN  /\ IsInjective(found) /\ Len(found) <= maxTags
            /\ maxTags = 3 => Range(found) = Linked(Range(seed), coTags, fails)

\* What a crawl is given to walk is worth walking.
PlanSound == phase = "resume" => PlanReaches /\ PlanWellFormed /\ DiscoveryComplete
==============================================================================
