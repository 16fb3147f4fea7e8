------------------------------ MODULE MCQueries ------------------------------
(***************************************************************************)
(* Six assets, four tags, three words, three currencies, and three         *)
(* datasets: one publish served as it was built, with a tag that nothing   *)
(* listed carries; an older one whose crawl had no recency, whose index    *)
(* has no prices and whose tags.json is missing; and a torn one, the index *)
(* of the first beside the list of a later crawl and the tags of another.  *)
(***************************************************************************)
EXTENDS Queries

A(id, pop, title, amount, cur, recency, first, tags, author, words) ==
    [id |-> id, pop |-> pop, title |-> title, amount |-> amount, cur |-> cur,
     recency |-> recency, first |-> first, tags |-> tags, author |-> author, words |-> words]

\* Equal popularity, a currency without a rate, an unranked and an undated
\* asset, a tag everybody carries.
a1 == A("a1", 1, 3, 0, "none", 2, 1, {1, 2}, "ann", {"dark", "cave"})
a2 == A("a2", 2, 1, 2, "usd", 0, 2, {1, 3}, "bob", {"dark"})
a3 == A("a3", 2, 3, 4, "eur", 1, 0, {1, 2, 3}, "ann", {"cave", "dark"})
a4 == A("a4", 3, 2, 3, "xxx", 3, 2, {1}, "bob", {"dark", "wood"})
a5 == A("a5", 4, 4, 9, "eur", 3, 3, {1, 2}, "cyd", {"cave", "dark"})
a6 == A("a6", 0, 5, 0, "none", 1, 4, {2, 3}, "cyd", {"dark", "cave"})

OldRates == [c \in {"usd"} |-> 1]
NewRates == [c \in {"usd", "eur"} |-> IF c = "usd" THEN 1 ELSE 2]

Old(s) == [i \in DOMAIN s |-> [s[i] EXCEPT !.recency = 0]]

List == <<a2, a3, a1, a5, a4>>
Whole == [data |-> Loaded(List), known |-> 1..4, rates |-> NewRates, docs |-> List, docRates |-> NewRates, priced |-> TRUE]
Early == [data |-> Loaded(Old(<<a3, a2, a1, a4>>)), rates |-> OldRates,
          known |-> {}, docs |-> Old(<<a3, a2, a1, a4>>), docRates |-> OldRates, priced |-> FALSE]
Torn == [Whole EXCEPT !.data = Loaded(<<a3, a6, a4, a1>>), !.rates = OldRates, !.known = {1, 4}]

MCCatalogs == {Whole, Early, Torn}

Dark == [words |-> {"dark"}, quoted |-> FALSE]
DarkCave == [words |-> {"dark", "cave"}, quoted |-> FALSE]
CaveWood == [words |-> {"cave", "wood"}, quoted |-> FALSE]
QuotedCaveWood == [words |-> {"cave", "wood"}, quoted |-> TRUE]

U(f, page) == Address("/", f, page)

MCTypedAddresses ==
    { ShareURL([NoFilters EXCEPT !.query = Dark]),
      ShareURL([NoFilters EXCEPT !.query = CaveWood]),
      U([NoFilters EXCEPT !.query = QuotedCaveWood, !.sort = "relevance"], 1),
      U([NoFilters EXCEPT !.query = DarkCave, !.sort = "popular", !.cur = "eur"], 2),
      U([NoFilters EXCEPT !.sort = "popular", !.tags = <<2, 1, 2, 3>>, !.not = <<1>>], 1),
      U([NoFilters EXCEPT !.sort = "relevance", !.tags = <<Junk, 3>>, !.not = <<3, 2>>], 1),
      U([NoFilters EXCEPT !.price = "under-5", !.cur = "xxx", !.sort = "junk"], 1),
      U([NoFilters EXCEPT !.price = "junk", !.sort = "recent", !.like = "a6"], 1),
      U([NoFilters EXCEPT !.author = "nobody"], 1),
      U([NoFilters EXCEPT !.sort = "title"], MaxPage),
      U(NoFilters, 0), U(NoFilters, MaxPage + 1), U(NoFilters, 17),
      TagURL(2, 1), TagURL(1, 2), TagURL(4, 1), TagURL(5, 1) }
==============================================================================
