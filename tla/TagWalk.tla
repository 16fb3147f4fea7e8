------------------------------- MODULE TagWalk -------------------------------
(***************************************************************************)
(* The walk that finds itch.io's tags (internal/fetcher/tags.go).          *)
(***************************************************************************)
EXTENDS SequencesExt, Integers

\* The loop of DiscoverTags: the queue, the slugs seen, the tags found so far.
\* fails holds the facets whose page cannot be fetched, coTags the links of
\* the others, each once.
RECURSIVE Discover(_, _, _, _, _, _)
Discover(queue, seen, found, coTags, fails, maxTags) ==
    IF queue = <<>> \/ Len(found) >= maxTags THEN found
    ELSE LET slug == Head(queue)
         IN  IF slug \in fails
               THEN Discover(Tail(queue), seen, found, coTags, fails, maxTags)
               ELSE LET fresh == SelectSeq(coTags[slug], LAMBDA co : co \notin seen)
                        room == IF maxTags > Cardinality(seen) THEN maxTags - Cardinality(seen) ELSE 0
                        queued == SubSeq(fresh, 1, IF Len(fresh) < room THEN Len(fresh) ELSE room)
                    IN  Discover(Tail(queue) \o queued, seen \cup ToSet(queued),
                                 Append(found, slug), coTags, fails, maxTags)

\* DiscoverTags, from a seed without repetitions.
DiscoverTags(seed, coTags, fails, maxTags) ==
    Discover(seed, ToSet(seed), <<>>, coTags, fails, maxTags)
==============================================================================
