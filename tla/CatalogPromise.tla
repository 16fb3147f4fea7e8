---------------------------- MODULE CatalogPromise ----------------------------
(***************************************************************************)
(* What the pair of processes promises a visitor, without files, renames   *)
(* or refresh steps: crawls publish ever newer catalogs, and the catalog   *)
(* being served only moves forward, is never ahead of what was published,  *)
(* and is always searched through an index at least as new as itself.  A   *)
(* restarted webserver serves nothing until it has loaded.                 *)
(***************************************************************************)
EXTENDS Naturals

VARIABLES
    catalog,      \* the newest published catalog, 0 before the first
    served,       \* the catalog being served, 0 when none is
    searchable    \* the crawl the index being searched was built from

promiseVars == <<catalog, served, searchable>>

Init ==
    /\ catalog \in {0, 1}
    /\ served = 0
    /\ searchable = 0

Publish ==
    /\ catalog' \in Nat /\ catalog' > catalog
    /\ UNCHANGED <<served, searchable>>

Serve ==
    /\ served' \in Nat /\ served <= served' /\ served' <= catalog
    /\ searchable' \in Nat /\ served' <= searchable'
    /\ UNCHANGED catalog

Restart ==
    /\ served' = 0 /\ searchable' = 0
    /\ UNCHANGED catalog

Next == Publish \/ Serve \/ Restart

Spec == Init /\ [][Next]_promiseVars
==============================================================================
