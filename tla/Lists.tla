--------------------------------- MODULE Lists ---------------------------------
(***************************************************************************)
(* Sorting and filtering, which the planner, the engine, the index and the *)
(* search controls all do: without recursion, by counting what comes       *)
(* before an element.                                                      *)
(***************************************************************************)
EXTENDS Integers, Sequences, FiniteSets, SequencesExt

\* The elements of a finite set in the order that a relation puts them in.
Arranged(S, order) ==
    LET rank == [x \in S |-> Cardinality({y \in S : <<y, x>> \in order})]
    IN  [k \in 1..Cardinality(S) |-> CHOOSE x \in S : rank[x] = k]

\* The elements of a sequence in the order that a relation puts their places in.
Ranked(seq, order) ==
    LET rank == [i \in DOMAIN seq |-> Cardinality({j \in DOMAIN seq : <<j, i>> \in order})]
    IN  [k \in DOMAIN seq |-> seq[CHOOSE i \in DOMAIN seq : rank[i] = k]]

Rising(S) == {p \in S \X S : p[1] <= p[2]}

\* A set of numbers, smallest first.
Ascending(S) == Arranged(S, Rising(S))

\* What a filter leaves of a sequence: the elements that are in S, as they stood.
Kept(seq, S) ==
    LET places == Ascending({i \in DOMAIN seq : seq[i] \in S})
    IN  [k \in DOMAIN places |-> seq[places[k]]]

\* Sorted by a key, those with equal keys as they stand.
KeyOrder(key) ==
    {p \in (DOMAIN key) \X (DOMAIN key) :
        \/ key[p[1]] < key[p[2]]
        \/ key[p[1]] = key[p[2]] /\ p[1] <= p[2]}
OrderBy(key) == Arranged(DOMAIN key, KeyOrder(key))
==============================================================================
