---------------------------- MODULE MCCatalogue -----------------------------
(***************************************************************************)
(* A small instance of Catalogue for TLC: two categories that ask for the  *)
(* same name, and products of a price within the filter or beyond it.  One *)
(* product body carries an id; one soft-deletes what it is merged into.    *)
(***************************************************************************)
EXTENDS Catalogue

CONSTANTS r1, r2, reader, n1

BodyWith(price, id, deleted) ==
    [name |-> n1, price |-> price, category |-> 1, id |-> id, deleted |-> deleted]

MCCategoryBodies == {[name |-> n1]}
MCProductBodies == {BodyWith(1, None, None), BodyWith(1, None, TRUE), BodyWith(2, 3, FALSE)}
MCQueries == {[category |-> 1, minPrice |-> 1, maxPrice |-> 1]}

\* Bound: requests that write overlap, fail or bring an id along on one row at
\* a time.  The client begins to read when that is over, and from then on one
\* request at a time writes, to rows of its own.
DisturbsOneRowBeforeReads ==
    /\ Cardinality(disturbed) <= 1
    /\ walk # None =>
          /\ disturbed = {} /\ carried = {}
          /\ \A r, s \in Reqs \ {Reader} : r # s => Idle \in {req[r], req[s]}

\* Requests that write are interchangeable.
Symmetry == Permutations(Reqs \ {Reader})

=============================================================================
