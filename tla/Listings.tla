------------------------------ MODULE Listings ------------------------------
(***************************************************************************)
(* Sets listed in an order, and the pages that are cut from a listing.  An *)
(* order is a set of pairs: what comes first stands on the left.           *)
(***************************************************************************)
EXTENDS Naturals, Sequences, FiniteSets, SequencesExt

\* The members of S that come before x.
Ahead(S, order, x) == {y \in S : <<y, x>> \in order}

\* S listed in an order: the k-th member has k - 1 before it.
InOrder(S, order) ==
    [k \in 1 .. Cardinality(S) |-> CHOOSE x \in S : Cardinality(Ahead(S, order, x)) = k - 1]

\* Any two members of S are in the order one way and not the other.
IsOrder(S, order) ==
    /\ \A x, y \in S : x # y => <<x, y>> \in order \/ <<y, x>> \in order
    /\ \A x \in S : <<x, x>> \notin order
    /\ \A x, y, z \in S : <<x, y>> \in order /\ <<y, z>> \in order => <<x, z>> \in order

-----------------------------------------------------------------------------
(* Pages *)

Smaller(ids) == {pair \in ids \X ids : pair[1] < pair[2]}

\* How many rows come before a row, which is its place counted from 0.
Place(ids, id) == Cardinality({i \in ids : i < id})

\* A listing without ORDER BY: InnoDB reads it off the primary key.
Listing(ids) == InOrder(ids, Smaller(ids))

\* Mutated form: pages are counted from 0.
SkipFromZero(page, limit) == page * limit

\* Mutated form: the offset is counted in pages.
SkipPages(page, limit) == page - 1

Skip(page, limit) == (page - 1) * limit
PageOf(ids, page, limit) ==
    LET upTo == Skip(page, limit) + limit
        total == Cardinality(ids)
    IN  SubSeq(Listing(ids), Skip(page, limit) + 1, IF upTo < total THEN upTo ELSE total)

TotalPages(total, limit) == (total + limit - 1) \div limit

\* Mutated form: the last page has a next one.
HasNextInclusive(total, page, limit) == TotalPages(total, limit) >= page

HasNext(total, page, limit) == TotalPages(total, limit) > page

=============================================================================
