--------------------------- MODULE ListingsProofs ---------------------------
(***************************************************************************)
(* What sorting gives and how pages cut it, for listings and pages of any  *)
(* length.  Nothing is computed by recursion here: a place in a listing is *)
(* the number of members before it.                                        *)
(***************************************************************************)
EXTENDS Listings, FiniteSetTheorems, FunctionTheorems, SequenceTheorems, TLAPS

-----------------------------------------------------------------------------
(* Orders *)

\* Who comes earlier has fewer before it, and all have fewer than there are.
LEMMA AheadCounts ==
  ASSUME NEW S, NEW order, IsFiniteSet(S), IsOrder(S, order), NEW x \in S
  PROVE  /\ IsFiniteSet(Ahead(S, order, x))
         /\ Cardinality(Ahead(S, order, x)) \in 0 .. Cardinality(S) - 1
         /\ \A y \in S : <<x, y>> \in order =>
               Cardinality(Ahead(S, order, x)) < Cardinality(Ahead(S, order, y))
<1>1. ASSUME NEW y \in S
      PROVE  /\ IsFiniteSet(Ahead(S, order, y)) /\ Cardinality(Ahead(S, order, y)) \in Nat
             /\ Ahead(S, order, y) \subseteq S \ {y}
  <2>1. Ahead(S, order, y) \in SUBSET S
    BY DEF Ahead
  <2> QED BY <2>1, FS_Subset, FS_CardinalityType DEF Ahead, IsOrder
<1>2. Cardinality(Ahead(S, order, x)) <= Cardinality(S) - 1
  <2>1. IsFiniteSet(S \ {x}) /\ Cardinality(S \ {x}) = Cardinality(S) - 1
    BY FS_RemoveElement
  <2> QED BY <1>1, <2>1, FS_Subset
<1>3. ASSUME NEW y \in S, <<x, y>> \in order
      PROVE  Cardinality(Ahead(S, order, x)) < Cardinality(Ahead(S, order, y))
  <2>1. Ahead(S, order, x) \in SUBSET Ahead(S, order, y)
    BY <1>3 DEF Ahead, IsOrder
  <2>2. x \in Ahead(S, order, y) /\ x \notin Ahead(S, order, x)
    BY <1>3 DEF Ahead, IsOrder
  <2>3. /\ Cardinality(Ahead(S, order, x)) <= Cardinality(Ahead(S, order, y))
        /\ Cardinality(Ahead(S, order, x)) # Cardinality(Ahead(S, order, y))
    BY <1>1, <2>1, <2>2, FS_Subset
  <2> QED BY <1>1, <2>3
<1>4. Cardinality(S) \in Nat
  BY FS_CardinalityType
<1> QED BY <1>1, <1>2, <1>3, <1>4

\* No two members have as many before them.
LEMMA PlacesDiffer ==
  ASSUME NEW S, NEW order, IsFiniteSet(S), IsOrder(S, order), NEW x \in S, NEW y \in S, x # y
  PROVE  Cardinality(Ahead(S, order, x)) # Cardinality(Ahead(S, order, y))
<1>1. CASE <<x, y>> \in order
  BY <1>1, AheadCounts
<1>2. CASE <<y, x>> \in order
  BY <1>2, AheadCounts
<1> QED BY <1>1, <1>2 DEF IsOrder

\* Every number of predecessors below the size of the set is that of one member.
LEMMA PlacesAreTaken ==
  ASSUME NEW S, NEW order, IsFiniteSet(S), IsOrder(S, order), NEW k \in 1 .. Cardinality(S)
  PROVE  \E x \in S : Cardinality(Ahead(S, order, x)) = k - 1
<1> DEFINE n == Cardinality(S)
           f == [x \in S |-> Cardinality(Ahead(S, order, x)) + 1]
<1>1. n \in Nat
  BY FS_CardinalityType
<1>2. IsFiniteSet(1 .. n) /\ Cardinality(1 .. n) = n
  BY <1>1, FS_Interval
<1>3. \A x \in S : f[x] \in 1 .. n
  BY <1>1, AheadCounts
<1>4. \A x, y \in S : f[x] = f[y] => x = y
  BY AheadCounts, PlacesDiffer
<1>5. f \in [S -> 1 .. n]
  BY <1>3
<1> HIDE DEF f
<1>6. f \in Injection(S, 1 .. n)
  BY <1>4, <1>5 DEF Injection, IsInjective
<1>7. f \in Surjection(S, 1 .. n)
  BY <1>2, <1>6, FS_Injection
<1>8. PICK x \in S : f[x] = k
  BY <1>7 DEF Surjection
<1>9. Cardinality(Ahead(S, order, x)) \in Nat /\ Cardinality(Ahead(S, order, x)) + 1 = k
  BY <1>8, AheadCounts DEF f
<1> QED BY <1>9

\* InOrder lists every member once, each at the place that its predecessors
\* leave it, the earlier before the later.
LEMMA InOrderLists ==
  ASSUME NEW S, NEW order, IsFiniteSet(S), IsOrder(S, order)
  PROVE  /\ InOrder(S, order) \in [1 .. Cardinality(S) -> S]
         /\ \A k \in 1 .. Cardinality(S) :
               Cardinality(Ahead(S, order, InOrder(S, order)[k])) = k - 1
         /\ \A x \in S : InOrder(S, order)[Cardinality(Ahead(S, order, x)) + 1] = x
         /\ \A j, k \in 1 .. Cardinality(S) :
               j < k => <<InOrder(S, order)[j], InOrder(S, order)[k]>> \in order
<1> DEFINE n == Cardinality(S)
           list == InOrder(S, order)
           before(x) == Cardinality(Ahead(S, order, x))
<1>1. n \in Nat
  BY FS_CardinalityType
<1>2. ASSUME NEW k \in 1 .. n
      PROVE  list[k] \in S /\ before(list[k]) = k - 1
  BY PlacesAreTaken DEF InOrder
<1>3. list \in [1 .. n -> S]
  BY <1>2 DEF InOrder
<1>4. ASSUME NEW x \in S, NEW y \in S, before(x) = before(y) PROVE x = y
  BY <1>4, PlacesDiffer
<1>5. ASSUME NEW x \in S PROVE list[before(x) + 1] = x
  <2>1. before(x) \in Nat /\ before(x) + 1 \in 1 .. n
    BY <1>1, AheadCounts
  <2>2. list[before(x) + 1] \in S /\ before(list[before(x) + 1]) = before(x)
    BY <1>2, <2>1
  <2> QED BY <1>4, <2>2
<1>6. ASSUME NEW j \in 1 .. n, NEW k \in 1 .. n, j < k
      PROVE  <<list[j], list[k]>> \in order
  <2>1. /\ list[j] \in S /\ before(list[j]) = j - 1
        /\ list[k] \in S /\ before(list[k]) = k - 1
    BY <1>2
  <2>2. list[j] # list[k]
    BY <1>6, <2>1
  <2>3. <<list[k], list[j]>> \notin order
    BY <1>6, <2>1, AheadCounts
  <2> QED BY <2>1, <2>2, <2>3 DEF IsOrder
<1> QED BY <1>2, <1>3, <1>5, <1>6

\* The values of a function on a finite set.
LEMMA FiniteImage ==
  ASSUME NEW f, IsFiniteSet(DOMAIN f)
  PROVE  IsFiniteSet({f[x] : x \in DOMAIN f})
<1> DEFINE S == DOMAIN f
           T == {f[x] : x \in S}
           g == [x \in S |-> f[x]]
<1>1. g \in [S -> T]
  OBVIOUS
<1>2. \A t \in T : \E x \in S : g[x] = t
  OBVIOUS
<1> HIDE DEF g
<1>3. g \in Surjection(S, T)
  BY <1>1, <1>2 DEF Surjection
<1> QED BY <1>3, FS_Surjection

\* Sequence st is t behind s.
IsConcatenation(st, s, t) ==
    /\ DOMAIN s = 1 .. Len(s) /\ DOMAIN t = 1 .. Len(t) /\ Len(s) \in Nat /\ Len(t) \in Nat
    /\ DOMAIN st = 1 .. Len(s) + Len(t)
    /\ \A i \in 1 .. Len(s) : st[i] = s[i]
    /\ \A k \in 1 .. Len(t) : st[Len(s) + k] = t[k]
    /\ \A i \in DOMAIN st : i \in 1 .. Len(s) \/ \E k \in 1 .. Len(t) : i = Len(s) + k
    /\ ToSet(st) = ToSet(s) \cup ToSet(t)

LEMMA Concatenated ==
  ASSUME NEW S, NEW s \in Seq(S), NEW t \in Seq(S), NEW st, st = s \o t
  PROVE  IsConcatenation(st, s, t)
<1> DEFINE n == Len(s)
           m == Len(t)
<1>1. n \in Nat /\ m \in Nat /\ DOMAIN s = 1 .. n /\ DOMAIN t = 1 .. m
  OBVIOUS
<1>2. /\ st \in Seq(S) /\ Len(st) = n + m
      /\ \A i \in 1 .. n + m : st[i] = IF i <= n THEN s[i] ELSE t[i - n]
  BY ConcatProperties
<1>3. DOMAIN st = 1 .. n + m
  BY <1>2
<1> HIDE DEF n, m
<1>4. ASSUME NEW i \in 1 .. n PROVE i \in 1 .. n + m /\ st[i] = s[i]
  <2>1. i \in 1 .. n + m /\ i <= n
    BY <1>1
  <2> QED BY <1>2, <2>1
<1>5. ASSUME NEW k \in 1 .. m PROVE n + k \in 1 .. n + m /\ st[n + k] = t[k]
  <2>1. \A i \in 1 .. n + m : i = n + k => st[i] = t[k]
    <3> SUFFICES ASSUME NEW i \in 1 .. n + m, i = n + k PROVE st[i] = t[k]
      OBVIOUS
    <3>1. ~(i <= n) /\ i - n = k
      BY <1>1
    <3>2. st[i] = IF i <= n THEN s[i] ELSE t[i - n]
      BY <1>2
    <3> QED BY <3>1, <3>2
  <2>2. n + k \in 1 .. n + m
    BY <1>1
  <2> QED BY <2>1, <2>2
<1>6. ASSUME NEW i \in 1 .. n + m, i \notin 1 .. n
      PROVE  \E k \in 1 .. m : i = n + k
  <2>1. i - n \in 1 .. m /\ i = n + (i - n)
    BY <1>1, <1>6
  <2> QED BY <2>1
<1>7. ToSet(st) = ToSet(s) \cup ToSet(t)
  <2>1. ASSUME NEW x, x \in ToSet(s) \/ x \in ToSet(t) PROVE x \in ToSet(st)
    BY <1>1, <1>3, <1>4, <1>5, <2>1 DEF ToSet
  <2>2. ASSUME NEW x \in ToSet(st) PROVE x \in ToSet(s) \/ x \in ToSet(t)
    <3>1. PICK i \in 1 .. n + m : x = st[i]
      BY <1>3 DEF ToSet
    <3> QED BY <1>1, <1>4, <1>5, <1>6, <3>1 DEF ToSet
  <2> QED BY <2>1, <2>2
<1> QED BY <1>1, <1>3, <1>4, <1>5, <1>6, <1>7 DEF n, m, IsConcatenation

-----------------------------------------------------------------------------
(* Arithmetic of pages *)

\* What the quotient of a division says of products.
LEMMA Quotient ==
  ASSUME NEW a \in Nat, NEW b \in Nat \ {0}
  PROVE  /\ a \div b \in Nat
         /\ (a \div b) * b <= a
         /\ a < (a \div b) * b + b
  OBVIOUS

\* A quotient reaches n exactly if the dividend reaches n times the divisor.
LEMMA QuotientReaches ==
  ASSUME NEW a \in Nat, NEW b \in Nat \ {0}, NEW n \in Nat
  PROVE  a \div b >= n <=> a >= n * b
<1> DEFINE k == a \div b
<1>1. k \in Nat /\ k * b <= a /\ a < k * b + b
  BY Quotient
<1> HIDE DEF k
<1>2. ASSUME k >= n PROVE a >= n * b
  <2>1. k * b >= n * b
    BY <1>1, <1>2
  <2> QED BY <2>1, <1>1
<1>3. ASSUME a >= n * b, ~(k >= n) PROVE FALSE
  <2>1. k + 1 <= n
    BY <1>1, <1>3
  <2>2. (k + 1) * b <= n * b
    BY <2>1, <1>1
  <2>3. (k + 1) * b = k * b + b
    BY <1>1
  <2> QED BY <2>2, <2>3, <1>1, <1>3
<1> QED BY <1>1, <1>2, <1>3 DEF k

\* PaginationResponse says there is a next page exactly if rows are left behind
\* the page: hasNext, which goes by the number of pages, agrees with the offset
\* at which the next page is read.
THEOREM NextPageBegins ==
  ASSUME NEW total \in Nat, NEW page \in Nat \ {0}, NEW limit \in Nat \ {0}
  PROVE  HasNext(total, page, limit) <=> Skip(page + 1, limit) < total
<1>1. total + limit - 1 \in Nat /\ page + 1 \in Nat
  OBVIOUS
<1>2. TotalPages(total, limit) >= page + 1 <=> total + limit - 1 >= (page + 1) * limit
  BY <1>1, QuotientReaches DEF TotalPages
<1>3. TotalPages(total, limit) \in Nat
  BY <1>1, Quotient DEF TotalPages
<1>4. (page + 1) * limit = page * limit + limit /\ page * limit \in Nat
  OBVIOUS
<1>5. Skip(page + 1, limit) = page * limit
  BY DEF Skip
<1> QED BY <1>2, <1>3, <1>4, <1>5 DEF HasNext

\* Pages of one limit cut the rows of a listing into pieces without gap or
\* overlap: the next page begins where this one ends.
THEOREM PagesAdjoin ==
  ASSUME NEW page \in Nat \ {0}, NEW limit \in Nat \ {0}
  PROVE  Skip(page + 1, limit) = Skip(page, limit) + limit
<1>1. page - 1 \in Nat
  OBVIOUS
<1>2. page * limit = (page - 1) * limit + limit
  BY <1>1
<1> QED BY <1>2 DEF Skip

-----------------------------------------------------------------------------
(* Pages *)

\* Ids are in order.
LEMMA IdsAreOrdered ==
  ASSUME NEW ids \in SUBSET Nat
  PROVE  /\ IsOrder(ids, Smaller(ids))
         /\ \A id \in ids : Cardinality(Ahead(ids, Smaller(ids), id)) = Place(ids, id)
<1>1. \A i, j \in ids : <<i, j>> \in Smaller(ids) <=> i < j
  BY DEF Smaller
<1>2. IsOrder(ids, Smaller(ids))
  BY <1>1 DEF IsOrder
<1>3. ASSUME NEW id \in ids PROVE Ahead(ids, Smaller(ids), id) = {i \in ids : i < id}
  BY <1>1 DEF Ahead
<1> QED BY <1>2, <1>3 DEF Place

\* A listing has its rows in their places.
LEMMA ListingLists ==
  ASSUME NEW ids \in SUBSET Nat, IsFiniteSet(ids)
  PROVE  /\ Listing(ids) \in [1 .. Cardinality(ids) -> ids]
         /\ \A k \in 1 .. Cardinality(ids) : Place(ids, Listing(ids)[k]) = k - 1
         /\ \A id \in ids : /\ Place(ids, id) \in 0 .. Cardinality(ids) - 1
                            /\ Listing(ids)[Place(ids, id) + 1] = id
<1> DEFINE order == Smaller(ids)
<1>1. IsOrder(ids, order)
  BY IdsAreOrdered
<1>2. \A id \in ids : Cardinality(Ahead(ids, order, id)) = Place(ids, id)
  BY IdsAreOrdered
<1> HIDE DEF order
<1>3. Listing(ids) = InOrder(ids, order)
  BY DEF Listing, order
<1>4. Listing(ids) \in [1 .. Cardinality(ids) -> ids]
  BY <1>1, <1>3, InOrderLists
<1>5. \A k \in 1 .. Cardinality(ids) : Place(ids, Listing(ids)[k]) = k - 1
  <2> SUFFICES ASSUME NEW k \in 1 .. Cardinality(ids)
               PROVE  Place(ids, Listing(ids)[k]) = k - 1
    OBVIOUS
  <2>1. Cardinality(Ahead(ids, order, Listing(ids)[k])) = k - 1
    BY <1>1, <1>3, InOrderLists
  <2>2. Listing(ids)[k] \in ids
    BY <1>4
  <2> QED BY <1>2, <2>1, <2>2
<1>6. \A id \in ids : /\ Place(ids, id) \in 0 .. Cardinality(ids) - 1
                     /\ Listing(ids)[Place(ids, id) + 1] = id
  BY <1>1, <1>2, <1>3, AheadCounts, InOrderLists
<1> QED BY <1>4, <1>5, <1>6

\* The offset of a page.
LEMMA SkipType ==
  ASSUME NEW page \in Nat \ {0}, NEW limit \in Nat \ {0}
  PROVE  Skip(page, limit) \in Nat /\ Skip(1, limit) = 0
<1>1. page - 1 \in Nat
  OBVIOUS
<1>2. (page - 1) * limit \in Nat
  BY <1>1
<1> QED BY <1>2 DEF Skip

\* A page holds the rows whose places lie within it, in order.
LEMMA PageHolds ==
  ASSUME NEW ids \in SUBSET Nat, IsFiniteSet(ids),
         NEW page \in Nat \ {0}, NEW limit \in Nat \ {0}
  PROVE  /\ PageOf(ids, page, limit) \in Seq(ids)
         /\ Len(PageOf(ids, page, limit)) =
               IF Skip(page, limit) >= Cardinality(ids) THEN 0
               ELSE IF Skip(page, limit) + limit < Cardinality(ids) THEN limit
               ELSE Cardinality(ids) - Skip(page, limit)
         /\ \A k \in 1 .. Len(PageOf(ids, page, limit)) :
               Place(ids, PageOf(ids, page, limit)[k]) = Skip(page, limit) + k - 1
         /\ \A id \in ids :
               Place(ids, id) \in Skip(page, limit) .. Skip(page, limit) + limit - 1 =>
                  \E k \in 1 .. Len(PageOf(ids, page, limit)) : PageOf(ids, page, limit)[k] = id
<1> DEFINE skip == Skip(page, limit)
           total == Cardinality(ids)
           last == IF skip + limit < total THEN skip + limit ELSE total
           list == PageOf(ids, page, limit)
<1>1. total \in Nat /\ skip \in Nat
  BY FS_CardinalityType, SkipType
<1>2. last \in Nat /\ last <= total /\ last <= skip + limit
  BY <1>1
<1>3. /\ Listing(ids) \in [1 .. total -> ids]
      /\ \A k \in 1 .. total : Place(ids, Listing(ids)[k]) = k - 1
      /\ \A id \in ids : /\ Place(ids, id) \in 0 .. total - 1
                         /\ Listing(ids)[Place(ids, id) + 1] = id
  BY ListingLists
<1>4. list = SubSeq(Listing(ids), skip + 1, last)
  BY DEF PageOf
<1> HIDE DEF skip, total, last, list
<1>5. \A i \in skip + 1 .. last : i \in 1 .. total /\ Listing(ids)[i] \in ids
  BY <1>1, <1>2, <1>3
<1>6. /\ list \in Seq(ids)
      /\ Len(list) = IF skip + 1 <= last THEN last - skip ELSE 0
      /\ \A k \in 1 .. last - skip : list[k] = Listing(ids)[skip + k]
  <2>1. skip + 1 \in Int /\ last \in Int
    BY <1>1, <1>2
  <2>2. /\ list \in Seq(ids)
        /\ Len(list) = IF skip + 1 <= last THEN last - (skip + 1) + 1 ELSE 0
        /\ \A k \in 1 .. last - (skip + 1) + 1 : list[k] = Listing(ids)[(skip + 1) + k - 1]
    BY <1>4, <1>5, <2>1, SubSeqProperties
  <2> QED BY <1>1, <1>2, <2>2
<1>7. Len(list) = IF skip >= total THEN 0 ELSE IF skip + limit < total THEN limit ELSE total - skip
  BY <1>1, <1>2, <1>6 DEF last
<1>8. ASSUME NEW k \in 1 .. Len(list) PROVE Place(ids, list[k]) = skip + k - 1
  <2>1. k \in 1 .. last - skip /\ skip + k \in 1 .. total
    BY <1>1, <1>2, <1>6, <1>8
  <2> QED BY <1>1, <1>3, <1>6, <2>1
<1>9. ASSUME NEW id \in ids, Place(ids, id) \in skip .. skip + limit - 1
      PROVE  \E k \in 1 .. Len(list) : list[k] = id
  <2>1. Place(ids, id) \in Nat /\ Place(ids, id) + 1 \in skip + 1 .. last
    BY <1>1, <1>3, <1>9 DEF last
  <2>2. Place(ids, id) + 1 - skip \in 1 .. Len(list)
    BY <1>1, <1>2, <1>6, <2>1
  <2>3. list[Place(ids, id) + 1 - skip] = Listing(ids)[Place(ids, id) + 1]
    BY <1>1, <1>2, <1>6, <2>1, <2>2
  <2> QED BY <1>3, <2>2, <2>3
<1> QED BY <1>6, <1>7, <1>8, <1>9 DEF skip, total, list

\* A page that begins within the listing holds a row.
LEMMA PageIsThere ==
  ASSUME NEW ids \in SUBSET Nat, IsFiniteSet(ids),
         NEW page \in Nat \ {0}, NEW limit \in Nat \ {0}
  PROVE  PageOf(ids, page, limit) # <<>> <=> Skip(page, limit) < Cardinality(ids)
<1> DEFINE list == PageOf(ids, page, limit)
           from == Skip(page, limit)
           total == Cardinality(ids)
<1>1. /\ list \in Seq(ids)
      /\ Len(list) = IF from >= total THEN 0 ELSE IF from + limit < total THEN limit ELSE total - from
  BY PageHolds
<1>2. from \in Nat /\ total \in Nat
  BY SkipType, FS_CardinalityType
<1> HIDE DEF list, from, total
<1>3. list # <<>> <=> Len(list) # 0
  BY <1>1
<1> QED BY <1>1, <1>2, <1>3 DEF list, from, total

\* A row comes no earlier in a listing to which rows have been added.
LEMMA PlacesGrow ==
  ASSUME NEW ids \in SUBSET Nat, NEW more \in SUBSET Nat, ids \subseteq more, IsFiniteSet(more),
         NEW id \in Nat
  PROVE  /\ Place(ids, id) \in Nat /\ Place(more, id) \in Nat
         /\ Place(ids, id) <= Place(more, id)
<1>1. IsFiniteSet({i \in more : i < id})
  BY FS_Subset
<1>2. {i \in ids : i < id} \in SUBSET {i \in more : i < id}
  OBVIOUS
<1>3. IsFiniteSet({i \in ids : i < id})
  BY <1>1, <1>2, FS_Subset
<1> QED BY <1>1, <1>2, <1>3, FS_Subset, FS_CardinalityType DEF Place

=============================================================================
