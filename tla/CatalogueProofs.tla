--------------------------- MODULE CatalogueProofs ---------------------------
(***************************************************************************)
(* A client that reads the catalogue page by page misses no row and reads  *)
(* none twice, though rows come and go between its pages; what it is told  *)
(* of the total agrees with the page.  What writers are answered is shown, *)
(* unless they meet, and what was deleted stays deleted.                   *)
(***************************************************************************)
EXTENDS Catalogue, RepositoryProofs

-----------------------------------------------------------------------------
(* What a client sees of a listing that changes *)

\* The first page of a listing.
LEMMA WalkStarts ==
  ASSUME NEW ids \in SUBSET Nat, IsFiniteSet(ids), NEW limit \in Nat \ {0}, NEW w,
         w.limit = limit, w.page = 1, w.shown = PageOf(ids, 1, limit), w.first = ids
  PROVE  WalkFits(w, ids)
<1> DEFINE list == PageOf(ids, 1, limit)
<1>1. /\ list \in Seq(ids)
      /\ \A k \in 1 .. Len(list) : Place(ids, list[k]) = Skip(1, limit) + k - 1
      /\ \A id \in ids : Place(ids, id) \in Skip(1, limit) .. Skip(1, limit) + limit - 1 =>
            \E k \in 1 .. Len(list) : list[k] = id
      /\ Len(list) <= limit
  <2>1. Cardinality(ids) \in Nat /\ Skip(1, limit) = 0
    BY FS_CardinalityType, SkipType
  <2> QED BY <2>1, PageHolds
<1>2. Skip(1, limit) = 0 /\ Skip(2, limit) = limit
  BY SkipType, PagesAdjoin
<1>3. DOMAIN list = 1 .. Len(list) /\ Len(list) \in Nat
  BY <1>1
<1> HIDE DEF list
<1>4. \A id \in ids \ ToSet(list) : Place(ids, id) >= limit
  <2> SUFFICES ASSUME NEW id \in ids, ~(Place(ids, id) >= limit) PROVE id \in ToSet(list)
    OBVIOUS
  <2>1. Place(ids, id) \in Nat
    BY PlacesGrow
  <2>2. Place(ids, id) \in 0 .. limit - 1
    BY <2>1
  <2> QED BY <1>1, <1>2, <1>3, <2>2 DEF ToSet
<1>5. \A i, j \in DOMAIN list : list[i] = list[j] => i = j
  BY <1>1, <1>2, <1>3
<1>6. \A id \in ToSet(list) : Place(ids, id) < limit
  BY <1>1, <1>2, <1>3 DEF ToSet
<1>7. Skip(w.page + 1, w.limit) = limit
  BY <1>2
<1>8. w.first = ids /\ w.shown = list
  BY DEF list
<1>9. /\ w.first \subseteq ids
      /\ \A id \in w.first \ ToSet(w.shown) : Place(ids, id) >= limit
      /\ \A i, j \in DOMAIN w.shown : w.shown[i] = w.shown[j] => i = j
      /\ \A id \in ToSet(w.shown) \cap ids : Place(ids, id) < limit
  BY <1>4, <1>5, <1>6, <1>8
<1> QED BY <1>7, <1>9 DEF WalkFits

\* The page behind the ones that were read.
LEMMA WalkPages ==
  ASSUME NEW ids \in SUBSET Nat, IsFiniteSet(ids), NEW w, WalkFits(w, ids),
         w.limit \in Nat \ {0}, w.page \in Nat \ {0}, w.shown \in Seq(Nat),
         NEW v, v.limit = w.limit, v.page = w.page + 1, v.first = w.first,
         v.joined = w.joined, v.left = w.left,
         v.shown = w.shown \o PageOf(ids, w.page + 1, w.limit)
  PROVE  WalkFits(v, ids)
<1> DEFINE list == PageOf(ids, w.page + 1, w.limit)
           from == Skip(w.page + 1, w.limit)
           n == Len(w.shown)
<1>1. /\ w.page + 1 \in Nat \ {0} /\ from \in Nat
      /\ Skip(v.page + 1, v.limit) = from + w.limit
  <2>1. w.page + 1 \in Nat \ {0}
    OBVIOUS
  <2> QED BY <2>1, SkipType, PagesAdjoin
<1>2. /\ list \in Seq(ids)
      /\ \A k \in 1 .. Len(list) : Place(ids, list[k]) = from + k - 1
      /\ \A id \in ids : Place(ids, id) \in from .. from + w.limit - 1 =>
            \E k \in 1 .. Len(list) : list[k] = id
      /\ Len(list) <= w.limit
  <2>1. Cardinality(ids) \in Nat
    BY FS_CardinalityType
  <2>2. w.page + 1 \in Nat \ {0}
    BY <1>1
  <2>3. /\ list \in Seq(ids)
        /\ Len(list) = IF from >= Cardinality(ids) THEN 0
                       ELSE IF from + w.limit < Cardinality(ids) THEN w.limit
                       ELSE Cardinality(ids) - from
        /\ \A k \in 1 .. Len(list) : Place(ids, list[k]) = from + k - 1
        /\ \A id \in ids : Place(ids, id) \in from .. from + w.limit - 1 =>
              \E k \in 1 .. Len(list) : list[k] = id
    BY <2>2, PageHolds
  <2> HIDE DEF list, from
  <2>4. Len(list) <= w.limit
    BY <1>1, <2>1, <2>3
  <2> QED BY <2>3, <2>4
<1> HIDE DEF list, from
<1>3. DOMAIN list = 1 .. Len(list) /\ Len(list) \in Nat /\ list \in Seq(Nat)
  <2>1. list \in Seq(ids)
    BY <1>2
  <2>2. list \in Seq(Nat)
    BY <2>1, SeqMonotonic
  <2>3. DOMAIN list = 1 .. Len(list) /\ Len(list) \in Nat
    BY <2>1
  <2> QED BY <2>2, <2>3
<1>4. /\ n \in Nat /\ DOMAIN w.shown = 1 .. n
      /\ DOMAIN v.shown = 1 .. n + Len(list)
      /\ \A i \in 1 .. n : v.shown[i] = w.shown[i]
      /\ \A k \in 1 .. Len(list) : v.shown[n + k] = list[k]
      /\ \A i \in DOMAIN v.shown :
            i \in 1 .. n \/ \E k \in 1 .. Len(list) : i = n + k
      /\ ToSet(v.shown) = ToSet(w.shown) \cup ToSet(list)
  <2>1. IsConcatenation(v.shown, w.shown, list)
    BY <1>3, Concatenated DEF list
  <2> QED BY <2>1 DEF IsConcatenation
<1>6. ASSUME ~v.left
      PROVE  /\ v.first \subseteq ids
             /\ \A id \in v.first \ ToSet(v.shown) : Place(ids, id) >= from + w.limit
  <2>1. /\ w.first \subseteq ids
        /\ \A id \in w.first \ ToSet(w.shown) : Place(ids, id) >= from
    BY <1>6 DEF WalkFits, from
  <2>2. ASSUME NEW id \in w.first \ ToSet(v.shown), ~(Place(ids, id) >= from + w.limit)
        PROVE  FALSE
    <3>1. Place(ids, id) >= from /\ id \in ids /\ Place(ids, id) \in Nat
      BY <1>4, <2>1, PlacesGrow
    <3>2. Place(ids, id) \in from .. from + w.limit - 1
      BY <1>1, <2>2, <3>1
    <3>3. id \in ToSet(list)
      BY <1>2, <1>3, <3>1, <3>2 DEF ToSet
    <3> QED BY <1>4, <3>3
  <2> QED BY <2>1, <2>2
<1>7. ASSUME ~v.joined
      PROVE  /\ \A i, j \in DOMAIN v.shown : v.shown[i] = v.shown[j] => i = j
             /\ \A id \in ToSet(v.shown) \cap ids : Place(ids, id) < from + w.limit
  <2>1. /\ \A i, j \in DOMAIN w.shown : w.shown[i] = w.shown[j] => i = j
        /\ \A id \in ToSet(w.shown) \cap ids : Place(ids, id) < from
    BY <1>7 DEF WalkFits, from
  <2>2. \A k \in 1 .. Len(list) : list[k] \in ids /\ Place(ids, list[k]) >= from
    BY <1>1, <1>2
  <2>3. \A i \in 1 .. n, k \in 1 .. Len(list) : w.shown[i] # list[k]
    <3> SUFFICES ASSUME NEW i \in 1 .. n, NEW k \in 1 .. Len(list), w.shown[i] = list[k]
                 PROVE  FALSE
      OBVIOUS
    <3>1. w.shown[i] \in ToSet(w.shown) \cap ids
      BY <1>4, <2>2 DEF ToSet
    <3>2. Place(ids, list[k]) < from /\ Place(ids, list[k]) >= from /\ Place(ids, list[k]) \in Nat
      BY <1>1, <1>2, <2>1, <2>2, <3>1
    <3> QED BY <1>1, <3>2
  <2>4. \A k, l \in 1 .. Len(list) : list[k] = list[l] => k = l
    <3> SUFFICES ASSUME NEW k \in 1 .. Len(list), NEW l \in 1 .. Len(list), list[k] = list[l]
                 PROVE  k = l
      OBVIOUS
    <3>1. from + k - 1 = from + l - 1
      BY <1>2
    <3> QED BY <1>1, <1>3, <3>1
  <2>5. ASSUME NEW i \in DOMAIN v.shown, NEW j \in DOMAIN v.shown, v.shown[i] = v.shown[j]
        PROVE  i = j
    <3>1. CASE i \in 1 .. n /\ j \in 1 .. n
      BY <1>4, <2>1, <2>5, <3>1
    <3>2. CASE i \in 1 .. n /\ j \notin 1 .. n
      <4>1. PICK k \in 1 .. Len(list) : j = n + k
        BY <1>4, <3>2
      <4>2. v.shown[i] = w.shown[i] /\ v.shown[j] = list[k]
        BY <1>4, <3>2, <4>1
      <4> QED BY <2>3, <2>5, <3>2, <4>2
    <3>3. CASE i \notin 1 .. n /\ j \in 1 .. n
      <4>1. PICK k \in 1 .. Len(list) : i = n + k
        BY <1>4, <3>3
      <4>2. v.shown[j] = w.shown[j] /\ v.shown[i] = list[k]
        BY <1>4, <3>3, <4>1
      <4> QED BY <2>3, <2>5, <3>3, <4>2
    <3>4. CASE i \notin 1 .. n /\ j \notin 1 .. n
      <4>1. PICK k \in 1 .. Len(list) : i = n + k
        BY <1>4, <3>4
      <4>2. PICK l \in 1 .. Len(list) : j = n + l
        BY <1>4, <3>4
      <4>3. v.shown[i] = list[k] /\ v.shown[j] = list[l]
        BY <1>4, <4>1, <4>2
      <4> QED BY <2>4, <2>5, <4>1, <4>2, <4>3
    <3> QED BY <3>1, <3>2, <3>3, <3>4
  <2>6. ASSUME NEW id \in ToSet(v.shown) \cap ids PROVE Place(ids, id) < from + w.limit
    <3>1. Place(ids, id) \in Nat
      BY PlacesGrow
    <3>2. CASE id \in ToSet(w.shown)
      BY <1>1, <2>1, <3>1, <3>2
    <3>3. CASE id \in ToSet(list)
      <4>1. PICK k \in 1 .. Len(list) : id = list[k]
        BY <1>3, <3>3 DEF ToSet
      <4> QED BY <1>1, <1>2, <1>3, <4>1
    <3> QED BY <1>4, <3>2, <3>3
  <2> QED BY <2>5, <2>6
<1> QED BY <1>1, <1>6, <1>7 DEF WalkFits

\* Rows that join a listing push the rest behind; rows that leave it let the
\* rest move up.
LEMMA WalkChanges ==
  ASSUME NEW ids \in SUBSET Nat, IsFiniteSet(ids), NEW others \in SUBSET Nat, IsFiniteSet(others),
         NEW w, WalkFits(w, ids), w.first \in SUBSET Nat,
         Skip(w.page + 1, w.limit) \in Nat,
         NEW v, v.limit = w.limit, v.page = w.page, v.first = w.first, v.shown = w.shown,
         ~v.joined => ~w.joined /\ others \subseteq ids,
         ~v.left => ~w.left /\ ids \subseteq others
  PROVE  WalkFits(v, others)
<1> DEFINE next == Skip(w.page + 1, w.limit)
<1>1. next \in Nat /\ Skip(v.page + 1, v.limit) = next
  OBVIOUS
<1> HIDE DEF next
<1>2. ASSUME ~v.left
      PROVE  /\ v.first \subseteq others
             /\ \A id \in v.first \ ToSet(v.shown) : Place(others, id) >= next
  <2>1. /\ w.first \subseteq ids /\ ids \subseteq others
        /\ \A id \in w.first \ ToSet(w.shown) : Place(ids, id) >= next
    BY <1>2 DEF WalkFits, next
  <2>2. ASSUME NEW id \in w.first \ ToSet(w.shown) PROVE Place(others, id) >= next
    <3>1. /\ Place(ids, id) \in Nat /\ Place(others, id) \in Nat
          /\ Place(ids, id) <= Place(others, id)
      BY <2>1, PlacesGrow
    <3> QED BY <1>1, <2>1, <3>1
  <2> QED BY <2>1, <2>2
<1>3. ASSUME ~v.joined
      PROVE  /\ \A i, j \in DOMAIN v.shown : v.shown[i] = v.shown[j] => i = j
             /\ \A id \in ToSet(v.shown) \cap others : Place(others, id) < next
  <2>1. /\ \A i, j \in DOMAIN w.shown : w.shown[i] = w.shown[j] => i = j
        /\ \A id \in ToSet(w.shown) \cap ids : Place(ids, id) < next
        /\ others \subseteq ids
    BY <1>3 DEF WalkFits, next
  <2>2. ASSUME NEW id \in ToSet(w.shown) \cap others PROVE Place(others, id) < next
    <3>1. /\ Place(ids, id) \in Nat /\ Place(others, id) \in Nat
          /\ Place(others, id) <= Place(ids, id)
      BY <2>1, PlacesGrow
    <3>2. Place(ids, id) < next
      BY <2>1
    <3> QED BY <1>1, <3>1, <3>2
  <2> QED BY <2>1, <2>2
<1> QED BY <1>1, <1>2, <1>3 DEF WalkFits

\* A page that is not full tells how many rows there are, and holds the last.
LEMMA PageTells ==
  ASSUME NEW ids \in SUBSET Nat, IsFiniteSet(ids), NEW page \in Nat \ {0}, NEW limit \in Nat \ {0},
         NEW list, list = PageOf(ids, page, limit), Len(list) < limit, list # <<>> \/ page = 1
  PROVE  /\ Skip(page, limit) + Len(list) = Cardinality(ids)
         /\ \A id \in ids : Place(ids, id) < Skip(page + 1, limit)
<1> DEFINE from == Skip(page, limit)
           total == Cardinality(ids)
<1>1. /\ list \in Seq(ids)
      /\ Len(list) = IF from >= total THEN 0 ELSE IF from + limit < total THEN limit ELSE total - from
  BY PageHolds
<1>2. total \in Nat /\ from \in Nat /\ (page = 1 => from = 0)
  BY FS_CardinalityType, SkipType
<1>3. Skip(page + 1, limit) = from + limit
  BY PagesAdjoin
<1>4. \A id \in ids : Place(ids, id) \in 0 .. total - 1
  BY ListingLists
<1> HIDE DEF from, total
<1>5. list # <<>> => Len(list) # 0
  BY <1>1
<1>6. from + Len(list) = total /\ total <= from + limit
  BY <1>1, <1>2, <1>5
<1>7. \A id \in ids : Place(ids, id) < from + limit
  BY <1>2, <1>4, <1>6
<1> QED BY <1>3, <1>6, <1>7 DEF from, total

-----------------------------------------------------------------------------
(* Rows *)

\* A body makes the row it asks for, and is merged into that row by a row that
\* is shown.
LEMMA RowTyped ==
  ASSUME NEW id, NEW body,
         \/ id \in Categories /\ body \in CategoryBodies
         \/ id \in Products /\ body \in ProductBodies
  PROVE  /\ Row(body) \in Rows(id)
         /\ \A row \in Rows(id) : ~row.deleted => Merged(row, body) = Row(body)
         /\ Sent(body) \subseteq Columns
<1>1. CASE id \in Categories /\ body \in CategoryBodies
  <2> DEFINE columns == {"name", "deleted"}
  <2>1. body \in [name : Names]
    BY <1>1, BodyAssumption DEF CategoryBody
  <2>2. DOMAIN body = {"name"} /\ body.name \in Names
    BY <2>1
  <2>3. Sent(body) = {"name"} /\ (DOMAIN body \ {"id"}) \cup {"deleted"} = columns
    BY <2>2, NoneAssumption DEF Sent
  <2>4. Row(body) = [name |-> body.name, deleted |-> FALSE]
    <3>1. Row(body) = [c \in columns |-> IF c \in {"name"} THEN body[c] ELSE FALSE]
      BY <2>3 DEF Row
    <3> QED BY <3>1
  <2>5. Row(body) \in CategoryRow
    BY <2>2, <2>4 DEF CategoryRow
  <2>6. ASSUME NEW row \in CategoryRow PROVE Merged(row, body) = Row(body)
    <3>1. DOMAIN row = columns /\ row.deleted = FALSE
      BY DEF CategoryRow
    <3>2. Merged(row, body) = [c \in columns |-> IF c \in {"name"} THEN body[c] ELSE row[c]]
      BY <2>3, <3>1 DEF Merged
    <3>3. Merged(row, body) = [name |-> body.name, deleted |-> row.deleted]
      BY <3>2
    <3> QED BY <2>4, <3>1, <3>3
  <2>7. Rows(id) = CategoryRow
    BY <1>1 DEF Rows
  <2> QED BY <2>3, <2>5, <2>6, <2>7 DEF Columns
<1>2. CASE id \in Products /\ body \in ProductBodies
  <2> DEFINE fields == {"name", "price", "category"}
             columns == {"name", "price", "category", "deleted"}
             mark == IF body.deleted # None THEN body.deleted ELSE FALSE
  <2>1. body \in [name : Names, price : Prices, category : Categories,
                  id : (Ids \ Categories) \cup {None}, deleted : BOOLEAN \cup {None}]
    BY <1>2, BodyAssumption DEF ProductBody
  <2>2. /\ DOMAIN body = {"name", "price", "category", "id", "deleted"}
        /\ body.name \in Names /\ body.price \in Prices /\ body.category \in Categories
        /\ body.deleted \in BOOLEAN \cup {None} /\ mark \in BOOLEAN
    BY <2>1
  <2>3. body.name # None /\ body.price # None /\ body.category # None
    BY <2>2, NoneAssumption, CategoryAssumption
  <2>4. /\ (DOMAIN body \ {"id"}) \cup {"deleted"} = columns
        /\ \A c \in columns : c \in Sent(body) <=> c \in fields \/ body.deleted # None
        /\ Sent(body) \subseteq columns
    BY <2>2, <2>3 DEF Sent
  <2>5. Row(body) = [name |-> body.name, price |-> body.price, category |-> body.category,
                     deleted |-> mark]
    <3>1. Row(body) = [c \in columns |-> IF c \in Sent(body) THEN body[c] ELSE FALSE]
      BY <2>4 DEF Row
    <3>2. Row(body) = [c \in columns |-> IF c \in fields \/ body.deleted # None THEN body[c] ELSE FALSE]
      BY <2>4, <3>1
    <3> QED BY <3>2
  <2>6. Row(body) \in ProductRow
    <3>1. \A name \in Names, price \in Prices, category \in Categories, deleted \in BOOLEAN :
             [name |-> name, price |-> price, category |-> category, deleted |-> deleted] \in ProductRow
      BY DEF ProductRow
    <3> HIDE DEF mark
    <3> QED BY <2>2, <2>5, <3>1
  <2>7. ASSUME NEW row \in ProductRow, ~row.deleted PROVE Merged(row, body) = Row(body)
    <3>1. DOMAIN row = columns /\ row.deleted = FALSE
      BY <2>7 DEF ProductRow
    <3>2. Merged(row, body) = [c \in columns |-> IF c \in Sent(body) THEN body[c] ELSE row[c]]
      BY <3>1 DEF Merged
    <3>3. Merged(row, body) =
            [c \in columns |-> IF c \in fields \/ body.deleted # None THEN body[c] ELSE row[c]]
      BY <2>4, <3>2
    <3>4. Merged(row, body) = [name |-> body.name, price |-> body.price, category |-> body.category,
                               deleted |-> IF body.deleted # None THEN body.deleted ELSE row.deleted]
      BY <3>3
    <3>5. (IF body.deleted # None THEN body.deleted ELSE row.deleted) = mark
      BY <3>1
    <3> HIDE DEF mark
    <3> QED BY <2>5, <3>4, <3>5
  <2>8. Rows(id) = ProductRow
    BY <1>2 DEF Rows, Products
  <2> HIDE DEF mark
  <2> QED BY <2>4, <2>6, <2>7, <2>8 DEF Columns
<1> QED BY <1>1, <1>2

\* Rows of one table have the same columns, and columns can be exchanged.
LEMMA RowColumns ==
  ASSUME NEW id, NEW row \in Rows(id), NEW entity \in Rows(id), NEW columns
  PROVE  /\ SameColumns(entity, row) /\ Overwritten(row, entity, columns) \in Rows(id)
         /\ row # None /\ DOMAIN row \subseteq Columns
         /\ Visible(row) \in Rows(id) \cup {None}
<1>0. Visible(row) \in {row, None}
  BY DEF Visible
<1>1. CASE id \in Categories
  <2>1. /\ DOMAIN row = {"name", "deleted"} /\ row \in CategoryRow /\ entity \in CategoryRow
    BY <1>1 DEF Rows, CategoryRow
  <2>2. Overwritten(row, entity, columns) =
          [name |-> IF "name" \in columns THEN entity.name ELSE row.name,
           deleted |-> IF "deleted" \in columns THEN entity.deleted ELSE row.deleted]
    BY <2>1 DEF Overwritten
  <2>3. Overwritten(row, entity, columns) \in CategoryRow
    BY <2>1, <2>2 DEF CategoryRow
  <2>4. SameColumns(entity, row)
    BY <2>1 DEF SameColumns, CategoryRow
  <2> QED BY <1>0, <1>1, <2>1, <2>3, <2>4, NoneAssumption DEF Rows, Columns
<1>2. CASE id \notin Categories
  <2>1. /\ DOMAIN row = {"name", "price", "category", "deleted"}
        /\ row \in ProductRow /\ entity \in ProductRow
    BY <1>2 DEF Rows, ProductRow
  <2>2. Overwritten(row, entity, columns) =
          [name |-> IF "name" \in columns THEN entity.name ELSE row.name,
           price |-> IF "price" \in columns THEN entity.price ELSE row.price,
           category |-> IF "category" \in columns THEN entity.category ELSE row.category,
           deleted |-> IF "deleted" \in columns THEN entity.deleted ELSE row.deleted]
    BY <2>1 DEF Overwritten
  <2>3. Overwritten(row, entity, columns) \in ProductRow
    <3>1. /\ row.name \in Names /\ row.price \in Prices /\ row.category \in Categories
          /\ row.deleted \in BOOLEAN
      BY <2>1 DEF ProductRow
    <3>2. /\ entity.name \in Names /\ entity.price \in Prices /\ entity.category \in Categories
          /\ entity.deleted \in BOOLEAN
      BY <2>1 DEF ProductRow
    <3>3. /\ (IF "name" \in columns THEN entity.name ELSE row.name) \in Names
          /\ (IF "price" \in columns THEN entity.price ELSE row.price) \in Prices
          /\ (IF "category" \in columns THEN entity.category ELSE row.category) \in Categories
          /\ (IF "deleted" \in columns THEN entity.deleted ELSE row.deleted) \in BOOLEAN
      BY <3>1, <3>2
    <3>4. \A name \in Names, price \in Prices, category \in Categories, deleted \in BOOLEAN :
             [name |-> name, price |-> price, category |-> category, deleted |-> deleted] \in ProductRow
      BY DEF ProductRow
    <3> QED BY <2>2, <3>3, <3>4
  <2>4. SameColumns(entity, row)
    BY <2>1 DEF SameColumns, ProductRow
  <2> QED BY <1>0, <1>2, <2>1, <2>3, <2>4, NoneAssumption DEF Rows, Columns
<1> QED BY <1>1, <1>2

\* The row that the statement of a writer leaves.
LEMMA RowAfterTyped ==
  ASSUME NEW id \in Ids, NEW q \in WriteRequest(id), q.pc \in Saves => q.entity # None,
         NEW row \in Rows(id) \cup {None}
  PROVE  RowAfter(q, row) \in Rows(id) \cup {None}
<1>1. q.pc \in Saves \cup {"delete"} /\ (q.pc \in Saves => q.entity \in Rows(id))
  BY DEF WriteRequest
<1>2. CASE q.pc = "update" /\ row # None
  <2>1. RowAfter(q, row) = Overwritten(row, q.entity, q.changed)
    BY <1>2 DEF RowAfter
  <2>2. q.entity \in Rows(id) /\ row \in Rows(id)
    BY <1>1, <1>2 DEF Saves
  <2> QED BY <2>1, <2>2, RowColumns
<1>3. CASE q.pc = "insert" /\ row = None
  BY <1>1, <1>3 DEF RowAfter, Saves
<1>4. CASE q.pc = "delete"
  BY <1>4 DEF RowAfter
<1>5. CASE ~(q.pc = "update" /\ row # None) /\ ~(q.pc = "insert" /\ row = None) /\ q.pc # "delete"
  <2>1. RowAfter(q, row) = row
    BY <1>1, <1>5 DEF RowAfter, Saves
  <2> QED BY <2>1
<1> QED BY <1>2, <1>3, <1>4, <1>5

-----------------------------------------------------------------------------
(* Types *)

\* A listing is a finite set of ids.
LEMMA ListedIsFinite ==
  ASSUME IdAssumption, NEW query
  PROVE  /\ Listed(query) \in SUBSET Ids /\ Listed(query) \in SUBSET Nat
         /\ IsFiniteSet(Listed(query))
<1>1. Listed(query) \in SUBSET Ids
  BY DEF Listed, Matching, Live, Stored
<1> QED BY <1>1, FS_Subset DEF IdAssumption

LEMMA ListedIsFiniteNext ==
  ASSUME IdAssumption, NEW query
  PROVE  /\ Listed(query)' \in SUBSET Ids /\ Listed(query)' \in SUBSET Nat
         /\ IsFiniteSet(Listed(query)')
<1>1. Listed(query)' \in SUBSET Ids
  BY DEF Listed, Matching, Live, Stored
<1> QED BY <1>1, FS_Subset DEF IdAssumption

\* A row of a table is replaced by one of its kind.
LEMMA RowReplaced ==
  ASSUME NEW table, TableOK(table), NEW id \in Ids, NEW row \in Rows(id) \cup {None}
  PROVE  TableOK([table EXCEPT ![id] = row])
BY DEF TableOK

\* A request that changes rows goes on, or ends, with q to do next.
LEMMA WriterStep ==
  ASSUME TypeOK, NEW r \in Reqs \ {Reader}, NEW q, WriterOK(q), req' = [req EXCEPT ![r] = q],
         NEW table, db' = table, TableOK(table), NEW answers, expected' = answers, TableOK(answers),
         disturbed' \subseteq Ids, carried' \subseteq Ids, removed' \subseteq Ids,
         overtaken' \subseteq Reqs, walk' \in Walk \cup {None}
  PROVE  TypeOK'
<1>1. /\ req' = [s \in Reqs |-> req'[s]] /\ req'[Reader] = req[Reader] /\ req'[r] = q
      /\ \A s \in Reqs \ {Reader, r} : req'[s] = req[s]
  BY ReaderAssumption DEF TypeOK
<1>2. ReaderOK(req[Reader]) /\ \A s \in Reqs \ {Reader} : WriterOK(req[s])
  BY DEF TypeOK
<1>3. ReaderOK(req'[Reader])
  BY <1>1, <1>2
<1>4. \A s \in Reqs \ {Reader} : WriterOK(req'[s])
  BY <1>1, <1>2
<1>5. TableOK(db') /\ TableOK(expected')
  OBVIOUS
<1> QED BY <1>1, <1>3, <1>4, <1>5 DEF TypeOK, TableOK, WriterOK, ReaderOK

\* A request that writes is a record of its own kind.
LEMMA WriterTyped ==
  ASSUME TypeOK, NEW r \in Reqs \ {Reader}, req[r].pc \in Saves \cup Deletions
  PROVE  /\ req[r].id \in Ids /\ req[r] \in WriteRequest(req[r].id)
         /\ req[r].pc \in Saves => req[r].entity \in Rows(req[r].id)
         /\ TableOK(TableAfter(r))
<1>1. Idle.pc \notin Saves \cup Deletions
  BY DEF Idle, Saves, Deletions
<1>2. PICK id \in Ids : /\ req[r] \in WriteRequest(id)
                        /\ req[r].pc \in Saves => req[r].entity # None
  BY <1>1 DEF TypeOK, WriterOK
<1>3. req[r].id = id /\ req[r].entity \in Rows(id) \cup {None}
  BY <1>2 DEF WriteRequest
<1>4. db[id] \in Rows(id) \cup {None} /\ db = [k \in Ids |-> db[k]] /\ TableOK(db)
  BY DEF TypeOK, TableOK
<1>5. RowAfter(req[r], db[id]) \in Rows(id) \cup {None}
  BY <1>2, <1>4, RowAfterTyped
<1>6. TableAfter(r) = [db EXCEPT ![id] = RowAfter(req[r], db[id])]
  BY <1>3, <1>4 DEF TableAfter
<1>7. TableOK(TableAfter(r))
  BY <1>4, <1>5, <1>6, RowReplaced
<1> QED BY <1>2, <1>3, <1>7

\* A free slot may be a writer's or the reader's.
LEMMA IdleFits == WriterOK(Idle) /\ ReaderOK(Idle) /\ Idle.pc = "idle"
  BY DEF WriterOK, ReaderOK, Idle

\* Following the client that reads keeps the shape of its history.
LEMMA FollowTyped ==
  ASSUME TypeOK, Follow
  PROVE  walk' \in Walk \cup {None}
<1>1. CASE walk = None
  BY <1>1 DEF Follow
<1>2. CASE walk # None
  <2>1. walk \in Walk
    BY <1>2 DEF TypeOK
  <2>2. PICK joined \in BOOLEAN, left \in BOOLEAN :
           walk' = [walk EXCEPT !.joined = joined, !.left = left]
    <3> DEFINE joins(query) == walk.joined \/ ~ (Listed(query)' \subseteq Listed(query))
               leaves(query) == walk.left \/ ~ (Listed(query) \subseteq Listed(query)')
    <3>1. PICK query : walk' = [walk EXCEPT !.joined = @ \/ ~ (Listed(query)' \subseteq Listed(query)),
                                            !.left = @ \/ ~ (Listed(query) \subseteq Listed(query)')]
      BY <1>2 DEF Follow
    <3>2. walk' = [walk EXCEPT !.joined = joins(query), !.left = leaves(query)]
      BY <2>1, <3>1 DEF Walk
    <3>3. joins(query) \in BOOLEAN /\ leaves(query) \in BOOLEAN
      OBVIOUS
    <3> QED BY <3>2, <3>3
  <2> QED BY <2>1, <2>2 DEF Walk
<1> QED BY <1>1, <1>2

LEMMA CreateTyped ==
  ASSUME TypeOK, NEW id \in Ids, NEW row \in Rows(id), InsertNew(id, row), Follow
  PROVE  TypeOK'
<1>1. /\ db' = [db EXCEPT ![id] = row] /\ expected' = [expected EXCEPT ![id] = Visible(row)]
      /\ UNCHANGED <<req, disturbed, carried, removed, overtaken>>
  BY DEF InsertNew
<1>2. TableOK([db EXCEPT ![id] = row]) /\ TableOK([expected EXCEPT ![id] = Visible(row)])
  BY RowColumns, RowReplaced DEF TypeOK
<1>3. TableOK(db') /\ TableOK(expected')
  BY <1>1, <1>2
<1> QED BY <1>1, <1>3, FollowTyped DEF TypeOK, TableOK, ReaderOK, WriterOK

\* A request goes on to write row id.
LEMMA AwaitTyped ==
  ASSUME TypeOK, NEW r \in Reqs \ {Reader}, NEW id \in Ids, NEW pc \in {"load", "delete"},
         NEW entity \in Rows(id) \cup {None}, NEW asked \in Rows(id) \cup {None},
         NEW columns \in SUBSET Columns, Await(r, pc, id, None, entity, columns, asked),
         pc \in Saves => entity # None, expected' = [expected EXCEPT ![id] = None],
         disturbed' \subseteq Ids, carried' \subseteq Ids, Follow
  PROVE  TypeOK'
<1> DEFINE q == [pc |-> pc, id |-> id, actor |-> None, entity |-> entity,
                 changed |-> columns, asked |-> asked]
<1>1. req' = [req EXCEPT ![r] = q] /\ UNCHANGED <<db, removed, overtaken>>
  BY DEF Await
<1>2. q \in WriteRequest(id) /\ q.pc = pc /\ q.entity = entity
  BY DEF WriteRequest, Saves
<1> HIDE DEF q
<1>3. WriterOK(q)
  BY <1>2 DEF WriterOK
<1>4. TableOK(db) /\ TableOK([expected EXCEPT ![id] = None])
  BY RowReplaced DEF TypeOK
<1> QED BY <1>1, <1>3, <1>4, WriterStep, FollowTyped DEF TypeOK

LEMMA ProceedTyped ==
  ASSUME TypeOK, NEW r \in Reqs \ {Reader}, NEW id \in Ids, NEW pc \in {"load", "delete"},
         NEW entity \in Rows(id) \cup {None}, NEW asked \in Rows(id) \cup {None},
         Proceed(r, pc, id, None, entity, asked), pc \in Saves => entity # None, Follow
  PROVE  TypeOK'
<1>1. /\ Await(r, pc, id, None, entity, DOMAIN db[id], asked)
      /\ expected' = [expected EXCEPT ![id] = None] /\ disturbed' \subseteq Ids /\ carried' = carried
  BY DEF Proceed, TypeOK
<1>2. DOMAIN db[id] \in SUBSET Columns
  <2>1. db[id] \in Rows(id)
    BY DEF Proceed, Live, Stored, TypeOK, TableOK
  <2> QED BY <2>1, RowColumns
<1>3. carried' \subseteq Ids
  BY <1>1 DEF TypeOK
<1> QED BY <1>1, <1>2, <1>3, AwaitTyped

\* A product is saved to the row of an id that a client has sent along.
Brought(r, id) ==
    \E body \in ProductBodies, columns \in SUBSET Columns :
        id \in Products /\ SaveCarried(r, id, None, Row(body), columns)

\* Updates and deletions that have found their row, and those that look for none.
LEMMA ChangesTyped ==
  ASSUME TypeOK, NEW r \in Reqs \ {Reader}, NEW id \in Ids, Follow,
         \/ \E body \in CategoryBodies : id \in Categories /\ (Create(id, body) \/ Update(r, id, body))
         \/ \E body \in ProductBodies : id \in Products /\ (Create(id, body) \/ Update(r, id, body))
         \/ DeleteById(r, id, None)
         \/ Brought(r, id)
  PROVE  TypeOK'
<1>1. ASSUME NEW body, Create(id, body) \/ Update(r, id, body),
             \/ id \in Categories /\ body \in CategoryBodies
             \/ id \in Products /\ body \in ProductBodies
      PROVE  TypeOK'
  <2>1. Row(body) \in Rows(id) /\ \A row \in Rows(id) : ~row.deleted => Merged(row, body) = Row(body)
    BY <1>1, RowTyped
  <2>2. CASE Create(id, body)
    BY <2>1, <2>2, CreateTyped DEF Create
  <2>3. CASE Update(r, id, body)
    <3>1. db[id] \in Rows(id) /\ ~db[id].deleted
      BY <2>3 DEF Update, Live, Stored, TypeOK, TableOK
    <3>2. Proceed(r, "load", id, None, Row(body), Visible(Row(body)))
      BY <2>1, <2>3, <3>1 DEF Update, SaveEntity
    <3>3. Row(body) # None /\ Visible(Row(body)) \in Rows(id) \cup {None}
      BY <2>1, RowColumns
    <3> QED BY <2>1, <3>2, <3>3, ProceedTyped
  <2> QED BY <1>1, <2>2, <2>3
<1>2. CASE DeleteById(r, id, None)
  BY <1>2, ProceedTyped DEF DeleteById, Saves
<1>3. CASE Brought(r, id)
  <2>1. PICK body \in ProductBodies, columns \in SUBSET Columns :
           id \in Products /\ SaveCarried(r, id, None, Row(body), columns)
    BY <1>3 DEF Brought
  <2>2. Row(body) \in Rows(id)
    BY <2>1, RowTyped
  <2>3. Row(body) # None /\ Visible(Row(body)) \in Rows(id) \cup {None}
    BY <2>2, RowColumns
  <2>4. /\ Await(r, "load", id, None, Row(body), columns, Visible(Row(body)))
        /\ expected' = [expected EXCEPT ![id] = None]
        /\ disturbed' \subseteq Ids /\ carried' \subseteq Ids
    BY <2>1 DEF SaveCarried, TypeOK
  <2>5. Row(body) \in Rows(id) \cup {None} /\ columns \in SUBSET Columns /\ "load" \in {"load", "delete"}
    BY <2>1, <2>2
  <2> DEFINE row == Row(body)
             shown == Visible(row)
  <2>6. /\ row \in Rows(id) \cup {None} /\ shown \in Rows(id) \cup {None} /\ row # None
        /\ Await(r, "load", id, None, row, columns, shown)
    BY <2>3, <2>4, <2>5
  <2> HIDE DEF row, shown
  <2> QED BY <2>4, <2>5, <2>6, AwaitTyped
<1> QED BY <1>1, <1>2, <1>3

LEMMA StatementTyped ==
  ASSUME TypeOK, NEW r \in Reqs \ {Reader}, Statement(r), Follow
  PROVE  TypeOK'
<1>0. walk' \in Walk \cup {None} /\ TableOK(db) /\ TableOK(expected)
      /\ disturbed \subseteq Ids /\ carried \subseteq Ids /\ removed \subseteq Ids
      /\ overtaken \subseteq Reqs
  BY FollowTyped DEF TypeOK
<1>1. CASE SaveLoad(r)
  <2> DEFINE id == req[r].id
  <2>1. /\ id \in Ids /\ req[r] \in WriteRequest(id) /\ req[r].entity \in Rows(id) /\ UNCHANGED rows
        /\ db[id] \in Rows(id) \cup {None}
    BY <1>1, WriterTyped DEF SaveLoad, Saves, TypeOK, TableOK
  <2>2. req[r].entity # None /\ req[r].changed \subseteq Columns
    BY <2>1, RowColumns DEF WriteRequest
  <2> HIDE DEF id
  <2>3. CASE db[id] = None
    <3> DEFINE q == [req[r] EXCEPT !.pc = "insert"]
    <3>1. req' = [req EXCEPT ![r] = q]
      BY <1>1, <2>3 DEF SaveLoad, id
    <3>2. q \in WriteRequest(id) /\ q.entity = req[r].entity
      BY <2>1 DEF WriteRequest, Saves
    <3> HIDE DEF q
    <3>3. WriterOK(q)
      BY <2>1, <2>2, <3>2 DEF WriterOK
    <3> QED BY <1>0, <2>1, <3>1, <3>3, WriterStep DEF rows
  <2>4. CASE db[id] # None
    <3> DEFINE columns == Differing(req[r].entity, db[id], req[r].changed)
               q == [req[r] EXCEPT !.pc = "update", !.changed = columns]
    <3>1. req' = [req EXCEPT ![r] = q]
      BY <1>1, <2>4 DEF SaveLoad, id
    <3>2. columns \in SUBSET Columns
      BY <2>2 DEF Differing
    <3> HIDE DEF columns
    <3>3. q \in WriteRequest(id) /\ q.entity = req[r].entity
      BY <2>1, <3>2 DEF WriteRequest, Saves
    <3> HIDE DEF q
    <3>4. WriterOK(q)
      BY <2>1, <2>2, <3>3 DEF WriterOK
    <3> QED BY <1>0, <2>1, <3>1, <3>4, WriterStep DEF rows
  <2> QED BY <2>3, <2>4
<1>2. ASSUME NEW runs, Ends(r, runs), req[r].pc \in Saves \cup Deletions,
             req' = [req EXCEPT ![r] = Idle], db' = db \/ db' = TableAfter(r),
             NEW wanted \in {None, req[r].asked}, expected' = [expected EXCEPT ![req[r].id] = wanted],
             disturbed' \subseteq Ids
      PROVE  TypeOK'
  <2>1. req[r].id \in Ids /\ req[r].asked \in Rows(req[r].id) \cup {None} /\ TableOK(TableAfter(r))
    BY <1>2, WriterTyped DEF WriteRequest
  <2>2. /\ carried' \subseteq Ids /\ removed' \subseteq Ids /\ overtaken' \subseteq Reqs
    BY <1>0, <1>2, <2>1 DEF Ends
  <2>3. TableOK([expected EXCEPT ![req[r].id] = wanted])
    BY <1>0, <2>1, RowReplaced
  <2> QED BY <1>0, <1>2, <2>1, <2>2, <2>3, IdleFits, WriterStep
<1>3. ASSUME req[r].pc \in Saves \cup Deletions PROVE req[r].id \in Ids
  BY <1>3, WriterTyped
<1>4. ASSUME NEW pc \in Saves \cup Deletions, NEW accepted, Execute(r, pc, accepted)
      PROVE  TypeOK'
  <2>1. /\ req[r].pc \in Saves \cup Deletions /\ req' = [req EXCEPT ![r] = Idle] /\ Ends(r, accepted)
    BY <1>4 DEF Execute
  <2>2. CASE accepted
    BY <1>0, <1>2, <1>4, <2>1, <2>2 DEF Execute
  <2>3. CASE ~accepted
    BY <1>0, <1>2, <1>3, <1>4, <2>1, <2>3 DEF Execute
  <2> QED BY <2>2, <2>3
<1>5. CASE FailWrite(r)
  <2>1. /\ req[r].pc \in Saves \cup Deletions /\ req' = [req EXCEPT ![r] = Idle]
        /\ expected' = [expected EXCEPT ![req[r].id] = None]
        /\ disturbed' = disturbed \cup {req[r].id}
    BY <1>5 DEF FailWrite
  <2>2. disturbed' \subseteq Ids
    BY <1>0, <1>3, <2>1
  <2>3. CASE Ends(r, FALSE) /\ db' = db
    BY <1>2, <2>1, <2>2, <2>3
  <2>4. CASE Ends(r, TRUE) /\ db' = TableAfter(r)
    BY <1>2, <2>1, <2>2, <2>4
  <2> QED BY <1>5, <2>3, <2>4 DEF FailWrite
<1> QED BY <1>1, <1>4, <1>5 DEF Statement, SaveUpdate, SaveInsert, HardDelete, Saves, Deletions

\* The client that reads goes on with q.
LEMMA ReaderStep ==
  ASSUME TypeOK, NEW q, ReaderOK(q), req' = [req EXCEPT ![Reader] = q], UNCHANGED rows,
         walk' \in Walk \cup {None}
  PROVE  TypeOK'
<1>1. /\ req' = [s \in Reqs |-> req'[s]] /\ req'[Reader] = q
      /\ \A s \in Reqs \ {Reader} : req'[s] = req[s]
  BY ReaderAssumption DEF TypeOK
<1> QED BY <1>1 DEF TypeOK, TableOK, WriterOK, ReaderOK, rows

\* What the client is about to be answered.
LEMMA PaginateTyped ==
  ASSUME IdAssumption, TypeOK, NEW query \in AnyQuery, NEW page \in Pages, NEW limit \in Limits,
         Paginate(Reader, query, page, limit, Listed(query))
  PROVE  /\ UNCHANGED rows
         /\ \E q : ReaderOK(q) /\ req' = [req EXCEPT ![Reader] = q]
         /\ req'[Reader] = [pc |-> "count", query |-> query, page |-> page, limit |-> limit,
                            list |-> PageOf(Listed(query), page, limit), seen |-> Listed(query)]
         /\ req'[Reader].list \in Seq(Ids)
<1> DEFINE list == PageOf(Listed(query), page, limit)
           q == [pc |-> "count", query |-> query, page |-> page, limit |-> limit,
                 list |-> list, seen |-> Listed(query)]
<1>1. req' = [req EXCEPT ![Reader] = q] /\ UNCHANGED rows
  BY DEF Paginate
<1>2. Listed(query) \in SUBSET Ids /\ Listed(query) \in SUBSET Nat /\ IsFiniteSet(Listed(query))
  BY ListedIsFinite
<1>3. list \in Seq(Ids)
  <2>1. list \in Seq(Listed(query))
    BY <1>2, PageAssumption, PageHolds
  <2> QED BY <1>2, <2>1, SeqMonotonic
<1> HIDE DEF list
<1>4. q \in CountRequest /\ q.list = list
  BY <1>2, <1>3 DEF CountRequest
<1>5. req'[Reader] = q
  BY <1>1, ReaderAssumption DEF TypeOK
<1> HIDE DEF q
<1>6. ReaderOK(q)
  BY <1>4 DEF ReaderOK
<1> QED BY <1>1, <1>3, <1>4, <1>5, <1>6 DEF list, q

\* A client that begins to read.
LEMMA FirstPageTyped ==
  ASSUME IdAssumption, TypeOK, NEW query \in AnyQuery, NEW limit \in Limits, GetFirstPage(query, limit)
  PROVE  TypeOK' /\ walk' \in Walk
<1>0. 1 \in Pages
  BY PageAssumption
<1>1. /\ UNCHANGED rows /\ \E q : ReaderOK(q) /\ req' = [req EXCEPT ![Reader] = q]
      /\ req'[Reader].list \in Seq(Ids)
  BY <1>0, PaginateTyped DEF GetFirstPage
<1>2. walk' \in Walk
  <2>1. walk' = [query |-> query, limit |-> limit, page |-> 1, shown |-> req'[Reader].list,
                 first |-> Listed(query), joined |-> FALSE, left |-> FALSE]
    BY DEF GetFirstPage
  <2> QED BY <1>0, <1>1, <2>1, ListedIsFinite DEF Walk
<1> QED BY <1>1, <1>2, ReaderStep

\* A client that reads on.
LEMMA NextPageTyped ==
  ASSUME IdAssumption, TypeOK, GetNextPage
  PROVE  TypeOK' /\ walk' \in Walk
<1>1. walk \in Walk /\ walk.page + 1 \in Pages /\ walk.query \in AnyQuery /\ walk.limit \in Limits
  BY DEF GetNextPage, TypeOK, Walk
<1>2. /\ UNCHANGED rows /\ \E q : ReaderOK(q) /\ req' = [req EXCEPT ![Reader] = q]
      /\ req'[Reader].list \in Seq(Ids)
  BY <1>1, PaginateTyped DEF GetNextPage
<1>3. walk' \in Walk
  <2> DEFINE shown == walk.shown \o req'[Reader].list
  <2>1. shown \in Seq(Ids)
    BY <1>1, <1>2, ConcatProperties DEF Walk
  <2>2. walk' = [walk EXCEPT !.page = walk.page + 1, !.shown = shown]
    BY DEF GetNextPage
  <2> HIDE DEF shown
  <2> QED BY <1>1, <2>1, <2>2 DEF Walk
<1> QED BY <1>2, <1>3, ReaderStep

LEMMA CountTyped ==
  ASSUME TypeOK, Count(Reader), walk' = walk
  PROVE  TypeOK'
<1>1. req' = [req EXCEPT ![Reader] = Idle] /\ UNCHANGED rows
  BY DEF Count
<1> QED BY <1>1, IdleFits, ReaderStep DEF TypeOK

\* Each change is one of a category or of a product.
LEMMA ChangeCases ==
  ASSUME TypeOK, Change
  PROVE  \E r \in Reqs \ {Reader} :
            \/ \E id \in Ids :
                  \/ \E body \in CategoryBodies :
                        id \in Categories /\ (Create(id, body) \/ Update(r, id, body))
                  \/ \E body \in ProductBodies :
                        id \in Products /\ (Create(id, body) \/ Update(r, id, body))
                  \/ DeleteById(r, id, None)
                  \/ Brought(r, id)
            \/ Statement(r)
<1>1. PICK r \in Reqs \ {Reader} :
        \/ \E c \in Categories : ChangeCategory(r, c)
        \/ \E p \in Products : ChangeProduct(r, p)
        \/ \E body \in ProductBodies : CreateProductAs(r, body)
        \/ Statement(r)
  BY DEF Change
<1>2. CASE \E c \in Categories : ChangeCategory(r, c)
  BY <1>2, CategoryAssumption DEF ChangeCategory, CreateCategory, UpdateCategory, DeleteCategory
<1>3. ASSUME NEW body \in ProductBodies, body.id # None PROVE body.id \in Products /\ body.id \in Ids
  <2>1. body.id \in (Ids \ Categories) \cup {None}
    BY BodyAssumption DEF ProductBody
  <2> QED BY <1>3, <2>1 DEF Products
<1>4. CASE \E body \in ProductBodies : CreateProductAs(r, body)
  <2>1. PICK body \in ProductBodies : CreateProductAs(r, body)
    BY <1>4
  <2>2. body.id \in Products /\ body.id \in Ids /\ SaveCarried(r, body.id, None, Row(body), Sent(body))
    BY <1>3, <2>1 DEF CreateProductAs
  <2>3. Sent(body) \in SUBSET Columns
    BY <2>2, RowTyped
  <2> QED BY <2>2, <2>3 DEF Brought
<1>5. CASE \E p \in Products : ChangeProduct(r, p)
  <2>1. PICK p \in Products : ChangeProduct(r, p)
    BY <1>5
  <2>2. ASSUME NEW body \in ProductBodies, UpdateProductAs(r, p, body)
        PROVE  \E id \in Ids : Brought(r, id)
    <3>1. db[p] \in Rows(p) /\ ~db[p].deleted /\ body.id \in Products /\ body.id \in Ids
      BY <1>3, <2>2 DEF UpdateProductAs, Live, Stored, TypeOK, TableOK, Products
    <3>2. Merged(db[p], body) = Row(body) /\ DOMAIN db[p] \in SUBSET Columns
      BY <3>1, RowTyped, RowColumns
    <3>3. SaveCarried(r, body.id, None, Row(body), DOMAIN db[p])
      BY <2>2, <3>2 DEF UpdateProductAs
    <3> QED BY <3>1, <3>2, <3>3 DEF Brought
  <2> QED BY <2>1, <2>2 DEF ChangeProduct, CreateProduct, UpdateProduct, DeleteProduct, Products
<1> QED BY <1>1, <1>2, <1>4, <1>5

LEMMA NextTyped == IdAssumption /\ TypeOK /\ [Next]_vars => TypeOK'
<1> SUFFICES ASSUME IdAssumption, TypeOK, [Next]_vars PROVE TypeOK'
  OBVIOUS
<1>1. CASE Change /\ Follow
  BY <1>1, ChangeCases, ChangesTyped, StatementTyped
<1>2. CASE Read
  <2>1. ASSUME NEW limit \in Limits, NEW query \in AnyQuery, GetFirstPage(query, limit)
        PROVE  TypeOK'
    BY <2>1, FirstPageTyped
  <2> QED BY <1>2, <2>1, NextPageTyped, CountTyped DEF Read, GetCategories, GetProducts, AnyQuery
<1>3. CASE UNCHANGED vars
  BY <1>3 DEF vars, repository, rows, TypeOK, TableOK, WriterOK, ReaderOK
<1> QED BY <1>1, <1>2, <1>3 DEF Next

LEMMA InitTyped == CatalogueInit => TypeOK
BY IdleFits, ReaderAssumption DEF CatalogueInit, Init, TypeOK, TableOK

\* Rows, requests and the history of the client that reads keep their shape,
\* for any categories, products, filters and pages.
THEOREM CatalogueTypes == Spec => []TypeOK
BY IdAssumption, InitTyped, NextTyped, PTL DEF Spec

-----------------------------------------------------------------------------
(* Answers *)

LEMMA CatalogueFit == TypeOK => WritesFit
<1> SUFFICES ASSUME TypeOK PROVE WritesFit
  OBVIOUS
<1>1. ~(req[Reader].pc \in Saves \cup Deletions)
  BY DEF TypeOK, ReaderOK, Idle, CountRequest, Saves, Deletions
<1>2. ASSUME NEW r \in Reqs, req[r].pc \in Saves \cup Deletions
      PROVE  r \in Reqs \ {Reader}
  BY <1>1, <1>2
<1>3. ASSUME NEW r \in Reqs, Writes(r) PROVE IsWrite(req[r])
  BY <1>2, <1>3, WriterTyped DEF IsWrite, WriteRequest, Writes
<1>4. ASSUME NEW id \in Ids, db[id] # None PROVE db[id] \in Rows(id)
  BY <1>4 DEF TypeOK, TableOK
<1>5. ASSUME NEW r \in Reqs, req[r].pc \in Saves
      PROVE  /\ req[r].entity # None
             /\ db[req[r].id] # None => SameColumns(req[r].entity, db[req[r].id])
  <2>1. req[r].id \in Ids /\ req[r].entity \in Rows(req[r].id)
    BY <1>2, <1>5, WriterTyped
  <2> QED BY <1>4, <2>1, RowColumns
<1>6. db = [id \in Ids |-> db[id]] /\ req = [r \in Reqs |-> req[r]]
  BY DEF TypeOK, TableOK
<1>7. \A id \in Ids : db[id] # None => SameColumns(db[id], db[id])
  BY <1>4, RowColumns
<1> QED BY <1>3, <1>5, <1>6, <1>7 DEF WritesFit

\* A body that is merged into a row makes it the row that was asked for, since
\* all fields are required.
LEMMA ChangesShown ==
  ASSUME TypeOK, ShownInv, NEW r \in Reqs \ {Reader}, NEW id \in Ids,
         \/ \E body \in CategoryBodies : id \in Categories /\ (Create(id, body) \/ Update(r, id, body))
         \/ \E body \in ProductBodies : id \in Products /\ (Create(id, body) \/ Update(r, id, body))
         \/ DeleteById(r, id, None)
         \/ Brought(r, id)
  PROVE  ShownInv'
<1>1. ASSUME NEW body, Create(id, body) \/ Update(r, id, body),
             \/ id \in Categories /\ body \in CategoryBodies
             \/ id \in Products /\ body \in ProductBodies
      PROVE  ShownInv'
  <2>1. Row(body) \in Rows(id) /\ \A row \in Rows(id) : ~row.deleted => Merged(row, body) = Row(body)
    BY <1>1, RowTyped
  <2>2. CASE Create(id, body)
    BY <2>2, CatalogueFit, InsertShown DEF Create
  <2>3. CASE Update(r, id, body)
    <3>1. db[id] \in Rows(id) /\ ~db[id].deleted
      BY <2>3 DEF Update, Live, Stored, TypeOK, TableOK
    <3>2. Proceed(r, "load", id, None, Row(body), Visible(Row(body)))
      BY <2>1, <2>3, <3>1 DEF Update, SaveEntity
    <3> QED BY <3>2, CatalogueFit, ProceedShown
  <2> QED BY <1>1, <2>2, <2>3
<1>2. CASE DeleteById(r, id, None)
  BY <1>2, CatalogueFit, ProceedShown DEF DeleteById
<1>3. CASE Brought(r, id)
  BY <1>3, CatalogueFit, CarriedShown DEF Brought
<1> QED BY <1>1, <1>2, <1>3

LEMMA StatementShown ==
  ASSUME TypeOK, ShownInv, NEW r \in Reqs, Statement(r)
  PROVE  ShownInv'
<1>1. WritesFit
  BY CatalogueFit
<1>2. ASSUME NEW pc \in {"update", "insert", "delete"}, NEW accepted, Execute(r, pc, accepted)
      PROVE  ShownInv'
  BY <1>1, <1>2, ExecuteShown
<1> QED BY <1>1, <1>2, LoadShown, FailShown DEF Statement, SaveUpdate, SaveInsert, HardDelete

LEMMA NextShown == TypeOK /\ ShownInv /\ [Next]_vars => ShownInv'
<1> SUFFICES ASSUME TypeOK, ShownInv, [Next]_vars PROVE ShownInv'
  OBVIOUS
<1>1. CASE Change
  BY <1>1, ChangeCases, ChangesShown, StatementShown
<1>2. CASE Read
  BY <1>2, ReaderAssumption, CatalogueFit, PaginateShown, CountShown
     DEF Read, GetCategories, GetProducts, GetFirstPage, GetNextPage
<1>3. CASE UNCHANGED vars
  BY <1>3, StutterShown DEF vars
<1> QED BY <1>1, <1>2, <1>3 DEF Next

\* Listings show of a category or a product what its last answered request made
\* of it; only overlaps, failures and bodies with its id excuse it.
THEOREM ChangesAreShown == Spec => []AnsweredIsShown
<1>1. CatalogueInit => TypeOK /\ ShownInv
  BY InitTyped, InitShown DEF CatalogueInit
<1>2. TypeOK /\ ShownInv /\ [Next]_vars => TypeOK' /\ ShownInv'
  BY IdAssumption, NextTyped, NextShown
<1>3. ShownInv => AnsweredIsShown
  BY DEF ShownInv, AnsweredIsShown
<1> QED BY <1>1, <1>2, <1>3, PTL DEF Spec

-----------------------------------------------------------------------------
(* Deleted rows *)

\* Each step keeps rows that were deleted deleted, but for the saves under way.
LEMMA NextDeleted ==
  ASSUME TypeOK, DeletedInv, [Next]_vars
  PROVE  DeletedInv' /\ [DeletionsHold]_repository
<1>0. WritesFit
  BY CatalogueFit
<1>1. CASE Change
  <2>1. PICK r \in Reqs \ {Reader} :
          \/ \E id \in Ids :
                \/ \E body : Create(id, body) \/ Update(r, id, body)
                \/ DeleteById(r, id, None)
                \/ Brought(r, id)
          \/ Statement(r)
    BY <1>1, ChangeCases
  <2>2. ASSUME NEW id \in Ids, NEW body, Create(id, body)
        PROVE  DeletedInv' /\ DeletionsHold
    BY <1>0, <2>2, InsertDeleted DEF Create
  <2>3. ASSUME NEW id \in Ids, NEW body, Update(r, id, body) \/ DeleteById(r, id, None)
        PROVE  DeletedInv' /\ DeletionsHold
    BY <1>0, <2>3, ProceedDeleted DEF Update, SaveEntity, DeleteById
  <2>4. ASSUME NEW id \in Ids, Brought(r, id)
        PROVE  DeletedInv' /\ DeletionsHold
    BY <1>0, <2>4, CarriedDeleted DEF Brought
  <2>5. CASE Statement(r)
    <3>1. ASSUME NEW pc \in {"update", "insert", "delete"}, NEW accepted \in BOOLEAN,
                 Execute(r, pc, accepted)
          PROVE  DeletedInv' /\ DeletionsHold
      BY <1>0, <3>1, ExecuteDeleted
    <3>2. Consistent(TableAfter(r)) \in BOOLEAN
      BY DEF Consistent
    <3> QED BY <1>0, <2>5, <3>1, <3>2, LoadDeleted, FailDeleted
            DEF Statement, SaveUpdate, SaveInsert, HardDelete
  <2> QED BY <2>1, <2>2, <2>3, <2>4, <2>5
<1>2. CASE Read
  BY <1>0, <1>2, ReaderAssumption, PagesDeleted
     DEF Read, GetCategories, GetProducts, GetFirstPage, GetNextPage
<1>3. CASE UNCHANGED vars
  BY <1>3, StutterDeleted DEF vars
<1> QED BY <1>1, <1>2, <1>3 DEF Next

\* A category or a product that was deleted is brought back by nobody who looks
\* at it afterwards: only a save that had read it before can, or a client that
\* sends its id along.
THEOREM DeletedRowsStay == Spec => DeletedStaysDeleted
<1>1. CatalogueInit => TypeOK /\ DeletedInv
  BY InitTyped, InitDeleted DEF CatalogueInit
<1>2. TypeOK /\ DeletedInv /\ [Next]_vars => TypeOK' /\ DeletedInv' /\ [DeletionsHold]_repository
  BY IdAssumption, NextTyped, NextDeleted
<1>3. Spec => [][DeletionsHold]_repository
  BY <1>1, <1>2, PTL DEF Spec
<1> QED BY <1>3 DEF DeletedStaysDeleted, DeletionsHold

-----------------------------------------------------------------------------
(* The client that reads *)

\* A page that was read puts the client's history in order.
LEMMA ReadFits ==
  ASSUME IdAssumption, TypeOK, NEW query \in AnyQuery, NEW page \in Pages, NEW limit \in Limits,
         Paginate(Reader, query, page, limit, Listed(query)),
         NEW w \in Walk, walk' = w, w.query = query, w.page = page, w.limit = limit,
         WalkFits(w, Listed(query))
  PROVE  WalkInv'
<1> DEFINE ids == Listed(query)
           list == PageOf(ids, page, limit)
           q == req'[Reader]
<1>1. /\ UNCHANGED rows
      /\ q = [pc |-> "count", query |-> query, page |-> page, limit |-> limit,
              list |-> list, seen |-> ids]
  BY PaginateTyped
<1>2. /\ q.query = query /\ q.page = page /\ q.limit = limit /\ q.list = list /\ q.seen = ids
  BY <1>1
<1>3. \A k \in AnyQuery : Listed(k)' = Listed(k)
  BY <1>1 DEF rows, Listed, Matching, Live, Stored
<1>4. ids \in SUBSET Nat /\ IsFiniteSet(ids)
  BY ListedIsFinite
<1>5. page \in Nat \ {0} /\ limit \in Nat \ {0} /\ w # None
  BY PageAssumption, NoneAssumption
<1> HIDE DEF ids, list, q
<1>6. ASSUME Tells(q), ~w.left PROVE w.first \subseteq ToSet(w.shown)
  <2>1. Len(list) < limit /\ (list # <<>> \/ page = 1)
    BY <1>2, <1>6 DEF Tells
  <2>2. \A id \in ids : Place(ids, id) < Skip(page + 1, limit)
    BY <1>4, <1>5, <2>1, PageTells DEF list
  <2>3. /\ w.first \subseteq ids
        /\ \A id \in w.first \ ToSet(w.shown) : Place(ids, id) >= Skip(page + 1, limit)
    BY <1>6 DEF WalkFits, ids
  <2>4. Skip(page + 1, limit) \in Nat /\ \A id \in ids : Place(ids, id) \in Nat
    <3>1. page + 1 \in Nat \ {0}
      BY <1>5
    <3> QED BY <1>4, <1>5, <3>1, SkipType, PlacesGrow
  <2>5. ASSUME NEW id \in w.first, id \notin ToSet(w.shown) PROVE FALSE
    <3>1. /\ Place(ids, id) \in Nat /\ Place(ids, id) < Skip(page + 1, limit)
          /\ Place(ids, id) >= Skip(page + 1, limit)
      BY <2>2, <2>3, <2>4, <2>5
    <3> QED BY <2>4, <3>1
  <2> QED BY <2>5
<1>7. CountFits(q, w)
  BY <1>2, <1>5, <1>6 DEF CountFits, list
<1>8. \A k \in AnyQuery : w # None /\ w.query = k => WalkFits(w, Listed(k)')
  BY <1>3 DEF ids
<1> QED BY <1>7, <1>8 DEF WalkInv, q

\* The first page.
LEMMA FirstPageFits ==
  ASSUME IdAssumption, TypeOK, NEW query \in AnyQuery, NEW limit \in Limits, GetFirstPage(query, limit)
  PROVE  WalkInv'
<1> DEFINE ids == Listed(query)
<1>1. Paginate(Reader, query, 1, limit, ids) /\ 1 \in Pages /\ limit \in Nat \ {0}
  BY PageAssumption DEF GetFirstPage
<1>2. req'[Reader].list = PageOf(ids, 1, limit)
  <2>1. req'[Reader] = [pc |-> "count", query |-> query, page |-> 1, limit |-> limit,
                        list |-> PageOf(ids, 1, limit), seen |-> ids]
    BY <1>1, PaginateTyped
  <2> QED BY <2>1
<1>3. PICK w \in Walk : walk' = w
  BY FirstPageTyped
<1>4. /\ w.query = query /\ w.limit = limit /\ w.page = 1 /\ w.first = ids
      /\ w.shown = PageOf(ids, 1, limit)
  BY <1>2, <1>3 DEF GetFirstPage
<1>5. WalkFits(w, ids)
  BY <1>1, <1>4, ListedIsFinite, WalkStarts
<1> QED BY <1>1, <1>3, <1>4, <1>5, ReadFits

\* The pages behind it.
LEMMA NextPageFits ==
  ASSUME IdAssumption, TypeOK, WalkInv, GetNextPage
  PROVE  WalkInv'
<1>1. /\ walk \in Walk /\ walk # None /\ walk.page + 1 \in Pages /\ walk.query \in AnyQuery
      /\ walk.limit \in Limits /\ walk.limit \in Nat \ {0} /\ walk.page \in Nat \ {0}
  BY PageAssumption DEF GetNextPage, TypeOK, Walk
<1> DEFINE query == walk.query
           limit == walk.limit
           page == walk.page + 1
           ids == Listed(query)
<1>2. Paginate(Reader, query, page, limit, ids)
  BY DEF GetNextPage
<1>3. req'[Reader].list = PageOf(ids, page, limit)
  <2>1. req'[Reader] = [pc |-> "count", query |-> query, page |-> page, limit |-> limit,
                        list |-> PageOf(ids, page, limit), seen |-> ids]
    BY <1>1, <1>2, PaginateTyped
  <2> QED BY <2>1
<1>4. PICK v \in Walk : walk' = v
  BY NextPageTyped
<1>5. /\ v.query = query /\ v.limit = limit /\ v.page = page /\ v.first = walk.first
      /\ v.joined = walk.joined /\ v.left = walk.left
      /\ v.shown = walk.shown \o PageOf(ids, page, limit)
  BY <1>1, <1>3, <1>4 DEF GetNextPage, Walk
<1>6. WalkFits(walk, ids)
  BY <1>1 DEF WalkInv
<1>7. walk.shown \in Seq(Nat)
  BY <1>1, IdAssumption, SeqMonotonic DEF Walk
<1>8. ids \in SUBSET Nat /\ IsFiniteSet(ids)
  BY ListedIsFinite
<1>9. WalkFits(v, ids)
  BY <1>1, <1>5, <1>6, <1>7, <1>8, WalkPages
<1> QED BY <1>1, <1>2, <1>4, <1>5, <1>9, ReadFits

\* Requests that change rows leave the client alone.
LEMMA ChangeSparesReader ==
  ASSUME TypeOK, Change
  PROVE  req'[Reader] = req[Reader]
<1>1. \/ \E r \in Reqs \ {Reader} : \E q : req' = [req EXCEPT ![r] = q]
      \/ req' = req
  <2>1. PICK r \in Reqs \ {Reader} :
          \/ \E id \in Ids :
                \/ \E body : Create(id, body) \/ Update(r, id, body)
                \/ DeleteById(r, id, None)
                \/ Brought(r, id)
          \/ Statement(r)
    BY ChangeCases
  <2>2. ASSUME NEW id, NEW body,
               Create(id, body) \/ Update(r, id, body) \/ DeleteById(r, id, None) \/ Brought(r, id)
        PROVE  \/ \E q : req' = [req EXCEPT ![r] = q]
               \/ req' = req
    BY <2>2 DEF Create, Update, DeleteById, Brought, InsertNew, SaveEntity, Proceed, SaveCarried, Await
  <2>3. CASE Statement(r)
    BY <2>3 DEF Statement, SaveLoad, SaveUpdate, SaveInsert, HardDelete, Execute, FailWrite
  <2> QED BY <2>1, <2>2, <2>3
<1> QED BY <1>1, ReaderAssumption DEF TypeOK

\* Rows join the listing the client reads, or leave it.
LEMMA ChangeFits ==
  ASSUME IdAssumption, TypeOK, WalkInv, Change, Follow
  PROVE  WalkInv'
<1>1. req'[Reader] = req[Reader]
  BY ChangeSparesReader
<1>2. CASE walk = None
  <2>1. walk' = None
    BY <1>2 DEF Follow
  <2> QED BY <1>1, <1>2, <2>1 DEF WalkInv, Counting, CountFits
<1>3. CASE walk # None
  <2>1. walk \in Walk
    BY <1>3 DEF TypeOK
  <2>2. PICK query \in AnyQuery : walk.query = query
    BY <2>1 DEF Walk
  <2> DEFINE ids == Listed(query)
             others == Listed(query)'
             joined == walk.joined \/ ~ (others \subseteq ids)
             left == walk.left \/ ~ (ids \subseteq others)
  <2>3. walk' = [walk EXCEPT !.joined = joined, !.left = left]
    BY <1>3, <2>1, <2>2 DEF Follow, Walk
  <2>4. ids \in SUBSET Nat /\ IsFiniteSet(ids) /\ others \in SUBSET Nat /\ IsFiniteSet(others)
    BY ListedIsFinite, ListedIsFiniteNext
  <2>5. WalkFits(walk, ids)
    BY <1>3, <2>2 DEF WalkInv
  <2>6. walk.limit \in Nat \ {0} /\ walk.page + 1 \in Nat \ {0} /\ walk.first \in SUBSET Nat
    <3>1. walk.limit \in Limits /\ walk.page \in Pages /\ walk.first \in SUBSET Ids
      BY <2>1 DEF Walk
    <3>2. walk.limit \in Nat \ {0} /\ walk.page \in Nat \ {0}
      BY <3>1, PageAssumption
    <3>3. \A n \in Nat \ {0} : n + 1 \in Nat \ {0}
      OBVIOUS
    <3>4. walk.first \in SUBSET Nat
      BY <3>1, IdAssumption
    <3> QED BY <3>2, <3>3, <3>4
  <2>7. Skip(walk.page + 1, walk.limit) \in Nat
    BY <2>6, SkipType
  <2>8. PICK v : walk' = v
    OBVIOUS
  <2> HIDE DEF joined, left, ids, others
  <2>9. /\ v.query = query /\ v.limit = walk.limit /\ v.page = walk.page /\ v.first = walk.first
        /\ v.shown = walk.shown /\ v.joined = joined /\ v.left = left
    BY <2>1, <2>2, <2>3, <2>8 DEF Walk
  <2>10. /\ ~v.joined => ~walk.joined /\ others \subseteq ids
         /\ ~v.left => ~walk.left /\ ids \subseteq others
    BY <2>9 DEF joined, left
  <2>11. WalkFits(v, others)
    BY <2>4, <2>5, <2>6, <2>7, <2>9, <2>10, WalkChanges
  <2>12. v # None
    <3>1. v \in Walk \cup {None}
      BY <2>8, FollowTyped
    <3>2. v \in Walk
      <4>1. joined \in BOOLEAN /\ left \in BOOLEAN
        BY DEF joined, left
      <4> QED BY <2>1, <2>3, <2>8, <4>1 DEF Walk
    <3> QED BY <3>2, NoneAssumption
  <2>13. \A k \in AnyQuery : v # None /\ v.query = k => WalkFits(v, Listed(k)')
    BY <2>9, <2>11 DEF others
  <2>14. Counting => CountFits(req[Reader], walk)
    BY DEF WalkInv
  <2>15. ASSUME Counting PROVE CountFits(req[Reader], v)
    <3> DEFINE q == req[Reader]
    <3>1. /\ q.query = walk.query /\ q.page = walk.page /\ q.limit = walk.limit
          /\ q.list = PageOf(q.seen, q.page, q.limit)
          /\ Tells(q) /\ ~walk.left => walk.first \subseteq ToSet(walk.shown)
      BY <2>14, <2>15 DEF CountFits
    <3> HIDE DEF q
    <3>2. Tells(q) /\ ~v.left => v.first \subseteq ToSet(v.shown)
      BY <2>9, <2>10, <3>1
    <3> QED BY <2>2, <2>9, <2>12, <3>1, <3>2 DEF CountFits, q
  <2> QED BY <1>1, <2>8, <2>13, <2>15 DEF WalkInv, Counting
<1> QED BY <1>2, <1>3

LEMMA NextWalks == IdAssumption /\ TypeOK /\ WalkInv /\ [Next]_vars => WalkInv'
<1> SUFFICES ASSUME IdAssumption, TypeOK, WalkInv, [Next]_vars PROVE WalkInv'
  OBVIOUS
<1>1. CASE Change /\ Follow
  BY <1>1, ChangeFits
<1>2. CASE Read
  <2>1. ASSUME NEW limit \in Limits, NEW query \in AnyQuery, GetFirstPage(query, limit)
        PROVE  WalkInv'
    BY <2>1, FirstPageFits
  <2>2. CASE Count(Reader) /\ UNCHANGED walk
    <3>1. req'[Reader].pc # "count" /\ \A k \in AnyQuery : Listed(k)' = Listed(k)
      BY <2>2, ReaderAssumption
         DEF Count, TypeOK, Idle, rows, Listed, Matching, Live, Stored
    <3> QED BY <2>2, <3>1 DEF WalkInv, Counting
  <2> QED BY <1>2, <2>1, <2>2, NextPageFits DEF Read, GetCategories, GetProducts, AnyQuery
<1>3. CASE UNCHANGED vars
  <2>1. \A k \in AnyQuery : Listed(k)' = Listed(k)
    BY <1>3 DEF vars, repository, rows, Listed, Matching, Live, Stored
  <2> QED BY <1>3, <2>1 DEF vars, repository, WalkInv, Counting
<1> QED BY <1>1, <1>2, <1>3 DEF Next

LEMMA InitWalks == CatalogueInit => WalkInv
BY ReaderAssumption DEF CatalogueInit, Init, Idle, WalkInv, Counting

\* The client's page and the listing it is a page of.
LEMMA CountHolds ==
  ASSUME IdAssumption, TypeOK, WalkInv, Counting, NEW q, q = req[Reader],
         NEW ids, ids = Listed(q.query)
  PROVE  /\ q.page \in Nat \ {0} /\ q.limit \in Nat \ {0} /\ q.list \in Seq(Ids)
         /\ q.seen \in SUBSET Nat /\ IsFiniteSet(q.seen)
         /\ ids \in SUBSET Nat /\ IsFiniteSet(ids)
         /\ walk \in Walk /\ CountFits(q, walk) /\ WalkFits(walk, ids)
<1>1. q \in CountRequest
  BY DEF Counting, TypeOK, ReaderOK, Idle
<1>2. CountFits(q, walk) /\ walk # None
  BY DEF WalkInv, CountFits
<1>3. walk \in Walk /\ q.query \in AnyQuery /\ walk.query = q.query
  BY <1>1, <1>2 DEF TypeOK, CountFits, CountRequest
<1>4. WalkFits(walk, ids)
  BY <1>2, <1>3 DEF WalkInv
<1>5. /\ q.page \in Nat \ {0} /\ q.limit \in Nat \ {0} /\ q.list \in Seq(Ids)
      /\ q.seen \in SUBSET Ids
  BY <1>1, PageAssumption DEF CountRequest
<1>6. q.seen \in SUBSET Nat /\ IsFiniteSet(q.seen)
  BY <1>5, IdAssumption, FS_Subset
<1> QED BY <1>2, <1>3, <1>4, <1>5, <1>6, ListedIsFinite

\* A client that stops where it is told there is no next page has missed none.
LEMMA MissesNothing == IdAssumption /\ TypeOK /\ WalkInv => WalkMissesNothing
<1> SUFFICES ASSUME IdAssumption, TypeOK, WalkInv, Counting, LastPage(req[Reader]), ~walk.left
             PROVE  walk.first \subseteq ToSet(walk.shown)
  BY DEF WalkMissesNothing
<1> DEFINE q == req[Reader]
           ids == Listed(q.query)
           next == Skip(q.page + 1, q.limit)
           total == Cardinality(ids)
<1>1. /\ q.page \in Nat \ {0} /\ q.limit \in Nat \ {0} /\ ids \in SUBSET Nat /\ IsFiniteSet(ids)
      /\ CountFits(q, walk) /\ WalkFits(walk, ids)
  BY CountHolds
<1>2. ~ HasNext(Total(q, ids), q.page, q.limit)
  BY DEF LastPage
<1> HIDE DEF q, ids
<1>3. CASE Tells(q)
  BY <1>1, <1>3 DEF CountFits
<1>4. CASE ~Tells(q)
  <2>1. total \in Nat /\ next \in Nat
    <3>1. q.page + 1 \in Nat \ {0}
      BY <1>1
    <3> QED BY <1>1, <3>1, FS_CardinalityType, SkipType
  <2>2. Total(q, ids) = total
    BY <1>4 DEF Total
  <2>3. ~ (next < total)
    BY <1>1, <1>2, <2>1, <2>2, NextPageBegins
  <2>4. /\ walk.first \subseteq ids
        /\ \A id \in walk.first \ ToSet(walk.shown) : Place(ids, id) >= next
    BY <1>1 DEF WalkFits, CountFits
  <2>5. \A id \in ids : Place(ids, id) \in 0 .. total - 1
    BY <1>1, ListingLists
  <2> HIDE DEF next, total
  <2>6. ASSUME NEW id \in walk.first, id \notin ToSet(walk.shown) PROVE FALSE
    <3>1. Place(ids, id) \in 0 .. total - 1 /\ Place(ids, id) >= next
      BY <2>4, <2>5, <2>6
    <3> QED BY <2>1, <2>3, <3>1
  <2> QED BY <2>6
<1> QED BY <1>3, <1>4

\* A client that reads pages until there is no next one has seen every row that
\* was there when it began and stayed, for any listing and any page length.
THEOREM WalksMissNothing == Spec => []WalkMissesNothing
BY IdAssumption, InitTyped, NextTyped, InitWalks, NextWalks, MissesNothing, PTL DEF Spec

\* As many rows as places in the sequence, if no row is in two places.
LEMMA RepeatsNothing == IdAssumption /\ TypeOK /\ WalkInv => WalkRepeatsNothing
<1> SUFFICES ASSUME IdAssumption, TypeOK, WalkInv, walk # None, ~walk.joined
             PROVE  Cardinality(ToSet(walk.shown)) = Len(walk.shown)
  BY DEF WalkRepeatsNothing
<1> DEFINE s == walk.shown
           n == Len(s)
<1>1. walk \in Walk /\ walk.query \in AnyQuery
  BY DEF TypeOK, Walk
<1>2. s \in Seq(Ids) /\ n \in Nat /\ DOMAIN s = 1 .. n
  BY <1>1 DEF Walk
<1>3. \A i, j \in DOMAIN s : s[i] = s[j] => i = j
  BY <1>1 DEF WalkInv, WalkFits
<1> HIDE DEF s, n
<1>4. s \in [1 .. n -> ToSet(s)] /\ \A id \in ToSet(s) : \E i \in 1 .. n : s[i] = id
  BY <1>2 DEF ToSet, s
<1>5. s \in Bijection(1 .. n, ToSet(s))
  BY <1>2, <1>3, <1>4 DEF Bijection, Injection, IsInjective, Surjection
<1>6. Cardinality(ToSet(s)) = n
  BY <1>2, <1>5, FS_CountingElements DEF ExistsBijection
<1> QED BY <1>6 DEF s, n

\* It has seen no row twice if none joined the listing meanwhile, whatever rows
\* left it.
THEOREM WalksRepeatNothing == Spec => []WalkRepeatsNothing
BY IdAssumption, InitTyped, NextTyped, InitWalks, NextWalks, RepeatsNothing, PTL DEF Spec

\* The total that is counted, or told by the page, agrees with the page.
LEMMA PagesAgree == IdAssumption /\ TypeOK /\ WalkInv => ListingPagesAgree
<1> SUFFICES ASSUME IdAssumption, TypeOK, WalkInv, Counting
             PROVE  PageAgrees(req[Reader], Listed(req[Reader].query))
  BY DEF ListingPagesAgree
<1> DEFINE q == req[Reader]
           ids == Listed(q.query)
           from == Skip(q.page, q.limit)
           beyond == Skip(q.page + 1, q.limit)
           next == HasNext(Total(q, ids), q.page, q.limit)
<1>1. /\ q.page \in Nat \ {0} /\ q.limit \in Nat \ {0} /\ q.list \in Seq(Ids)
      /\ ids \in SUBSET Nat /\ IsFiniteSet(ids) /\ CountFits(q, walk)
  BY CountHolds
<1>2. q.list = PageOf(q.seen, q.page, q.limit)
  BY <1>1 DEF CountFits
<1> HIDE DEF q, ids
<1>3. /\ from \in Nat /\ beyond = from + q.limit /\ beyond \in Nat /\ q.page + 1 \in Nat \ {0}
      /\ Len(q.list) \in Nat /\ Cardinality(ids) \in Nat
  <2>1. q.page + 1 \in Nat \ {0} /\ Len(q.list) \in Nat
    BY <1>1
  <2>2. from \in Nat /\ beyond \in Nat
    BY <1>1, <2>1, SkipType
  <2> QED BY <1>1, <2>1, <2>2, PagesAdjoin, FS_CardinalityType
<1>4. Total(q, ids) \in Nat
  BY <1>3 DEF Total
<1>5. next <=> beyond < Total(q, ids)
  BY <1>1, <1>4, NextPageBegins
<1>6. ASSUME ids = q.seen
      PROVE  next <=> PageOf(ids, q.page + 1, q.limit) # <<>>
  <2>1. Total(q, ids) = Cardinality(ids)
    <3>1. CASE Tells(q)
      <4>1. from + Len(q.list) = Cardinality(ids)
        BY <1>1, <1>2, <1>6, <3>1, PageTells DEF Tells
      <4> QED BY <3>1, <4>1 DEF Total
    <3>2. CASE ~Tells(q)
      BY <3>2 DEF Total
    <3> QED BY <3>1, <3>2
  <2>2. PageOf(ids, q.page + 1, q.limit) # <<>> <=> beyond < Cardinality(ids)
    <3> DEFINE k == q.page + 1
    <3>1. k \in Nat \ {0}
      BY <1>3
    <3> HIDE DEF k
    <3>2. PageOf(ids, k, q.limit) # <<>> <=> Skip(k, q.limit) < Cardinality(ids)
      BY <1>1, <3>1, PageIsThere
    <3> QED BY <3>2 DEF k
  <2> QED BY <1>5, <2>1, <2>2
<1>7. ASSUME Len(q.list) \in 1 .. q.limit - 1 PROVE ~next
  <2>1. Tells(q)
    <3>1. Len(q.list) < q.limit /\ q.list # <<>>
      BY <1>1, <1>3, <1>7
    <3> QED BY <3>1 DEF Tells
  <2>2. Total(q, ids) = from + Len(q.list)
    BY <2>1 DEF Total
  <2> HIDE DEF from, beyond
  <2>3. ~(beyond < from + Len(q.list))
    BY <1>1, <1>3, <1>7
  <2> QED BY <1>5, <2>2, <2>3
<1> QED BY <1>6, <1>7 DEF PageAgrees, q, ids

\* A page says there is a next one exactly if there is, unless the listing
\* changed between its two queries; a page that is not full never does.
THEOREM ListingsAgree == Spec => []ListingPagesAgree
BY IdAssumption, InitTyped, NextTyped, InitWalks, NextWalks, PagesAgree, PTL DEF Spec

=============================================================================
