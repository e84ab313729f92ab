----------------------------- MODULE Catalogue ------------------------------
(***************************************************************************)
(* Categories and the products that belong to them: created, changed and   *)
(* deleted by any signed-in user, listed page by page.  The ids of both    *)
(* tables share one db.  Clients that read change nothing, so one of them  *)
(* is followed, from its first page on.                                    *)
(***************************************************************************)
EXTENDS Repository

CONSTANTS
    Reader,         \* the request slot of the client that reads; the others write
    Categories,     \* ids of categories
    Names,          \* names, which stand for the fields no rule is about too
    CategoryBodies, \* what clients ask a category to be
    ProductBodies,  \* what clients ask a product to be
    Prices,         \* prices of products and bounds of filters
    Queries,        \* filters of product listings that clients ask for
    AllCategories,  \* model value: the listing of categories, which has no filter
    Limits,         \* page lengths clients ask for
    Pages           \* page numbers clients ask for

ASSUME ReaderAssumption == Reader \in Reqs
ASSUME CategoryAssumption == Categories \subseteq Ids
ASSUME PriceAssumption == Prices \subseteq Nat
ASSUME PageAssumption == Limits \cup Pages \subseteq Nat \ {0} /\ 1 \in Pages

\* The bodies that pass validation: all fields are required, in updates too.  The
\* pipe has no whitelist: of a category the fields are picked by name, but a
\* product is made of the body as it came, with an id and a deletedAt if clients
\* send them along.  None stands for what is not sent.
CategoryBody == [name : Names]
ProductBody ==
    [name : Names, price : Prices, category : Categories,
     id : (Ids \ Categories) \cup {None}, deleted : BOOLEAN \cup {None}]
ASSUME BodyAssumption ==
    CategoryBodies \subseteq CategoryBody /\ ProductBodies \subseteq ProductBody

\* GetProductsQuery: every filter is optional.
ProductsQuery ==
    [category : Categories \cup {None}, minPrice : Prices \cup {None},
     maxPrice : Prices \cup {None}]
ASSUME QueryAssumption == Queries \subseteq ProductsQuery /\ AllCategories \notin Queries
AnyQuery == Queries \cup {AllCategories}

\* What is followed of the client that reads.
Walk == [query : AnyQuery, limit : Limits, page : Pages, shown : Seq(Ids), first : SUBSET Ids,
         joined : BOOLEAN, left : BOOLEAN]

VARIABLE walk \* history: the pages the followed client has read, or None

vars == <<repository, walk>>

Products == Ids \ Categories

\* The columns that the entity has which toEntity makes of a body, and the row
\* that it makes.
Sent(body) == {c \in DOMAIN body \ {"id"} : body[c] # None}
Row(body) ==
    [c \in (DOMAIN body \ {"id"}) \cup {"deleted"} |-> IF c \in Sent(body) THEN body[c] ELSE FALSE]

CategoryRow == [name : Names, deleted : {FALSE}]
ProductRow == [name : Names, price : Prices, category : Categories, deleted : BOOLEAN]
Columns == {"name", "price", "category", "deleted"}
Rows(id) == IF id \in Categories THEN CategoryRow ELSE ProductRow

ASSUME NoneAssumption ==
    /\ None \notin Ids \cup Prices /\ None \notin Names /\ None \notin BOOLEAN
    /\ None \notin CategoryRow \cup ProductRow \cup Walk

CatalogueInit == Init /\ walk = None

-----------------------------------------------------------------------------
(* Changes *)

\* What the database insists on: names of categories are unique, and the
\* category of a product is there as long as the product is.
UniqueNames(table) ==
    \A c, d \in Categories :
        c # d /\ table[c] # None /\ table[d] # None => table[c].name # table[d].name
CategoriesExist(table) ==
    \A p \in Products : table[p] # None => table[table[p].category] # None
Consistent(table) == UniqueNames(table) /\ CategoriesExist(table)

Create(id, body) ==
    /\ Consistent([db EXCEPT ![id] = Row(body)])
    /\ InsertNew(id, Row(body))

CreateCategory(c, body) == Create(c, body)
CreateProduct(p, body) == body.id = None /\ Create(p, body)

\* A product with an id is saved to the row of that id.
CreateProductAs(r, body) ==
    /\ body.id # None
    /\ SaveCarried(r, body.id, None, Row(body), Sent(body))

\* Mutated form: the price is not merged.
MergedWithoutPrice(row, body) ==
    [c \in DOMAIN row |-> IF c \in Sent(body) \ {"price"} THEN body[c] ELSE row[c]]

\* Mutated form: what the client sends takes the place of the row.
MergedAnew(row, body) == body

Merged(row, body) == [c \in DOMAIN row |-> IF c \in Sent(body) THEN body[c] ELSE row[c]]

\* findOneByOrFail, merge and save
Update(r, id, body) ==
    /\ id \in Live
    /\ SaveEntity(r, id, None, Merged(db[id], body), Visible(Row(body)))

\* Mutated form: what the client sends is saved without a look at the row.
UpdateUnread(r, id, body) ==
    /\ Await(r, "load", id, None, Row(body), Sent(body), Visible(Row(body)))
    /\ UNCHANGED <<expected, disturbed, carried>>

UpdateCategory(r, c, body) == Update(r, c, body)
UpdateProduct(r, p, body) == body.id \in {None, p} /\ Update(r, p, body)

\* merge takes another id over too, and the row of that id is written to.
UpdateProductAs(r, p, body) ==
    /\ p \in Live /\ body.id \notin {None, p}
    /\ SaveCarried(r, body.id, None, Merged(db[p], body), DOMAIN db[p])

DeleteCategory(r, c) == DeleteById(r, c, None)
DeleteProduct(r, p) == DeleteById(r, p, None)

\* What the awaits of these requests stand for.
Statement(r) ==
    LET accepted == Consistent(TableAfter(r))
    IN  \/ SaveLoad(r)
        \/ SaveUpdate(r, accepted) \/ SaveInsert(r, accepted) \/ HardDelete(r, accepted)
        \/ FailWrite(r)

-----------------------------------------------------------------------------
(* Listings *)

\* A bound of 0 is no bound.
PriceWithin(query, price) ==
    /\ query.minPrice \notin {None, 0} => query.minPrice <= price
    /\ query.maxPrice \notin {None, 0} => price <= query.maxPrice

\* findProductsWithFilters
Matching(query) ==
    {p \in Products \cap Live :
        /\ query.category # None => db[p].category = query.category
        /\ PriceWithin(query, db[p].price)}

Listed(query) ==
    IF query = AllCategories THEN Categories \cap Live ELSE Matching(query)

\* The client asks for a first page, or for the one behind what it read last.
GetFirstPage(query, limit) ==
    /\ Paginate(Reader, query, 1, limit, Listed(query))
    /\ walk' = [query |-> query, limit |-> limit, page |-> 1, shown |-> req'[Reader].list,
                first |-> Listed(query), joined |-> FALSE, left |-> FALSE]

GetCategories(limit) == GetFirstPage(AllCategories, limit)
GetProducts(query, limit) == GetFirstPage(query, limit)

GetNextPage ==
    /\ walk # None /\ walk.page + 1 \in Pages
    /\ Paginate(Reader, walk.query, walk.page + 1, walk.limit, Listed(walk.query))
    /\ walk' = [walk EXCEPT !.page = @ + 1, !.shown = @ \o req'[Reader].list]

\* History: rows that join the listing the client reads, or leave it.
Follow ==
    IF walk = None
    THEN UNCHANGED walk
    ELSE \E query \in {walk.query} :
            walk' = [walk EXCEPT !.joined = @ \/ ~ (Listed(query)' \subseteq Listed(query)),
                                 !.left = @ \/ ~ (Listed(query) \subseteq Listed(query)')]

-----------------------------------------------------------------------------
ChangeCategory(r, c) ==
    \/ \E body \in CategoryBodies : CreateCategory(c, body) \/ UpdateCategory(r, c, body)
    \/ DeleteCategory(r, c)

ChangeProduct(r, p) ==
    \/ \E body \in ProductBodies :
          CreateProduct(p, body) \/ UpdateProduct(r, p, body) \/ UpdateProductAs(r, p, body)
    \/ DeleteProduct(r, p)

Change ==
    \E r \in Reqs \ {Reader} :
        \/ \E c \in Categories : ChangeCategory(r, c)
        \/ \E p \in Products : ChangeProduct(r, p)
        \/ \E body \in ProductBodies : CreateProductAs(r, body)
        \/ Statement(r)

Read ==
    \/ \E limit \in Limits :
          \/ GetCategories(limit)
          \/ \E query \in Queries : GetProducts(query, limit)
    \/ GetNextPage
    \/ Count(Reader) /\ UNCHANGED walk

Next ==
    \/ Change /\ Follow
    \/ Read

Spec == CatalogueInit /\ [][Next]_vars

-----------------------------------------------------------------------------
(* Properties *)

WriteRequest(id) ==
    [pc : Saves \cup {"delete"}, id : {id}, actor : {None}, entity : Rows(id) \cup {None},
     changed : SUBSET Columns, asked : Rows(id) \cup {None}]
CountRequest ==
    [pc : {"count"}, query : AnyQuery, page : Pages, limit : Limits, list : Seq(Ids),
     seen : SUBSET Ids]

TableOK(table) ==
    /\ table = [id \in Ids |-> table[id]]
    /\ \A id \in Ids : table[id] \in Rows(id) \cup {None}
WriterOK(q) ==
    \/ q = Idle
    \/ \E id \in Ids : q \in WriteRequest(id) /\ (q.pc \in Saves => q.entity # None)
ReaderOK(q) == q = Idle \/ q \in CountRequest

\* Rows have the columns of their table; a request in flight belongs to one, and
\* a save has an entity to write.
TypeOK ==
    /\ TableOK(db) /\ TableOK(expected)
    /\ req = [r \in Reqs |-> req[r]]
    /\ ReaderOK(req[Reader]) /\ \A r \in Reqs \ {Reader} : WriterOK(req[r])
    /\ disturbed \subseteq Ids /\ carried \subseteq Ids /\ removed \subseteq Ids
    /\ overtaken \subseteq Reqs
    /\ walk \in Walk \cup {None}

Counting == req[Reader].pc = "count"
LastPage(q) == ~ HasNext(Total(q, Listed(q.query)), q.page, q.limit)

\* Each page agrees with the total that is counted after it.
ListingPagesAgree == Counting => PageAgrees(req[Reader], Listed(req[Reader].query))

\* A client that reads pages until there is no next one has seen every row that
\* was there when it began, whatever rows joined meanwhile, unless one left.
WalkMissesNothing ==
    Counting /\ LastPage(req[Reader]) /\ ~walk.left => walk.first \subseteq ToSet(walk.shown)

\* It has seen no row twice, whatever rows left meanwhile, unless one joined.
WalkRepeatsNothing ==
    walk # None /\ ~walk.joined => Cardinality(ToSet(walk.shown)) = Len(walk.shown)

-----------------------------------------------------------------------------
(* The inductive invariant of the client that reads *)

\* What client w has seen of the listing of ids by now.  Of the rows that were
\* there when it began, those it has not seen lie behind its page, unless rows
\* left; those it has seen lie before the end of its page, unless rows joined.
WalkFits(w, ids) ==
    /\ ~w.left =>
          /\ w.first \subseteq ids
          /\ \A id \in w.first \ ToSet(w.shown) : Place(ids, id) >= Skip(w.page + 1, w.limit)
    /\ ~w.joined =>
          /\ \A i, j \in DOMAIN w.shown : w.shown[i] = w.shown[j] => i = j
          /\ \A id \in ToSet(w.shown) \cap ids : Place(ids, id) < Skip(w.page + 1, w.limit)

\* The page that client w awaits the total of.
CountFits(q, w) ==
    /\ w # None /\ q.query = w.query /\ q.page = w.page /\ q.limit = w.limit
    /\ q.list = PageOf(q.seen, q.page, q.limit)
    /\ Tells(q) /\ ~w.left => w.first \subseteq ToSet(w.shown)

WalkInv ==
    /\ \A query \in AnyQuery : walk # None /\ walk.query = query => WalkFits(walk, Listed(query))
    /\ Counting => CountFits(req[Reader], walk)

=============================================================================
