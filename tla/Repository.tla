----------------------------- MODULE Repository -----------------------------
(***************************************************************************)
(* GenericTypeOrmRepository: the statements that finds, saves and          *)
(* deletions of rows are made of, and pages of a listing.  The services of *)
(* posts and of the catalogue are built on it.  One await is one           *)
(* statement: between two statements of a request the statements of other  *)
(* requests run.  A request that is refused before it writes (the row is   *)
(* not there, the user may not) changes nothing and is not a step.         *)
(***************************************************************************)
EXTENDS Listings

CONSTANTS
    Ids,   \* ids of rows, in the order of the primary key
    Reqs,  \* slots for requests the process handles at a time
    None   \* model value: no row, nobody

ASSUME IdAssumption == Ids \subseteq Nat /\ IsFiniteSet(Ids)

VARIABLES
    db,        \* the row of each id, or None
    req,       \* what each request awaits
    expected,  \* history: the row that the last answered request should have left,
               \* of ids that are not disturbed
    disturbed, \* history: ids of which requests overlapped or failed
    carried,   \* history: ids that clients brought along for a save
    removed,   \* history: ids of rows that a statement took out of sight
    overtaken  \* history: saves in flight whose row was taken out of sight

rows == <<db, expected, disturbed, carried, removed, overtaken>>
repository == <<rows, req>>

Idle == [pc |-> "idle"]
Saves == {"load", "update", "insert"}
Deletions == {"softLoad", "softDelete", "delete"}

Init ==
    /\ db = [id \in Ids |-> None]
    /\ req = [r \in Reqs |-> Idle]
    /\ expected = db
    /\ disturbed = {} /\ carried = {} /\ removed = {} /\ overtaken = {}

-----------------------------------------------------------------------------
(* Rows *)

Stored == {id \in Ids : db[id] # None}

\* What a find sees unless it asks for soft-deleted rows too.
Live == {id \in Stored : ~db[id].deleted}

\* A row as a find shows it.
Visible(row) == IF row # None /\ ~row.deleted THEN row ELSE None

Differing(entity, row, columns) == {c \in columns : entity[c] # row[c]}
Overwritten(row, entity, columns) ==
    [c \in DOMAIN row |-> IF c \in columns THEN entity[c] ELSE row[c]]

\* Mutated form: a row that is soft-deleted again comes back.
SoftDeletedOrBack(row) == [row EXCEPT !.deleted = ~@]

SoftDeleted(row) == [row EXCEPT !.deleted = TRUE]

\* The row that the statement request q awaits leaves in the place of row.
RowAfter(q, row) ==
    CASE q.pc = "update" /\ row # None -> Overwritten(row, q.entity, q.changed)
      [] q.pc = "insert" /\ row = None -> q.entity
      [] q.pc = "softDelete" /\ row # None -> SoftDeleted(row)
      [] q.pc = "delete" -> None
      [] OTHER -> row
TableAfter(r) == [db EXCEPT ![req[r].id] = RowAfter(req[r], @)]

-----------------------------------------------------------------------------
(* Requests that change a row *)

Busy(r, id) == req[r].pc \in Saves \cup Deletions /\ req[r].id = id
Saving(r, id) == req[r].pc \in Saves /\ req[r].id = id
Quiet(id) == \A r \in Reqs : ~Busy(r, id)

\* save of a new entity without an id: an INSERT under a fresh uuid.  One whose
\* answer is lost is one that was made.
InsertNew(id, row) ==
    /\ id \notin Stored \cup removed \cup carried
    /\ db' = [db EXCEPT ![id] = row]
    /\ expected' = [expected EXCEPT ![id] = Visible(row)]
    /\ UNCHANGED <<req, disturbed, carried, removed, overtaken>>

\* Request r goes on to await pc for row id, with the columns its entity has.
\* What the client asked the row to be is kept for the history.
Await(r, pc, id, actor, entity, columns, asked) ==
    /\ req[r] = Idle
    /\ req' = [req EXCEPT ![r] = [pc |-> pc, id |-> id, actor |-> actor,
                   entity |-> entity, changed |-> columns, asked |-> asked]]
    /\ UNCHANGED <<db, removed, overtaken>>

\* save of a new entity with an id that the client has sent along: no uuid is
\* made, and the row of that id, if there is one, is what save writes to.
SaveCarried(r, id, actor, entity, columns) ==
    /\ Await(r, "load", id, actor, entity, columns, Visible(entity))
    /\ carried' = carried \cup {id}
    /\ disturbed' = disturbed \cup {id}
    /\ expected' = [expected EXCEPT ![id] = None]

\* findByIdOrThrow has found the row.
Proceed(r, pc, id, actor, entity, asked) ==
    /\ id \in Live
    /\ Await(r, pc, id, actor, entity, DOMAIN db[id], asked)
    /\ disturbed' = IF Quiet(id) THEN disturbed \ {id} ELSE disturbed \cup {id}
    /\ expected' = [expected EXCEPT ![id] = None]
    /\ UNCHANGED carried

SaveEntity(r, id, actor, entity, asked) == Proceed(r, "load", id, actor, entity, asked)
SoftRemove(r, id, actor) == Proceed(r, "softLoad", id, actor, None, None)
DeleteById(r, id, actor) == Proceed(r, "delete", id, actor, None, None)

\* save selects the row by its id, soft-deleted or not.  No row makes it an
\* INSERT, any other an UPDATE of the columns the entity has and that differ.
SaveLoad(r) ==
    /\ req[r].pc = "load"
    /\ LET row == db[req[r].id]
           changed == Differing(req[r].entity, row, req[r].changed)
       IN  req' = [req EXCEPT ![r] =
               IF row = None THEN [@ EXCEPT !.pc = "insert"]
               ELSE [@ EXCEPT !.pc = "update", !.changed = changed]]
    /\ UNCHANGED rows

\* softRemove selects the row too and does nothing for one that is gone.
SoftRemoveLoad(r) ==
    /\ req[r].pc = "softLoad"
    /\ req' = [req EXCEPT ![r] =
           IF db[req[r].id] = None THEN Idle ELSE [@ EXCEPT !.pc = "softDelete"]]
    /\ UNCHANGED rows

\* History: the end of request r, whose statement may take the row out of sight
\* under the saves of others.
Ends(r, runs) ==
    LET id == req[r].id
        takes == runs /\ id \in Live /\ Visible(RowAfter(req[r], db[id])) = None
    IN  /\ removed' = IF takes THEN removed \cup {id} ELSE removed
        /\ overtaken' =
               (IF takes THEN overtaken \cup {q \in Reqs : Saving(q, id)} ELSE overtaken) \ {r}
        /\ UNCHANGED carried

\* The database runs the statement the request awaits and the request is
\* answered; a statement that breaks a constraint is answered with a 500.
Execute(r, pc, accepted) ==
    /\ req[r].pc = pc
    /\ req' = [req EXCEPT ![r] = Idle]
    /\ Ends(r, accepted)
    /\ IF accepted
       THEN /\ db' = TableAfter(r)
            /\ expected' = [expected EXCEPT ![req[r].id] =
                   IF req[r].id \in disturbed THEN None ELSE req[r].asked]
            /\ UNCHANGED disturbed
       ELSE /\ disturbed' = disturbed \cup {req[r].id}
            /\ expected' = [expected EXCEPT ![req[r].id] = None]
            /\ UNCHANGED db

SaveUpdate(r, accepted) == Execute(r, "update", accepted)
SoftDelete(r) == Execute(r, "softDelete", TRUE)
HardDelete(r, accepted) == Execute(r, "delete", accepted)

\* Another INSERT of the same id may have been quicker.
SaveInsert(r, accepted) ==
    Execute(r, "insert", accepted /\ db[req[r].id] = None)

\* A call fails, or the process stops: the statement may have run all the same.
FailWrite(r) ==
    /\ req[r].pc \in Saves \cup Deletions
    /\ \/ Ends(r, FALSE) /\ UNCHANGED db
       \/ /\ req[r].pc \notin {"load", "softLoad"}
          /\ Ends(r, TRUE) /\ db' = TableAfter(r)
    /\ req' = [req EXCEPT ![r] = Idle]
    /\ disturbed' = disturbed \cup {req[r].id}
    /\ expected' = [expected EXCEPT ![req[r].id] = None]

-----------------------------------------------------------------------------
(* Pages *)

\* findAndCount: the rows of the page first.
Paginate(r, query, page, limit, ids) ==
    /\ req[r] = Idle
    /\ req' = [req EXCEPT ![r] = [pc |-> "count", query |-> query, page |-> page,
                   limit |-> limit, list |-> PageOf(ids, page, limit), seen |-> ids]]
    /\ UNCHANGED rows

\* Then the number of all rows: a query of its own, unless a page that is not
\* full tells it.
Tells(q) == Len(q.list) < q.limit /\ (q.list # <<>> \/ q.page = 1)
Total(q, ids) ==
    IF Tells(q)
    THEN Skip(q.page, q.limit) + Len(q.list)
    ELSE Cardinality(ids)

Count(r) ==
    /\ req[r].pc = "count"
    /\ req' = [req EXCEPT ![r] = Idle]
    /\ UNCHANGED rows

-----------------------------------------------------------------------------
(* Properties that the services built on it are checked for *)

Shown(id) == Visible(db[id])

\* What the last answered request made of a row is what finds show of it,
\* unless requests of that row overlapped, one failed or a client had brought its
\* id along since.
AnsweredIsShown ==
    \A id \in Ids \ disturbed : Quiet(id) => Shown(id) = expected[id]

\* A row that was deleted comes back only by a save that was under way already
\* when it was deleted: what is read, checked or begun afterwards does not
\* restore it, and neither does a second deletion, whatever fails in between.
\* The row of an id that clients brought along is theirs to write at any time.
DeletedStaysDeleted ==
    [][\A id \in removed \ carried : id \notin Live /\ id \in Live' =>
           \E r \in overtaken : Saving(r, id)]_repository

\* The answer that request q is about to get agrees with itself: if no row was
\* added or taken away since its page was read, there is a next page exactly
\* if the listing goes on behind this one; a page that is not full is the last
\* one whatever happened in between.
PageAgrees(q, ids) ==
    LET next == HasNext(Total(q, ids), q.page, q.limit)
    IN  /\ ids = q.seen => (next <=> PageOf(ids, q.page + 1, q.limit) # <<>>)
        /\ Len(q.list) \in 1 .. q.limit - 1 => ~next

-----------------------------------------------------------------------------
(* The inductive invariant of AnsweredIsShown *)

\* What the statements of request q leave of the row, if nobody else touches
\* it, is what the client asked for.
AsAsked(q, row) ==
    /\ row # None /\ ~row.deleted
    /\ q.pc \in Saves => q.pc # "insert" /\ q.asked = Visible(q.entity)
    /\ q.pc = "load" => q.changed = DOMAIN row
    /\ q.pc = "update" => q.changed = Differing(q.entity, row, DOMAIN row)
    /\ q.pc \in Deletions => q.asked = None

\* A row that requests neither overlapped on nor failed on is what the last
\* answer said, or has a single request at work that does as it was asked.
ShownInv ==
    /\ expected = [id \in Ids |-> expected[id]]
    /\ \A id \in Ids \ disturbed :
          /\ Quiet(id) => Shown(id) = expected[id]
          /\ \A r \in Reqs : Busy(r, id) =>
                AsAsked(req[r], db[id]) /\ \A s \in Reqs \ {r} : ~Busy(s, id)

-----------------------------------------------------------------------------
(* The inductive invariant of DeletedStaysDeleted *)

\* Who is about to save a row that was deleted had read it before.
DeletedInv ==
    \A id \in removed \ carried : id \notin Live =>
        \A r \in Reqs : Saving(r, id) => r \in overtaken

=============================================================================
