--------------------------- MODULE RepositoryProofs --------------------------
(***************************************************************************)
(* What finds show of a row is what the last answer said of it, unless     *)
(* requests met on that row, and a row that was deleted comes back only by *)
(* a save that the deletion met: the arguments that posts and the          *)
(* catalogue share.                                                        *)
(***************************************************************************)
EXTENDS Repository, ListingsProofs

\* A request that writes carries what a write needs.
IsWrite(q) ==
    /\ q = [pc |-> q.pc, id |-> q.id, actor |-> q.actor, entity |-> q.entity,
            changed |-> q.changed, asked |-> q.asked]
    /\ q.id \in Ids
Writes(r) == req[r].pc \in Saves \cup Deletions

\* An entity to save has the columns of the row it is to overwrite.
SameColumns(entity, row) ==
    /\ "deleted" \in DOMAIN row
    /\ row = [c \in DOMAIN row |-> row[c]] /\ entity = [c \in DOMAIN row |-> entity[c]]

\* What the tables of posts and of the catalogue have in common.
WritesFit ==
    /\ db = [id \in Ids |-> db[id]] /\ req = [r \in Reqs |-> req[r]]
    /\ \A r \in Reqs : Writes(r) => IsWrite(req[r])
    /\ \A id \in Ids : db[id] # None => SameColumns(db[id], db[id])
    /\ \A r \in Reqs : req[r].pc \in Saves =>
          /\ req[r].entity # None
          /\ db[req[r].id] # None => SameColumns(req[r].entity, db[req[r].id])

-----------------------------------------------------------------------------
(* Steps *)

\* A step of request r about row id: what is left to show is about that row,
\* if the step leaves it undisturbed.
LEMMA RowStep ==
  ASSUME WritesFit, ShownInv, NEW r \in Reqs, NEW q, req' = [req EXCEPT ![r] = q],
         NEW id \in Ids, NEW row, NEW wanted,
         db' = [db EXCEPT ![id] = row], expected' = [expected EXCEPT ![id] = wanted],
         disturbed \ {id} \subseteq disturbed',
         \A k \in Ids \ {id} : ~Busy(r, k),
         q.pc \in Saves \cup Deletions => q.id = id,
         id \notin disturbed' =>
            /\ \A s \in Reqs \ {r} : ~Busy(s, id)
            /\ IF q.pc \in Saves \cup Deletions THEN AsAsked(q, row)
               ELSE wanted = Visible(row)
  PROVE  ShownInv'
<1>1. /\ req'[r] = q
      /\ \A s \in Reqs \ {r} : req'[s] = req[s]
      /\ expected' = [k \in Ids |-> expected'[k]]
      /\ db'[id] = row /\ expected'[id] = wanted
      /\ \A k \in Ids \ {id} : db'[k] = db[k] /\ expected'[k] = expected[k]
  BY DEF WritesFit, ShownInv
<1>2. \A s \in Reqs \ {r}, k \in Ids : Busy(s, k)' <=> Busy(s, k)
  BY <1>1 DEF Busy
<1>3. \A k \in Ids : Busy(r, k)' <=> q.pc \in Saves \cup Deletions /\ k = id
  BY <1>1 DEF Busy
<1>4. ASSUME NEW k \in Ids \ {id}, k \notin disturbed'
      PROVE  /\ Quiet(k)' => Shown(k)' = expected'[k]
             /\ \A s \in Reqs : Busy(s, k)' =>
                   AsAsked(req'[s], db'[k]) /\ \A t \in Reqs \ {s} : ~Busy(t, k)'
  <2>1. Quiet(k)' <=> Quiet(k)
    BY <1>2, <1>3 DEF Quiet
  <2>2. Shown(k)' = Shown(k)
    BY <1>1 DEF Shown, Visible
  <2>3. k \in Ids \ disturbed
    BY <1>4
  <2>4. ASSUME NEW s \in Reqs, Busy(s, k)'
        PROVE  AsAsked(req'[s], db'[k]) /\ \A t \in Reqs \ {s} : ~Busy(t, k)'
    <3>1. s # r /\ Busy(s, k)
      BY <1>2, <1>3, <2>4
    <3> QED BY <1>1, <1>2, <1>3, <2>3, <3>1 DEF ShownInv
  <2> QED BY <1>1, <2>1, <2>2, <2>3, <2>4 DEF ShownInv
<1>5. ASSUME id \notin disturbed'
      PROVE  /\ Quiet(id)' => Shown(id)' = expected'[id]
             /\ \A s \in Reqs : Busy(s, id)' =>
                   AsAsked(req'[s], db'[id]) /\ \A t \in Reqs \ {s} : ~Busy(t, id)'
  <2>1. \A s \in Reqs \ {r} : ~Busy(s, id)'
    BY <1>2, <1>5
  <2>2. Shown(id)' = Visible(row)
    BY <1>1 DEF Shown, Visible
  <2> QED BY <1>1, <1>3, <1>5, <2>1, <2>2 DEF Quiet
<1> QED BY <1>1, <1>4, <1>5 DEF ShownInv

\* A request that writes nothing, before or after.
LEMMA ReadStep ==
  ASSUME WritesFit, ShownInv, NEW r \in Reqs, NEW q, req' = [req EXCEPT ![r] = q],
         req[r].pc \notin Saves \cup Deletions, q.pc \notin Saves \cup Deletions,
         UNCHANGED <<db, expected, disturbed>>
  PROVE  ShownInv'
<1>1. req'[r] = q /\ \A s \in Reqs \ {r} : req'[s] = req[s]
  BY DEF WritesFit
<1>2. \A s \in Reqs, k \in Ids : Busy(s, k)' <=> Busy(s, k)
  BY <1>1 DEF Busy
<1>3. \A k \in Ids : (Quiet(k)' <=> Quiet(k)) /\ Shown(k)' = Shown(k)
  BY <1>2 DEF Quiet, Shown, Visible
<1>4. \A s \in Reqs, k \in Ids : Busy(s, k) => req'[s] = req[s]
  BY <1>1 DEF Busy
<1> QED BY <1>2, <1>3, <1>4 DEF ShownInv

\* A find sees the row as it is shown; a request that meets another disturbs it.
LEMMA ProceedShown ==
  ASSUME WritesFit, ShownInv, NEW r \in Reqs, NEW id \in Ids, NEW pc \in {"load", "softLoad", "delete"},
         NEW actor, NEW entity, NEW asked, Proceed(r, pc, id, actor, entity, asked),
         asked = IF pc = "load" THEN Visible(entity) ELSE None
  PROVE  ShownInv'
<1> DEFINE q == [pc |-> pc, id |-> id, actor |-> actor, entity |-> entity,
                 changed |-> DOMAIN db[id], asked |-> asked]
<1>1. /\ req' = [req EXCEPT ![r] = q] /\ db' = db /\ expected' = [expected EXCEPT ![id] = None]
      /\ db[id] # None /\ ~db[id].deleted /\ req[r] = Idle
      /\ disturbed' = IF Quiet(id) THEN disturbed \ {id} ELSE disturbed \cup {id}
  BY DEF Proceed, Await, Live, Stored
<1>2. q.pc = pc /\ q.id = id /\ q.entity = entity /\ q.asked = asked /\ q.changed = DOMAIN db[id]
  OBVIOUS
<1> HIDE DEF q
<1>3. AsAsked(q, db[id])
  BY <1>1, <1>2 DEF AsAsked, Saves, Deletions
<1>4. \A k \in Ids : ~Busy(r, k)
  BY <1>1 DEF Busy, Idle, Saves, Deletions
<1>5. id \notin disturbed' => \A s \in Reqs \ {r} : ~Busy(s, id)
  BY <1>1 DEF Quiet
<1>6. db' = [db EXCEPT ![id] = db[id]] /\ disturbed \ {id} \subseteq disturbed'
  BY <1>1 DEF WritesFit
<1>7. q.pc \in Saves \cup Deletions
  BY <1>2 DEF Saves, Deletions
<1> QED BY <1>1, <1>2, <1>3, <1>4, <1>5, <1>6, <1>7, RowStep

\* A save of a new entity that brings an id along disturbs the row of that id.
LEMMA CarriedShown ==
  ASSUME WritesFit, ShownInv, NEW r \in Reqs, NEW id \in Ids, NEW actor, NEW entity, NEW columns,
         SaveCarried(r, id, actor, entity, columns)
  PROVE  ShownInv'
<1> DEFINE q == [pc |-> "load", id |-> id, actor |-> actor, entity |-> entity,
                 changed |-> columns, asked |-> Visible(entity)]
<1>1. /\ req' = [req EXCEPT ![r] = q] /\ db' = db /\ expected' = [expected EXCEPT ![id] = None]
      /\ disturbed' = disturbed \cup {id} /\ req[r] = Idle
  BY DEF SaveCarried, Await
<1>2. q.id = id
  OBVIOUS
<1>3. PICK row : db' = [db EXCEPT ![id] = row]
  <2>1. db' = [db EXCEPT ![id] = db[id]]
    BY <1>1 DEF WritesFit
  <2> QED BY <2>1
<1>4. PICK wanted : expected' = [expected EXCEPT ![id] = wanted]
  BY <1>1
<1>5. \A k \in Ids : ~Busy(r, k)
  BY <1>1 DEF Busy, Idle, Saves, Deletions
<1>6. id \in disturbed' /\ disturbed \ {id} \subseteq disturbed'
  BY <1>1
<1>7. req' = [req EXCEPT ![r] = q]
  BY <1>1
<1> HIDE DEF q
<1> QED BY <1>2, <1>3, <1>4, <1>5, <1>6, <1>7, RowStep

\* A request goes from one statement to the next.
LEMMA GoesOnShown ==
  ASSUME WritesFit, ShownInv, NEW r \in Reqs, NEW q, req' = [req EXCEPT ![r] = q],
         req[r].pc \in Saves \cup Deletions, q.id = req[r].id,
         UNCHANGED <<db, expected, disturbed>>, q.pc \in Saves \cup Deletions,
         AsAsked(req[r], db[q.id]) => AsAsked(q, db[q.id])
  PROVE  ShownInv'
<1> DEFINE id == q.id
<1>1. id \in Ids /\ Busy(r, id) /\ \A k \in Ids \ {id} : ~Busy(r, k)
  BY DEF WritesFit, Writes, IsWrite, Busy
<1>2. db' = [db EXCEPT ![id] = db[id]] /\ expected' = [expected EXCEPT ![id] = expected[id]]
  BY <1>1 DEF WritesFit, ShownInv
<1>3. id \notin disturbed' => AsAsked(q, db[id]) /\ \A s \in Reqs \ {r} : ~Busy(s, id)
  BY <1>1 DEF ShownInv
<1> QED BY <1>1, <1>2, <1>3, RowStep

\* A save writes the columns in which its entity differs: it leaves the entity.
LEMMA OverwrittenIsEntity ==
  ASSUME NEW row, NEW entity, SameColumns(entity, row)
  PROVE  Overwritten(row, entity, Differing(entity, row, DOMAIN row)) = entity
<1> DEFINE D == DOMAIN row
<1>1. entity = [c \in D |-> entity[c]]
  BY DEF SameColumns
<1>2. Overwritten(row, entity, Differing(entity, row, D)) =
        [c \in D |-> IF c \in {d \in D : entity[d] # row[d]} THEN entity[c] ELSE row[c]]
  BY DEF Overwritten, Differing
<1>3. \A c \in D :
        (IF c \in {d \in D : entity[d] # row[d]} THEN entity[c] ELSE row[c]) = entity[c]
  OBVIOUS
<1> HIDE DEF D
<1>4. Overwritten(row, entity, Differing(entity, row, D)) = [c \in D |-> entity[c]]
  BY <1>2, <1>3
<1> QED BY <1>1, <1>4 DEF D

\* The statement of a request that is alone with its row leaves what was asked.
LEMMA AskedIsLeft ==
  ASSUME NEW q, NEW row, AsAsked(q, row), SameColumns(row, row),
         q.pc \in {"update", "softDelete", "delete"},
         q.pc \in Saves => q.entity # None /\ SameColumns(q.entity, row)
  PROVE  q.asked = Visible(RowAfter(q, row))
<1> DEFINE after == RowAfter(q, row)
<1>1. CASE q.pc = "update"
  <2>1. /\ q.entity # None /\ SameColumns(q.entity, row)
        /\ q.asked = Visible(q.entity)
        /\ q.changed = Differing(q.entity, row, DOMAIN row) /\ row # None
    BY <1>1 DEF AsAsked, Saves
  <2>2. after = Overwritten(row, q.entity, Differing(q.entity, row, DOMAIN row))
    BY <1>1, <2>1 DEF RowAfter
  <2>3. after = q.entity
    BY <2>1, <2>2, OverwrittenIsEntity
  <2> QED BY <2>1, <2>3
<1>2. CASE q.pc = "softDelete"
  <2>1. after = [row EXCEPT !.deleted = TRUE] /\ q.asked = None
    BY <1>2 DEF RowAfter, SoftDeleted, AsAsked, Deletions
  <2>2. after.deleted = TRUE
    BY <2>1 DEF SameColumns
  <2> QED BY <2>1, <2>2 DEF Visible
<1>3. CASE q.pc = "delete"
  BY <1>3 DEF RowAfter, AsAsked, Deletions, Visible
<1> QED BY <1>1, <1>2, <1>3

\* A request is answered, its statement run or not.
LEMMA EndsShown ==
  ASSUME WritesFit, ShownInv, NEW r \in Reqs, req[r].pc \in Saves \cup Deletions,
         req' = [req EXCEPT ![r] = Idle], db' = db \/ db' = TableAfter(r),
         NEW wanted, expected' = [expected EXCEPT ![req[r].id] = wanted],
         disturbed \subseteq disturbed',
         req[r].id \notin disturbed' =>
            /\ db' = TableAfter(r) /\ wanted = req[r].asked
            /\ req[r].pc \in {"update", "insert", "softDelete", "delete"}
  PROVE  ShownInv'
<1> DEFINE id == req[r].id
<1>1. id \in Ids /\ db = [k \in Ids |-> db[k]]
  BY DEF WritesFit, Writes, IsWrite
<1>2. Busy(r, id) /\ \A k \in Ids \ {id} : ~Busy(r, k)
  BY DEF Busy
<1>3. PICK row : db' = [db EXCEPT ![id] = row] /\ (db' = TableAfter(r) => row = RowAfter(req[r], db[id]))
  <2>1. CASE db' = TableAfter(r)
    BY <1>1, <2>1 DEF TableAfter
  <2>2. CASE db' # TableAfter(r)
    <3>1. db' = [db EXCEPT ![id] = db[id]]
      BY <1>1, <2>2
    <3> QED BY <2>2, <3>1
  <2> QED BY <2>1, <2>2
<1>5. ASSUME id \notin disturbed'
      PROVE  /\ \A s \in Reqs \ {r} : ~Busy(s, id)
             /\ wanted = Visible(row)
  <2>1. id \notin disturbed /\ db' = TableAfter(r) /\ wanted = req[r].asked
        /\ req[r].pc \in {"update", "insert", "softDelete", "delete"}
    BY <1>5
  <2>2. AsAsked(req[r], db[id]) /\ \A s \in Reqs \ {r} : ~Busy(s, id)
    BY <1>1, <1>2, <2>1 DEF ShownInv
  <2>3. /\ SameColumns(db[id], db[id]) /\ req[r].pc # "insert"
        /\ req[r].pc \in Saves => req[r].entity # None /\ SameColumns(req[r].entity, db[id])
    BY <1>1, <2>2 DEF AsAsked, Saves, WritesFit
  <2>4. row = RowAfter(req[r], db[id])
    BY <1>3, <2>1
  <2>5. req[r].asked = Visible(RowAfter(req[r], db[id]))
    BY <2>1, <2>2, <2>3, AskedIsLeft
  <2> QED BY <2>1, <2>2, <2>4, <2>5
<1>6. Idle.pc \notin Saves \cup Deletions
  BY DEF Idle, Saves, Deletions
<1>7. disturbed \ {id} \subseteq disturbed'
  OBVIOUS
<1>8. expected' = [expected EXCEPT ![id] = wanted] /\ req' = [req EXCEPT ![r] = Idle]
  OBVIOUS
<1> HIDE DEF id
<1> QED BY <1>1, <1>2, <1>3, <1>5, <1>6, <1>7, <1>8, RowStep

\* A new row is shown at once, unless it is written as deleted.
LEMMA InsertShown ==
  ASSUME WritesFit, ShownInv, NEW id \in Ids, NEW row, InsertNew(id, row)
  PROVE  ShownInv'
<1>1. /\ db' = [db EXCEPT ![id] = row] /\ expected' = [expected EXCEPT ![id] = Visible(row)]
      /\ req' = req /\ disturbed' = disturbed /\ id \notin Stored
  BY DEF InsertNew
<1>3. \A s \in Reqs : Busy(s, id) => id \in disturbed
  BY <1>1 DEF ShownInv, AsAsked, Stored
<1>4. \A k \in Ids : /\ Quiet(k)' <=> Quiet(k)
                     /\ \A s \in Reqs : Busy(s, k)' <=> Busy(s, k)
  BY <1>1 DEF Busy, Quiet
<1>5. /\ db'[id] = row /\ expected'[id] = Visible(row)
      /\ \A k \in Ids \ {id} : db'[k] = db[k] /\ expected'[k] = expected[k]
      /\ expected' = [k \in Ids |-> expected'[k]]
  BY <1>1 DEF WritesFit, ShownInv
<1>6. Shown(id)' = Visible(row)
  BY <1>5 DEF Shown, Visible
<1>7. \A k \in Ids \ {id} : Shown(k)' = Shown(k)
  BY <1>5 DEF Shown, Visible
<1>8. ASSUME NEW k \in Ids, k \notin disturbed', k # id
      PROVE  /\ Quiet(k)' => Shown(k)' = expected'[k]
             /\ \A s \in Reqs : Busy(s, k)' =>
                   AsAsked(req'[s], db'[k]) /\ \A t \in Reqs \ {s} : ~Busy(t, k)'
  <2>1. k \in Ids \ disturbed /\ k \in Ids \ {id}
    BY <1>1, <1>8
  <2>2. Quiet(k) => Shown(k) = expected[k]
    BY <2>1 DEF ShownInv
  <2>3. \A s \in Reqs : Busy(s, k) =>
           AsAsked(req[s], db[k]) /\ \A t \in Reqs \ {s} : ~Busy(t, k)
    BY <2>1 DEF ShownInv
  <2>4. Quiet(k)' => Shown(k)' = expected'[k]
    BY <1>4, <1>5, <1>7, <2>1, <2>2
  <2>5. \A s \in Reqs : req'[s] = req[s] /\ db'[k] = db[k]
    BY <1>1, <1>5, <2>1
  <2> QED BY <1>4, <2>3, <2>4, <2>5
<1>9. ASSUME id \notin disturbed'
      PROVE  Shown(id)' = expected'[id] /\ \A s \in Reqs : ~Busy(s, id)'
  BY <1>1, <1>3, <1>4, <1>5, <1>6, <1>9
<1> QED BY <1>5, <1>8, <1>9 DEF ShownInv

\* save and softRemove look at the row again before they write it.
LEMMA LoadShown ==
  ASSUME WritesFit, ShownInv, NEW r \in Reqs, SaveLoad(r) \/ SoftRemoveLoad(r)
  PROVE  ShownInv'
<1> DEFINE row == db[req[r].id]
<1>1. CASE SaveLoad(r)
  <2> DEFINE columns == Differing(req[r].entity, row, req[r].changed)
             q == [req[r] EXCEPT !.pc = "update", !.changed = columns]
  <2>1. /\ IsWrite(req[r]) /\ req[r].pc = "load" /\ req[r].pc \in Saves
        /\ UNCHANGED <<db, expected, disturbed>>
    BY <1>1 DEF SaveLoad, WritesFit, Writes, rows, Saves
  <2>2. CASE row = None
    <3> DEFINE inserting == [req[r] EXCEPT !.pc = "insert"]
    <3>1. req' = [req EXCEPT ![r] = inserting]
      BY <1>1, <2>2 DEF SaveLoad
    <3>2. inserting.id = req[r].id /\ inserting.pc \in Saves
      BY <2>1 DEF IsWrite, Saves
    <3> HIDE DEF inserting
    <3> QED BY <2>1, <2>2, <3>1, <3>2, GoesOnShown DEF AsAsked
  <2>3. CASE row # None
    <3>1. req' = [req EXCEPT ![r] = q]
      BY <1>1, <2>3 DEF SaveLoad
    <3> HIDE DEF columns
    <3>2. /\ q.id = req[r].id /\ q.pc = "update" /\ q.changed = columns
          /\ q.entity = req[r].entity /\ q.asked = req[r].asked
      BY <2>1 DEF IsWrite
    <3> HIDE DEF q
    <3>3. AsAsked(req[r], row) => AsAsked(q, row)
      BY <2>1, <3>2 DEF AsAsked, Saves, Deletions, columns
    <3>4. q.pc \in Saves
      BY <3>2 DEF Saves
    <3> QED BY <2>1, <3>1, <3>2, <3>3, <3>4, GoesOnShown
  <2> QED BY <2>2, <2>3
<1>2. CASE SoftRemoveLoad(r)
  <2>1. /\ IsWrite(req[r]) /\ req[r].pc = "softLoad" /\ req[r].pc \in Deletions
        /\ req[r].id \in Ids /\ UNCHANGED <<db, expected, disturbed>>
    BY <1>2 DEF SoftRemoveLoad, WritesFit, Writes, rows, Deletions, IsWrite
  <2>2. CASE row = None
    <3>1. Busy(r, req[r].id)
      BY <2>1 DEF Busy
    <3>2. req[r].id \in disturbed
      BY <2>1, <2>2, <3>1 DEF ShownInv, AsAsked
    <3>3. expected' = [expected EXCEPT ![req[r].id] = expected[req[r].id]]
      BY <2>1 DEF ShownInv
    <3> QED BY <1>2, <2>1, <2>2, <3>2, <3>3, EndsShown DEF SoftRemoveLoad
  <2>3. CASE row # None
    <3> DEFINE q == [req[r] EXCEPT !.pc = "softDelete"]
    <3>1. req' = [req EXCEPT ![r] = q]
      BY <1>2, <2>3 DEF SoftRemoveLoad
    <3>2. q.id = req[r].id /\ q.pc = "softDelete" /\ q.asked = req[r].asked
      BY <2>1 DEF IsWrite
    <3> HIDE DEF q
    <3>3. (AsAsked(req[r], row) => AsAsked(q, row)) /\ q.pc \in Deletions
      BY <2>1, <3>2 DEF AsAsked, Saves, Deletions
    <3> QED BY <2>1, <3>1, <3>2, <3>3, GoesOnShown
  <2> QED BY <2>2, <2>3
<1> QED BY <1>1, <1>2

\* The database runs the statement, or refuses it.
LEMMA ExecuteShown ==
  ASSUME WritesFit, ShownInv, NEW r \in Reqs,
         NEW pc \in {"update", "insert", "softDelete", "delete"}, NEW accepted,
         Execute(r, pc, accepted)
  PROVE  ShownInv'
<1>1. req[r].pc = pc /\ pc \in Saves \cup Deletions /\ req' = [req EXCEPT ![r] = Idle]
  BY DEF Execute, Saves, Deletions
<1>2. CASE accepted
  <2>1. /\ db' = TableAfter(r) /\ disturbed' = disturbed
        /\ expected' = [expected EXCEPT ![req[r].id] =
               IF req[r].id \in disturbed THEN None ELSE req[r].asked]
    BY <1>2 DEF Execute
  <2> QED BY <1>1, <2>1, EndsShown
<1>3. CASE ~accepted
  <2>1. /\ db' = db /\ disturbed' = disturbed \cup {req[r].id}
        /\ expected' = [expected EXCEPT ![req[r].id] = None]
    BY <1>3 DEF Execute
  <2> QED BY <1>1, <2>1, EndsShown
<1> QED BY <1>2, <1>3

\* The list of a page is answered.
LEMMA CountShown ==
  ASSUME WritesFit, ShownInv, NEW r \in Reqs, Count(r)
  PROVE  ShownInv'
<1>1. /\ req' = [req EXCEPT ![r] = Idle] /\ req[r].pc = "count"
      /\ UNCHANGED <<db, expected, disturbed>>
  BY DEF Count, rows
<1>2. Idle.pc \notin Saves \cup Deletions /\ "count" \notin Saves \cup Deletions
  BY DEF Idle, Saves, Deletions
<1> QED BY <1>1, <1>2, ReadStep

\* A page is read.
LEMMA PaginateShown ==
  ASSUME WritesFit, ShownInv, NEW r \in Reqs, NEW query, NEW page, NEW limit, NEW ids,
         Paginate(r, query, page, limit, ids)
  PROVE  ShownInv'
<1> DEFINE q == [pc |-> "count", query |-> query, page |-> page, limit |-> limit,
                 list |-> PageOf(ids, page, limit), seen |-> ids]
<1>1. /\ req' = [req EXCEPT ![r] = q] /\ req[r].pc = "idle"
      /\ UNCHANGED <<db, expected, disturbed>>
  BY DEF Paginate, rows, Idle
<1>2. q.pc \notin Saves \cup Deletions /\ "idle" \notin Saves \cup Deletions
  BY DEF Saves, Deletions
<1> HIDE DEF q
<1> QED BY <1>1, <1>2, ReadStep

LEMMA FailShown ==
  ASSUME WritesFit, ShownInv, NEW r \in Reqs, FailWrite(r)
  PROVE  ShownInv'
BY EndsShown DEF FailWrite

\* Nothing is shown at first.
LEMMA InitShown == Init => ShownInv
BY DEF Init, Idle, ShownInv, Saves, Deletions, Shown, Visible, Busy

LEMMA StutterShown == ShownInv /\ UNCHANGED repository => ShownInv'
BY DEF repository, rows, ShownInv, Shown, Visible, Quiet, Busy

-----------------------------------------------------------------------------
(* Deleted rows *)

\* What DeletedStaysDeleted says of one step.
DeletionsHold ==
    \A id \in removed \ carried : id \notin Live /\ id \in Live' =>
        \E r \in overtaken : Saving(r, id)

\* A request goes on, or is answered, without a statement that writes.
LEMMA GoesOnDeleted ==
  ASSUME WritesFit, DeletedInv, NEW r \in Reqs, NEW q, req' = [req EXCEPT ![r] = q],
         UNCHANGED <<db, removed>>, carried \subseteq carried', overtaken \ {r} \subseteq overtaken',
         q.pc \in Saves =>
            \/ q.id \in Live \cup carried'
            \/ Saving(r, q.id) /\ overtaken' = overtaken
  PROVE  DeletedInv' /\ DeletionsHold
<1>1. req'[r] = q /\ \A s \in Reqs : s # r => req'[s] = req[s]
  BY DEF WritesFit
<1>2. Live' = Live
  BY DEF Live, Stored
<1>3. ASSUME NEW id \in removed \ carried', id \notin Live, NEW s \in Reqs, Saving(s, id)'
      PROVE  s \in overtaken'
  <2>1. CASE s = r
    <3>1. q.pc \in Saves /\ q.id = id
      BY <1>1, <1>3, <2>1 DEF Saving
    <3>2. Saving(r, id) /\ overtaken' = overtaken
      BY <1>3, <3>1
    <3> QED BY <1>3, <2>1, <3>2 DEF DeletedInv
  <2>2. CASE s # r
    <3>1. Saving(s, id)
      BY <1>1, <1>3, <2>2 DEF Saving
    <3> QED BY <1>3, <2>2, <3>1 DEF DeletedInv
  <2> QED BY <2>1, <2>2
<1> QED BY <1>2, <1>3 DEF DeletedInv, DeletionsHold

\* A statement runs.  One that hides a row notes the saves it overtakes; one that
\* shows a hidden row again is one of those.
LEMMA EndsDeleted ==
  ASSUME WritesFit, DeletedInv, NEW r \in Reqs, req[r].pc \in Saves \cup Deletions,
         req' = [req EXCEPT ![r] = Idle], db' = TableAfter(r), Ends(r, TRUE)
  PROVE  DeletedInv' /\ DeletionsHold
<1> DEFINE id == req[r].id
           after == RowAfter(req[r], db[id])
<1>1. /\ req'[r] = Idle /\ \A s \in Reqs : s # r => req'[s] = req[s]
      /\ Idle.pc \notin Saves
  BY DEF WritesFit, Idle, Saves
<1>2. /\ id \in Ids /\ db = [k \in Ids |-> db[k]] /\ db' = [db EXCEPT ![id] = after]
      /\ carried' = carried
  BY DEF WritesFit, Writes, IsWrite, TableAfter, Ends
<1>3. \A k : k # id => (k \in Live' <=> k \in Live)
  BY <1>2 DEF Live, Stored
<1>4. id \in Live' <=> Visible(after) # None
  BY <1>2 DEF Live, Stored, Visible
<1>5. \A k : \A s \in Reqs : Saving(s, k)' => s # r /\ Saving(s, k)
  BY <1>1 DEF Saving
<1> DEFINE takes == id \in Live /\ Visible(after) = None
<1>6. /\ removed' = IF takes THEN removed \cup {id} ELSE removed
      /\ overtaken' =
             (IF takes THEN overtaken \cup {q \in Reqs : Saving(q, id)} ELSE overtaken) \ {r}
  BY DEF Ends
<1>7. ASSUME NEW k \in removed' \ carried, k \notin Live', NEW s \in Reqs, Saving(s, k)'
      PROVE  s \in overtaken'
  <2>1. s # r /\ Saving(s, k)
    BY <1>5, <1>7
  <2>2. CASE k = id /\ takes
    BY <1>6, <2>1, <2>2
  <2>3. CASE k # id \/ ~takes
    <3>1. k \in removed /\ k \notin Live
      BY <1>3, <1>4, <1>6, <1>7, <2>3
    <3>2. s \in overtaken
      BY <1>7, <2>1, <3>1 DEF DeletedInv
    <3> QED BY <1>6, <2>1, <3>2
  <2> QED BY <2>2, <2>3
<1>8. ASSUME NEW k \in removed \ carried, k \notin Live, k \in Live'
      PROVE  r \in overtaken /\ Saving(r, k)
  <2>1. k = id /\ Visible(after) # None
    BY <1>3, <1>4, <1>8
  <2>2. req[r].pc \in Saves
    <3>1. CASE req[r].pc = "delete"
      BY <2>1, <3>1 DEF RowAfter, Visible
    <3>2. CASE req[r].pc = "softDelete" /\ db[id] # None
      <4>1. after = [db[id] EXCEPT !.deleted = TRUE] /\ SameColumns(db[id], db[id])
        BY <1>2, <3>2 DEF RowAfter, SoftDeleted, WritesFit
      <4>2. after.deleted = TRUE
        BY <4>1 DEF SameColumns
      <4> QED BY <2>1, <4>2 DEF Visible
    <3>3. CASE req[r].pc = "softLoad" \/ (req[r].pc = "softDelete" /\ db[id] = None)
      <4>1. after = db[id]
        BY <3>3 DEF RowAfter
      <4> QED BY <1>2, <1>8, <2>1, <4>1 DEF Live, Stored, Visible
    <3>4. req[r].pc \in Saves \/ req[r].pc \in {"softLoad", "softDelete", "delete"}
      BY DEF Deletions
    <3> HIDE DEF after
    <3> QED BY <3>1, <3>2, <3>3, <3>4
  <2>3. Saving(r, k)
    BY <2>1, <2>2 DEF Saving
  <2> QED BY <1>8, <2>3 DEF DeletedInv
<1>9. DeletedInv'
  BY <1>2, <1>7 DEF DeletedInv
<1> QED BY <1>8, <1>9 DEF DeletionsHold

\* A row that is deleted is not found, and is not what a new uuid is given to.
LEMMA ProceedDeleted ==
  ASSUME WritesFit, DeletedInv, NEW r \in Reqs, NEW id, NEW pc, NEW actor, NEW entity, NEW asked,
         Proceed(r, pc, id, actor, entity, asked)
  PROVE  DeletedInv' /\ DeletionsHold
<1> DEFINE q == [pc |-> pc, id |-> id, actor |-> actor, entity |-> entity,
                 changed |-> DOMAIN db[id], asked |-> asked]
<1>1. /\ req' = [req EXCEPT ![r] = q] /\ UNCHANGED <<db, removed, carried, overtaken>>
      /\ q.id = id /\ id \in Live
  BY DEF Proceed, Await
<1> HIDE DEF q
<1> QED BY <1>1, GoesOnDeleted

LEMMA CarriedDeleted ==
  ASSUME WritesFit, DeletedInv, NEW r \in Reqs, NEW id, NEW actor, NEW entity, NEW columns,
         SaveCarried(r, id, actor, entity, columns)
  PROVE  DeletedInv' /\ DeletionsHold
<1> DEFINE q == [pc |-> "load", id |-> id, actor |-> actor, entity |-> entity,
                 changed |-> columns, asked |-> Visible(entity)]
<1>1. /\ req' = [req EXCEPT ![r] = q] /\ UNCHANGED <<db, removed, overtaken>>
      /\ q.id = id /\ carried' = carried \cup {id}
  BY DEF SaveCarried, Await
<1> HIDE DEF q
<1> QED BY <1>1, GoesOnDeleted

LEMMA InsertDeleted ==
  ASSUME WritesFit, DeletedInv, NEW id \in Ids, NEW row, InsertNew(id, row)
  PROVE  DeletedInv' /\ DeletionsHold
<1>1. /\ id \notin removed /\ db' = [db EXCEPT ![id] = row]
      /\ UNCHANGED <<req, removed, carried, overtaken>>
  BY DEF InsertNew
<1>2. \A k : k # id => (k \in Live' <=> k \in Live)
  BY <1>1 DEF Live, Stored, WritesFit
<1> QED BY <1>1, <1>2 DEF DeletedInv, DeletionsHold, Saving

LEMMA LoadDeleted ==
  ASSUME WritesFit, DeletedInv, NEW r \in Reqs, SaveLoad(r) \/ SoftRemoveLoad(r)
  PROVE  DeletedInv' /\ DeletionsHold
<1>1. /\ IsWrite(req[r]) /\ UNCHANGED <<db, removed, carried, overtaken>>
  BY DEF SaveLoad, SoftRemoveLoad, WritesFit, Writes, rows, Saves, Deletions
<1>2. CASE SaveLoad(r)
  <2> DEFINE columns == Differing(req[r].entity, db[req[r].id], req[r].changed)
             inserting == [req[r] EXCEPT !.pc = "insert"]
             updating == [req[r] EXCEPT !.pc = "update", !.changed = columns]
  <2>1. req' = [req EXCEPT ![r] = inserting] \/ req' = [req EXCEPT ![r] = updating]
    BY <1>2 DEF SaveLoad
  <2> HIDE DEF columns
  <2>2. inserting.id = req[r].id /\ updating.id = req[r].id /\ Saving(r, req[r].id)
    BY <1>1, <1>2 DEF IsWrite, SaveLoad, Saving, Saves
  <2> HIDE DEF inserting, updating
  <2> QED BY <1>1, <2>1, <2>2, GoesOnDeleted
<1>3. CASE SoftRemoveLoad(r)
  <2> DEFINE q == [req[r] EXCEPT !.pc = "softDelete"]
  <2>1. req' = [req EXCEPT ![r] = Idle] \/ req' = [req EXCEPT ![r] = q]
    BY <1>3 DEF SoftRemoveLoad
  <2>2. q.pc \notin Saves /\ Idle.pc \notin Saves
    BY <1>1 DEF IsWrite, Saves, Idle
  <2> HIDE DEF q
  <2> QED BY <1>1, <2>1, <2>2, GoesOnDeleted
<1> QED BY <1>2, <1>3

LEMMA ExecuteDeleted ==
  ASSUME WritesFit, DeletedInv, NEW r \in Reqs,
         NEW pc \in {"update", "insert", "softDelete", "delete"}, NEW accepted \in BOOLEAN,
         Execute(r, pc, accepted)
  PROVE  DeletedInv' /\ DeletionsHold
<1>1. req[r].pc \in Saves \cup Deletions /\ req' = [req EXCEPT ![r] = Idle] /\ Ends(r, accepted)
  BY DEF Execute, Saves, Deletions
<1>2. CASE accepted = TRUE
  BY <1>1, <1>2, EndsDeleted DEF Execute
<1>3. CASE accepted = FALSE
  <2>1. UNCHANGED <<db, removed, carried>> /\ overtaken' = overtaken \ {r} /\ Idle.pc \notin Saves
    BY <1>1, <1>3 DEF Execute, Ends, Idle, Saves
  <2> QED BY <1>1, <2>1, GoesOnDeleted
<1> QED BY <1>2, <1>3

LEMMA FailDeleted ==
  ASSUME WritesFit, DeletedInv, NEW r \in Reqs, FailWrite(r)
  PROVE  DeletedInv' /\ DeletionsHold
<1>1. req[r].pc \in Saves \cup Deletions /\ req' = [req EXCEPT ![r] = Idle]
  BY DEF FailWrite
<1>2. CASE Ends(r, FALSE) /\ db' = db
  <2>1. UNCHANGED <<db, removed, carried>> /\ overtaken' = overtaken \ {r} /\ Idle.pc \notin Saves
    BY <1>2 DEF Ends, Idle, Saves
  <2> QED BY <1>1, <2>1, GoesOnDeleted
<1>3. CASE Ends(r, TRUE) /\ db' = TableAfter(r)
  BY <1>1, <1>3, EndsDeleted
<1> QED BY <1>2, <1>3 DEF FailWrite

\* Readers and readers' answers.
LEMMA PagesDeleted ==
  ASSUME WritesFit, DeletedInv, NEW r \in Reqs,
         Count(r) \/ \E query, page, limit, ids : Paginate(r, query, page, limit, ids)
  PROVE  DeletedInv' /\ DeletionsHold
<1>1. CASE Count(r)
  <2>1. req' = [req EXCEPT ![r] = Idle] /\ UNCHANGED <<db, removed, carried, overtaken>>
        /\ Idle.pc \notin Saves
    BY <1>1 DEF Count, rows, Idle, Saves
  <2> QED BY <2>1, GoesOnDeleted
<1>2. ASSUME NEW query, NEW page, NEW limit, NEW ids, Paginate(r, query, page, limit, ids)
      PROVE  DeletedInv' /\ DeletionsHold
  <2> DEFINE q == [pc |-> "count", query |-> query, page |-> page, limit |-> limit,
                   list |-> PageOf(ids, page, limit), seen |-> ids]
  <2>1. req' = [req EXCEPT ![r] = q] /\ UNCHANGED <<db, removed, carried, overtaken>>
    BY <1>2 DEF Paginate, rows
  <2>2. q.pc \notin Saves
    BY DEF Saves
  <2> HIDE DEF q
  <2> QED BY <2>1, <2>2, GoesOnDeleted
<1> QED BY <1>1, <1>2

LEMMA InitDeleted == Init => DeletedInv
BY DEF Init, DeletedInv

LEMMA StutterDeleted == DeletedInv /\ UNCHANGED repository => DeletedInv' /\ DeletionsHold
BY DEF repository, rows, DeletedInv, DeletionsHold, Live, Stored, Saving

=============================================================================
