---------------------------- MODULE PostsProofs -----------------------------
(***************************************************************************)
(* As long as no create brings its id along: only its author and the       *)
(* administrators change a post, though the check and the write are steps  *)
(* apart; a deleted post comes back only by a save that was under way; and *)
(* a post is what the last answer said, unless requests met or failed.     *)
(***************************************************************************)
EXTENDS Posts, RepositoryProofs

-----------------------------------------------------------------------------
(* Rows *)

\* Posts are made of the same columns, which can be told apart.
LEMMA OverwrittenPost ==
  ASSUME NEW row \in Post, NEW entity \in Post, NEW columns
  PROVE  /\ Overwritten(row, entity, columns) \in Post
         /\ Overwritten(row, entity, columns).owner \in {row.owner, entity.owner}
<1>1. DOMAIN row = Columns
  BY DEF Post, Columns
<1>2. Overwritten(row, entity, columns) =
        [owner |-> IF "owner" \in columns THEN entity.owner ELSE row.owner,
         title |-> IF "title" \in columns THEN entity.title ELSE row.title,
         content |-> IF "content" \in columns THEN entity.content ELSE row.content,
         deleted |-> IF "deleted" \in columns THEN entity.deleted ELSE row.deleted]
  BY <1>1 DEF Overwritten, Columns
<1> QED BY <1>2 DEF Post

\* The row that a statement leaves.
LEMMA RowAfterPost ==
  ASSUME NEW q, NEW row \in Post \cup {None}, q.pc \in Saves \cup Deletions,
         q.pc \in Saves => q.entity \in Post
  PROVE  /\ RowAfter(q, row) \in Post \cup {None}
         /\ RowAfter(q, row) = row \/ q.pc \in {"update", "insert", "softDelete", "delete"}
         /\ RowAfter(q, row) # None /\ row # None =>
               RowAfter(q, row).owner \in IF q.pc \in Saves THEN {row.owner, q.entity.owner}
                                                            ELSE {row.owner}
         /\ RowAfter(q, row) # None /\ row = None =>
               q.pc = "insert" /\ RowAfter(q, row) = q.entity
         /\ RowAfter(q, row) = None /\ row # None => q.pc = "delete"
<1>1. CASE q.pc = "update" /\ row # None
  <2>1. RowAfter(q, row) = Overwritten(row, q.entity, q.changed)
    BY <1>1 DEF RowAfter
  <2> QED BY <1>1, <2>1, OverwrittenPost, NoneAssumption DEF Saves
<1>2. CASE q.pc = "insert" /\ row = None
  <2>1. RowAfter(q, row) = q.entity
    BY <1>2 DEF RowAfter
  <2> QED BY <1>2, <2>1, NoneAssumption DEF Saves
<1>3. CASE q.pc = "softDelete" /\ row # None
  <2>1. RowAfter(q, row) = [row EXCEPT !.deleted = TRUE]
    BY <1>3 DEF RowAfter, SoftDeleted
  <2> QED BY <1>3, <2>1, NoneAssumption DEF Post, Saves
<1>4. CASE q.pc = "delete"
  <2>1. RowAfter(q, row) = None
    BY <1>4 DEF RowAfter
  <2> QED BY <1>4, <2>1
<1>5. CASE /\ ~(q.pc = "update" /\ row # None) /\ ~(q.pc = "insert" /\ row = None)
           /\ ~(q.pc = "softDelete" /\ row # None) /\ q.pc # "delete"
  <2>1. RowAfter(q, row) = row
    BY <1>5 DEF RowAfter
  <2> QED BY <2>1 DEF Saves
<1> QED BY <1>1, <1>2, <1>3, <1>4, <1>5

\* What bodies make of a post is a post.
LEMMA EntityIsPost ==
  ASSUME NEW u \in Users, NEW body \in Bodies
  PROVE  /\ ToEntity(u, body) \in Post /\ ToEntity(u, body).owner = u
         /\ Written(u, body) \in Post /\ ~Written(u, body).deleted
<1>1. body.title \in Titles /\ body.content \in Contents \cup {None}
  BY BodyAssumption DEF Body
<1>2. ToEntity(u, body) = [owner |-> u, title |-> body.title, content |-> body.content,
                           deleted |-> (body.deleted = TRUE)]
  BY DEF ToEntity, Written
<1> QED BY <1>1, <1>2 DEF Written, Post

-----------------------------------------------------------------------------
(* Steps *)

\* A request that writes has all that a write needs.
WriteIsTyped(q) == q \in WriteRequest /\ (q.pc \in Saves => q.entity \in Post)

LEMMA CarriedIsTyped ==
  ASSUME NEW u \in Users, NEW body \in Bodies, body.id # None
  PROVE  WriteIsTyped([pc |-> "load", id |-> body.id, actor |-> u, entity |-> ToEntity(u, body),
                       changed |-> ColumnsOf(body), asked |-> Visible(ToEntity(u, body))])
<1> DEFINE entity == ToEntity(u, body)
<1>1. entity \in Post /\ body.id \in Ids
  BY EntityIsPost, BodyAssumption DEF Body
<1>2. Visible(entity) \in Post \cup {None}
  BY <1>1 DEF Visible
<1>3. ColumnsOf(body) \in SUBSET Columns
  BY DEF ColumnsOf
<1> QED BY <1>1, <1>2, <1>3 DEF WriteIsTyped, WriteRequest, Saves

\* What OnlyAuthorsAndAdmins says of one step.
Allowed ==
    \A id \in Ids \ carried : db[id] # None /\ db'[id] # db[id] =>
        \E r \in Reqs : req[r] # Idle /\ req[r].pc # "count" /\ req[r].id = id /\
            \/ req[r].actor = author[id]
            \/ req[r].actor \in Admins /\ db'[id] = None

\* A write stays allowed while its row is in sight or noted as removed.
LEMMA StaysAllowed ==
  ASSUME NEW q, WriteIsAllowed(q), author' = author, carried \subseteq carried',
         Live \subseteq Live' \cup removed', removed \subseteq removed'
  PROVE  WriteIsAllowed(q)'
BY DEF WriteIsAllowed

\* A request that is answered leaves the others as they were.
LEMMA AnsweredLeaves ==
  ASSUME PostsInv, NEW r \in Reqs, req' = [req EXCEPT ![r] = Idle],
         UNCHANGED <<author, carried>>,
         Live \subseteq Live' \cup removed', removed \subseteq removed'
  PROVE  req' = [s \in Reqs |-> req'[s]] /\ WritesAreAllowed'
<1>1. /\ req' = [s \in Reqs |-> req'[s]]
      /\ req'[r] = Idle
      /\ \A s \in Reqs : s # r => req'[s] = req[s]
  BY DEF PostsInv
<1>2. Idle.pc \notin Saves \cup Deletions
  BY DEF Idle, Saves, Deletions
<1>3. ASSUME NEW s \in Reqs, req'[s].pc \in Saves \cup Deletions
      PROVE  WriteIsAllowed(req[s])' /\ req'[s] = req[s]
  <2>1. s # r /\ req'[s] = req[s]
    BY <1>1, <1>2, <1>3
  <2>2. WriteIsAllowed(req[s])
    BY <1>3, <2>1 DEF PostsInv, WritesAreAllowed
  <2>3. PICK q : q = req[s]
    OBVIOUS
  <2>4. WriteIsAllowed(q)'
    BY <2>2, <2>3, StaysAllowed
  <2> QED BY <2>1, <2>3, <2>4
<1> QED BY <1>1, <1>3 DEF WritesAreAllowed

\* The statement of a request is run: the row stays its author's, and changes
\* by a request of the author or goes by one of an administrator.
LEMMA Executed ==
  ASSUME PostsInv, NEW r \in Reqs, req[r].pc \in Saves \cup Deletions,
         req' = [req EXCEPT ![r] = Idle], db' = TableAfter(r), Ends(r, TRUE), author' = author
  PROVE  PostsInv' /\ Allowed
<1> DEFINE id == req[r].id
           after == RowAfter(req[r], db[id])
<1>1. /\ WriteIsAllowed(req[r]) /\ req[r] \in WriteRequest /\ id \in Ids
      /\ req[r].pc \in Saves => req[r].entity \in Post
  BY DEF PostsInv, WritesAreAllowed, WriteRequest, WriteIsAllowed
<1>2. /\ db \in [Ids -> Post \cup {None}] /\ author \in [Ids -> Users \cup {None}]
      /\ db' = [db EXCEPT ![id] = after] /\ carried' = carried
      /\ id \notin carried /\ db[id] # None => db[id].owner = author[id]
  BY <1>1 DEF PostsInv, OwnersAreAuthors, TableAfter, Ends
<1>3. ASSUME id \notin carried
      PROVE  /\ IF req[r].pc = "delete" THEN req[r].actor \in Admins ELSE req[r].actor = author[id]
             /\ req[r].pc \in Saves => req[r].entity.owner = author[id]
  BY <1>1, <1>3 DEF WriteIsAllowed
<1>4. /\ after \in Post \cup {None}
      /\ id \notin carried /\ after # None => after.owner = author[id]
  <2>1. /\ after \in Post \cup {None}
        /\ after # None /\ db[id] # None =>
              after.owner \in IF req[r].pc \in Saves THEN {db[id].owner, req[r].entity.owner}
                                                     ELSE {db[id].owner}
        /\ after # None /\ db[id] = None => req[r].pc = "insert" /\ after = req[r].entity
    BY <1>1, <1>2, RowAfterPost
  <2> HIDE DEF after
  <2>2. ASSUME id \notin carried, after # None PROVE after.owner = author[id]
    <3>1. CASE db[id] # None
      BY <1>2, <1>3, <2>1, <2>2, <3>1
    <3>2. CASE db[id] = None
      BY <1>2, <1>3, <2>1, <2>2, <3>2 DEF Saves
    <3> QED BY <3>1, <3>2
  <2> QED BY <2>1, <2>2
<1>5. db' \in [Ids -> Post \cup {None}] /\ OwnersAreAuthors'
  BY <1>1, <1>2, <1>4 DEF PostsInv, OwnersAreAuthors
<1>6. Live \subseteq Live' \cup removed' /\ removed \subseteq removed'
  <2>1. removed' = IF id \in Live /\ Visible(after) = None THEN removed \cup {id} ELSE removed
    BY DEF Ends
  <2>2. \A k : k # id => (k \in Live' <=> k \in Live)
    BY <1>2 DEF Live, Stored
  <2>3. id \in Live' <=> Visible(after) # None
    BY <1>1, <1>2 DEF Live, Stored, Visible
  <2> HIDE DEF after, id
  <2> QED BY <2>1, <2>2, <2>3
<1>7. req' = [s \in Reqs |-> req'[s]] /\ WritesAreAllowed'
  BY <1>2, <1>6, AnsweredLeaves
<1>8. Allowed
  <2> SUFFICES ASSUME NEW k \in Ids \ carried, db[k] # None, db'[k] # db[k]
               PROVE  /\ req[r] # Idle /\ req[r].pc # "count" /\ req[r].id = k
                      /\ \/ req[r].actor = author[k]
                         \/ req[r].actor \in Admins /\ db'[k] = None
    BY DEF Allowed
  <2>1. k = id
    BY <1>1, <1>2
  <2>2. req[r] # Idle /\ req[r].pc # "count"
    BY DEF Idle, Saves, Deletions
  <2>3. CASE req[r].pc = "delete"
    <3>1. after = None
      BY <2>3 DEF RowAfter
    <3> QED BY <1>1, <1>2, <1>3, <2>1, <2>2, <2>3, <3>1
  <2>4. CASE req[r].pc # "delete"
    BY <1>3, <2>1, <2>2, <2>4
  <2> QED BY <2>3, <2>4
<1> QED BY <1>2, <1>5, <1>7, <1>8 DEF PostsInv

\* A request is answered and the rows stay as they are.
LEMMA Refused ==
  ASSUME PostsInv, NEW r \in Reqs, req' = [req EXCEPT ![r] = Idle],
         UNCHANGED <<db, removed, carried, author>>
  PROVE  PostsInv' /\ Allowed
<1>1. WritesAreAllowed' /\ req' = [s \in Reqs |-> req'[s]]
  BY AnsweredLeaves DEF Live, Stored
<1> QED BY <1>1 DEF PostsInv, OwnersAreAuthors, Allowed

\* A request goes on, or a new one starts, with q to do next.
LEMMA GoesOn ==
  ASSUME PostsInv, NEW r \in Reqs, NEW q, req' = [req EXCEPT ![r] = q],
         UNCHANGED <<db, removed, author>>, carried \subseteq carried',
         q.pc \in Saves \cup Deletions => WriteIsAllowed(q) \/ (q.id \in carried' /\ WriteIsTyped(q))
  PROVE  PostsInv' /\ Allowed
<1>1. /\ req' = [s \in Reqs |-> req'[s]]
      /\ req'[r] = q
      /\ \A s \in Reqs : s # r => req'[s] = req[s]
  BY DEF PostsInv
<1>2. Live' = Live
  BY DEF Live, Stored
<1>3. ASSUME NEW s \in Reqs, req'[s].pc \in Saves \cup Deletions
      PROVE  WriteIsAllowed(req[s])'
  <2>1. CASE s = r
    <3>1. CASE WriteIsAllowed(q)
      BY <1>1, <1>2, <2>1, <3>1 DEF WriteIsAllowed
    <3>2. CASE q.id \in carried' /\ WriteIsTyped(q)
      BY <1>1, <2>1, <3>2 DEF WriteIsAllowed, WriteIsTyped
    <3> QED BY <1>1, <1>3, <2>1, <3>1, <3>2
  <2>2. CASE s # r
    <3>1. WriteIsAllowed(req[s]) /\ req'[s] = req[s]
      BY <1>1, <1>3, <2>2 DEF PostsInv, WritesAreAllowed
    <3> QED BY <1>2, <3>1 DEF WriteIsAllowed
  <2> QED BY <2>1, <2>2
<1>4. WritesAreAllowed'
  BY <1>3 DEF WritesAreAllowed
<1> QED BY <1>1, <1>4 DEF PostsInv, OwnersAreAuthors, Allowed

-----------------------------------------------------------------------------
(* Operations *)

\* A new post takes an id that no write in flight is about.
LEMMA CreateAllowed ==
  ASSUME PostsInv, NEW u \in Users, NEW id \in Ids, NEW body \in Bodies,
         CreatePost(id, u, body)
  PROVE  PostsInv' /\ Allowed
<1>1. ToEntity(u, body) \in Post /\ ToEntity(u, body).owner = u
  BY EntityIsPost
<1>2. /\ id \notin Stored /\ id \notin removed /\ id \notin carried
      /\ db' = [db EXCEPT ![id] = ToEntity(u, body)]
      /\ author' = [author EXCEPT ![id] = u]
      /\ req' = req /\ removed' = removed /\ carried' = carried
  BY DEF CreatePost, InsertNew
<1>3. db[id] = None /\ id \notin Live
  BY <1>2 DEF Stored, Live
<1>4. /\ db' \in [Ids -> Post \cup {None}] /\ author' \in [Ids -> Users \cup {None}]
      /\ OwnersAreAuthors' /\ Allowed
  BY <1>1, <1>2, <1>3 DEF PostsInv, OwnersAreAuthors, Allowed
<1>5. ASSUME NEW r \in Reqs, req[r].pc \in Saves \cup Deletions
      PROVE  WriteIsAllowed(req[r])'
  <2>1. WriteIsAllowed(req[r]) /\ req[r].id \in Ids
    BY <1>5 DEF PostsInv, WritesAreAllowed, WriteIsAllowed, WriteRequest
  <2>2. req[r].id # id \/ req[r].id \in carried
    BY <1>2, <1>3, <2>1 DEF WriteIsAllowed
  <2>3. \A k \in Ids \ {id} : db'[k] = db[k] /\ author'[k] = author[k]
    BY <1>2 DEF PostsInv
  <2>4. \A k \in Ids \ {id} : k \in Live' <=> k \in Live
    BY <2>3 DEF Live, Stored
  <2> QED BY <1>2, <2>1, <2>2, <2>3, <2>4 DEF WriteIsAllowed
<1>6. WritesAreAllowed'
  BY <1>2, <1>5 DEF WritesAreAllowed
<1> QED BY <1>2, <1>4, <1>6 DEF PostsInv

\* A create that brings an id along is no longer restrained.
LEMMA CreateAsAllowed ==
  ASSUME PostsInv, NEW r \in Reqs, NEW u \in Users, NEW body \in Bodies,
         CreatePostAs(r, u, body)
  PROVE  PostsInv' /\ Allowed
<1> DEFINE q == [pc |-> "load", id |-> body.id, actor |-> u, entity |-> ToEntity(u, body),
                 changed |-> ColumnsOf(body), asked |-> Visible(ToEntity(u, body))]
<1>1. /\ req' = [req EXCEPT ![r] = q] /\ UNCHANGED <<db, removed, author>>
      /\ carried' = carried \cup {body.id}
  BY DEF CreatePostAs, SaveCarried, Await
<1>2. WriteIsTyped(q)
  BY CarriedIsTyped DEF CreatePostAs
<1>3. q.id = body.id
  OBVIOUS
<1> HIDE DEF q
<1> QED BY <1>1, <1>2, <1>3, GoesOn

\* A request that has found its row goes on to write it.
LEMMA ProceedAllowed ==
  ASSUME PostsInv, NEW r \in Reqs, NEW id \in Ids, NEW pc \in Saves \cup Deletions,
         NEW actor \in Users, NEW entity \in Post \cup {None}, NEW asked \in Post \cup {None},
         Proceed(r, pc, id, actor, entity, asked), author' = author,
         id \notin carried => IF pc = "delete" THEN actor \in Admins ELSE actor = author[id],
         pc \in Saves => entity \in Post /\ (id \notin carried => entity.owner = author[id])
  PROVE  PostsInv' /\ Allowed
<1> DEFINE q == [pc |-> pc, id |-> id, actor |-> actor, entity |-> entity,
                 changed |-> DOMAIN db[id], asked |-> asked]
<1>1. /\ req' = [req EXCEPT ![r] = q] /\ UNCHANGED <<db, removed, carried>> /\ id \in Live
  BY DEF Proceed, Await
<1>2. q \in WriteRequest
  <2>1. DOMAIN db[id] = Columns
    BY <1>1 DEF Live, Stored, PostsInv, Post, Columns
  <2> QED BY <2>1 DEF WriteRequest
<1>3. /\ q.pc = pc /\ q.id = id /\ q.actor = actor /\ q.entity = entity
  OBVIOUS
<1> HIDE DEF q
<1>4. WriteIsAllowed(q)
  BY <1>1, <1>2, <1>3 DEF WriteIsAllowed
<1> QED BY <1>1, <1>4, GoesOn

LEMMA UpdateAllowed ==
  ASSUME PostsInv, NEW r \in Reqs, NEW u \in Users, NEW id \in Ids, NEW body \in Bodies,
         UpdatePost(r, u, id, body)
  PROVE  PostsInv' /\ Allowed
<1>1. /\ db[id] \in Post /\ db[id].owner = u /\ (id \notin carried => author[id] = u)
      /\ Proceed(r, "load", id, u, Edited(db[id], body), Written(u, body))
      /\ author' = author
  BY DEF UpdatePost, SaveEntity, Live, Stored, PostsInv, OwnersAreAuthors
<1>2. Edited(db[id], body) \in Post /\ Edited(db[id], body).owner = u
  BY <1>1, BodyAssumption DEF Edited, Post, Body
<1>3. Written(u, body) \in Post
  BY EntityIsPost
<1> QED BY <1>1, <1>2, <1>3, ProceedAllowed DEF Saves

LEMMA DeleteAllowed ==
  ASSUME PostsInv, NEW r \in Reqs, NEW u \in Users, NEW id \in Ids,
         DeletePost(r, u, id) \/ AdminDeletePost(r, u, id)
  PROVE  PostsInv' /\ Allowed
<1>1. CASE DeletePost(r, u, id)
  <2>1. /\ id \notin carried => author[id] = u
        /\ Proceed(r, "softLoad", id, u, None, None) /\ author' = author
    BY <1>1 DEF DeletePost, SoftRemove, Live, Stored, PostsInv, OwnersAreAuthors
  <2> QED BY <2>1, ProceedAllowed DEF Saves, Deletions
<1>2. CASE AdminDeletePost(r, u, id)
  <2>1. u \in Admins /\ Proceed(r, "delete", id, u, None, None) /\ author' = author
    BY <1>2 DEF AdminDeletePost, RolesGuard, DeleteById
  <2> QED BY <2>1, ProceedAllowed DEF Saves, Deletions
<1> QED BY <1>1, <1>2

LEMMA ExecuteAllowed ==
  ASSUME PostsInv, NEW r \in Reqs, NEW pc \in Saves \cup Deletions, NEW accepted \in BOOLEAN,
         Execute(r, pc, accepted), author' = author
  PROVE  PostsInv' /\ Allowed
<1>1. req[r].pc \in Saves \cup Deletions /\ req' = [req EXCEPT ![r] = Idle]
  BY DEF Execute
<1>2. CASE accepted = TRUE
  BY <1>1, <1>2, Executed DEF Execute
<1>3. CASE accepted = FALSE
  BY <1>1, <1>3, Refused DEF Execute, Ends
<1> QED BY <1>2, <1>3

LEMMA ContinueAllowed ==
  ASSUME PostsInv, NEW r \in Reqs, Continue(r)
  PROVE  PostsInv' /\ Allowed
<1>0. author' = author
  BY DEF Continue
<1>1. CASE SaveLoad(r) \/ SoftRemoveLoad(r)
  <2>1. /\ WriteIsAllowed(req[r]) /\ req[r] \in WriteRequest /\ req[r].pc \in {"load", "softLoad"}
        /\ UNCHANGED <<db, removed, carried>>
    BY <1>1 DEF SaveLoad, SoftRemoveLoad, PostsInv, WritesAreAllowed, WriteIsAllowed, rows,
                Saves, Deletions
  <2>2. CASE SaveLoad(r) /\ db[req[r].id] = None
    <3> DEFINE q == [req[r] EXCEPT !.pc = "insert"]
    <3>1. req' = [req EXCEPT ![r] = q] /\ req[r].pc = "load"
      BY <2>2 DEF SaveLoad
    <3>2. /\ q \in WriteRequest /\ q.pc = "insert" /\ q.id = req[r].id
          /\ q.actor = req[r].actor /\ q.entity = req[r].entity
      BY <2>1 DEF WriteRequest, Saves
    <3> HIDE DEF q
    <3>3. WriteIsAllowed(q)
      BY <2>1, <3>1, <3>2 DEF WriteIsAllowed, Saves
    <3> QED BY <1>0, <2>1, <3>1, <3>3, GoesOn
  <2>3. CASE SaveLoad(r) /\ db[req[r].id] # None
    <3> DEFINE columns == Differing(req[r].entity, db[req[r].id], req[r].changed)
               q == [req[r] EXCEPT !.pc = "update", !.changed = columns]
    <3>1. req' = [req EXCEPT ![r] = q] /\ req[r].pc = "load"
      BY <2>3 DEF SaveLoad
    <3>2. columns \in SUBSET Columns
      BY <2>1 DEF Differing, WriteRequest
    <3> HIDE DEF columns
    <3>3. /\ q \in WriteRequest /\ q.pc = "update" /\ q.id = req[r].id
          /\ q.actor = req[r].actor /\ q.entity = req[r].entity
      BY <2>1, <3>2 DEF WriteRequest, Saves
    <3> HIDE DEF q
    <3>4. WriteIsAllowed(q)
      BY <2>1, <3>1, <3>3 DEF WriteIsAllowed, Saves
    <3> QED BY <1>0, <2>1, <3>1, <3>4, GoesOn
  <2>4. CASE SoftRemoveLoad(r) /\ db[req[r].id] = None
    BY <1>0, <2>1, <2>4, Refused DEF SoftRemoveLoad
  <2>5. CASE SoftRemoveLoad(r) /\ db[req[r].id] # None
    <3> DEFINE q == [req[r] EXCEPT !.pc = "softDelete"]
    <3>1. req' = [req EXCEPT ![r] = q] /\ req[r].pc = "softLoad"
      BY <2>5 DEF SoftRemoveLoad
    <3>2. /\ q \in WriteRequest /\ q.pc = "softDelete" /\ q.id = req[r].id
          /\ q.actor = req[r].actor /\ q.entity = req[r].entity
      BY <2>1 DEF WriteRequest, Deletions
    <3> HIDE DEF q
    <3>3. WriteIsAllowed(q)
      BY <2>1, <3>1, <3>2 DEF WriteIsAllowed, Saves
    <3> QED BY <1>0, <2>1, <3>1, <3>3, GoesOn
  <2> QED BY <1>1, <2>2, <2>3, <2>4, <2>5
<1>2. CASE SaveUpdate(r, TRUE) \/ SaveInsert(r, TRUE) \/ SoftDelete(r) \/ HardDelete(r, TRUE)
  BY <1>0, <1>2, ExecuteAllowed
  DEF SaveUpdate, SaveInsert, SoftDelete, HardDelete, Saves, Deletions
<1>3. CASE Count(r)
  BY <1>0, <1>3, Refused DEF Count, rows
<1> QED BY <1>1, <1>2, <1>3 DEF Continue, Statement

LEMMA FailAllowed ==
  ASSUME PostsInv, NEW r \in Reqs, Fail(r)
  PROVE  PostsInv' /\ Allowed
<1>1. /\ req[r].pc \in Saves \cup Deletions /\ req' = [req EXCEPT ![r] = Idle]
      /\ author' = author
      /\ UNCHANGED <<db, removed, carried>> \/ (db' = TableAfter(r) /\ Ends(r, TRUE))
  BY DEF Fail, FailWrite, Ends
<1> QED BY <1>1, Executed, Refused

\* A page is read and no row written.
LEMMA GetPostsAllowed ==
  ASSUME PostsInv, NEW r \in Reqs, NEW page, NEW limit, GetPosts(r, page, limit)
  PROVE  PostsInv' /\ Allowed
<1> DEFINE q == [pc |-> "count", query |-> None, page |-> page, limit |-> limit,
                 list |-> PageOf(Live, page, limit), seen |-> Live]
<1>1. req' = [req EXCEPT ![r] = q] /\ UNCHANGED <<db, removed, carried, author>>
  BY DEF GetPosts, Paginate, rows
<1>2. q.pc \notin Saves \cup Deletions
  BY DEF Saves, Deletions
<1> HIDE DEF q
<1> QED BY <1>1, <1>2, GoesOn

-----------------------------------------------------------------------------
(* Theorem *)

LEMMA NextAllowed == PostsInv /\ [Next]_vars => PostsInv' /\ [Allowed]_vars
<1> SUFFICES ASSUME PostsInv, [Next]_vars PROVE PostsInv' /\ [Allowed]_vars
  OBVIOUS
<1>1. CASE UNCHANGED vars
  BY <1>1 DEF vars, repository, rows, PostsInv, OwnersAreAuthors, WritesAreAllowed, WriteIsAllowed,
              Live, Stored
<1> QED
  BY <1>1, CreateAllowed, CreateAsAllowed, UpdateAllowed, DeleteAllowed, GetPostsAllowed, ContinueAllowed, FailAllowed
  DEF Next

\* A post whose id no create has brought along changes or goes only by a request
\* of its author, or for good by one of an administrator, for any users, posts
\* and requests and whatever fails.
THEOREM AuthorsKeepTheirPosts == Spec => OnlyAuthorsAndAdmins
<1>1. PostInit => PostsInv
  BY DEF PostInit, Init, Idle, PostsInv, OwnersAreAuthors, WritesAreAllowed, Saves, Deletions
<1>2. Spec => [][Allowed]_vars
  BY <1>1, NextAllowed, PTL DEF Spec
<1> QED BY <1>2 DEF OnlyAuthorsAndAdmins, Allowed

-----------------------------------------------------------------------------
(* Deleted posts *)

\* Posts and the requests that write them are as the repository needs them.
LEMMA PostsFit == PostsInv => WritesFit
<1> SUFFICES ASSUME PostsInv PROVE WritesFit
  OBVIOUS
<1>1. ASSUME NEW row \in Post, NEW entity \in Post PROVE SameColumns(entity, row)
  BY DEF Post, SameColumns
<1>2. \A r \in Reqs : Writes(r) => WriteIsAllowed(req[r])
  BY DEF PostsInv, WritesAreAllowed, Writes
<1>3. ASSUME NEW r \in Reqs, Writes(r) PROVE IsWrite(req[r])
  BY <1>2, <1>3 DEF WriteIsAllowed, IsWrite, WriteRequest
<1>4. ASSUME NEW r \in Reqs, req[r].pc \in Saves
      PROVE  req[r].entity \in Post /\ req[r].id \in Ids
  BY <1>2, <1>4 DEF WriteIsAllowed, WriteRequest, Writes
<1>5. \A id \in Ids : db[id] # None => db[id] \in Post
  BY DEF PostsInv
<1>6. db = [id \in Ids |-> db[id]] /\ req = [r \in Reqs |-> req[r]]
  BY DEF PostsInv
<1> QED BY <1>1, <1>3, <1>4, <1>5, <1>6, NoneAssumption DEF WritesFit

LEMMA ContinueDeleted ==
  ASSUME PostsInv, DeletedInv, NEW r \in Reqs, Continue(r)
  PROVE  DeletedInv' /\ DeletionsHold
<1>1. WritesFit
  BY PostsFit
<1>2. ASSUME NEW pc \in {"update", "insert", "softDelete", "delete"}, NEW accepted \in BOOLEAN,
             Execute(r, pc, accepted)
      PROVE  DeletedInv' /\ DeletionsHold
  BY <1>1, <1>2, ExecuteDeleted
<1>3. CASE SaveUpdate(r, TRUE) \/ SaveInsert(r, TRUE) \/ SoftDelete(r) \/ HardDelete(r, TRUE)
  BY <1>2, <1>3 DEF SaveUpdate, SaveInsert, SoftDelete, HardDelete
<1> QED BY <1>1, <1>3, LoadDeleted, PagesDeleted DEF Continue, Statement

LEMMA NextDeleted == PostsInv /\ DeletedInv /\ [Next]_vars => DeletedInv' /\ DeletionsHold
<1> SUFFICES ASSUME PostsInv, DeletedInv, [Next]_vars PROVE DeletedInv' /\ DeletionsHold
  OBVIOUS
<1>0. WritesFit
  BY PostsFit
<1>1. ASSUME NEW u, NEW id \in Ids, NEW body, CreatePost(id, u, body)
      PROVE  DeletedInv' /\ DeletionsHold
  BY <1>0, <1>1, InsertDeleted DEF CreatePost
<1>2. ASSUME NEW r \in Reqs, NEW u, NEW body, CreatePostAs(r, u, body)
      PROVE  DeletedInv' /\ DeletionsHold
  BY <1>0, <1>2, CarriedDeleted DEF CreatePostAs
<1>3. ASSUME NEW r \in Reqs, NEW u, NEW id, NEW body, UpdatePost(r, u, id, body)
      PROVE  DeletedInv' /\ DeletionsHold
  BY <1>0, <1>3, ProceedDeleted DEF UpdatePost, SaveEntity
<1>4. ASSUME NEW r \in Reqs, NEW u, NEW id, DeletePost(r, u, id) \/ AdminDeletePost(r, u, id)
      PROVE  DeletedInv' /\ DeletionsHold
  BY <1>0, <1>4, ProceedDeleted DEF DeletePost, AdminDeletePost, SoftRemove, DeleteById
<1>5. ASSUME NEW r \in Reqs, NEW page, NEW limit, GetPosts(r, page, limit)
      PROVE  DeletedInv' /\ DeletionsHold
  BY <1>0, <1>5, PagesDeleted DEF GetPosts
<1>6. ASSUME NEW r \in Reqs, Fail(r) PROVE DeletedInv' /\ DeletionsHold
  BY <1>0, <1>6, FailDeleted DEF Fail
<1>7. CASE UNCHANGED vars
  BY <1>7, StutterDeleted DEF vars
<1> QED BY <1>1, <1>2, <1>3, <1>4, <1>5, <1>6, <1>7, ContinueDeleted DEF Next

\* A deleted post whose id no create has brought along comes back only by an
\* update that had read it before the deletion and writes after it, whatever else
\* is under way or fails.
THEOREM DeletedPostsStay == Spec => DeletedStaysDeleted
<1>1. PostInit => PostsInv /\ DeletedInv
  BY InitDeleted DEF PostInit, Init, Idle, PostsInv, OwnersAreAuthors, WritesAreAllowed,
                     Saves, Deletions
<1>2. PostsInv /\ DeletedInv /\ [Next]_vars => PostsInv' /\ DeletedInv' /\ [DeletionsHold]_repository
  BY NextAllowed, NextDeleted DEF vars
<1>3. Spec => [][DeletionsHold]_repository
  BY <1>1, <1>2, PTL DEF Spec
<1> QED BY <1>3 DEF DeletedStaysDeleted, DeletionsHold

-----------------------------------------------------------------------------
(* Answers *)

LEMMA CreateShown ==
  ASSUME PostsInv, ShownInv, NEW id \in Ids, NEW u, NEW body, CreatePost(id, u, body)
  PROVE  ShownInv'
BY PostsFit, InsertShown DEF CreatePost

LEMMA CreateAsShown ==
  ASSUME PostsInv, ShownInv, NEW r \in Reqs, NEW u \in Users, NEW body \in Bodies,
         CreatePostAs(r, u, body)
  PROVE  ShownInv'
<1>1. body.id \in Ids
  BY BodyAssumption DEF CreatePostAs, Body
<1> QED BY <1>1, PostsFit, CarriedShown DEF CreatePostAs

LEMMA ContinueShown ==
  ASSUME PostsInv, ShownInv, NEW r \in Reqs, Continue(r)
  PROVE  ShownInv'
<1>1. WritesFit
  BY PostsFit
<1>2. ASSUME NEW pc \in {"update", "insert", "softDelete", "delete"}, NEW accepted,
             Execute(r, pc, accepted)
      PROVE  ShownInv'
  BY <1>1, <1>2, ExecuteShown
<1>3. CASE SaveUpdate(r, TRUE) \/ SaveInsert(r, TRUE) \/ SoftDelete(r) \/ HardDelete(r, TRUE)
  BY <1>2, <1>3 DEF SaveUpdate, SaveInsert, SoftDelete, HardDelete
<1> QED BY <1>1, <1>3, LoadShown, CountShown DEF Continue, Statement

LEMMA NextShown == PostsInv /\ ShownInv /\ [Next]_vars => ShownInv'
<1> SUFFICES ASSUME PostsInv, ShownInv, [Next]_vars PROVE ShownInv'
  OBVIOUS
<1>1. ASSUME NEW r \in Reqs, NEW u \in Users, NEW id \in Ids, NEW body \in Bodies,
             UpdatePost(r, u, id, body)
      PROVE  ShownInv'
  <2> DEFINE entity == Edited(db[id], body)
             asked == Written(u, body)
  <2>1. /\ Proceed(r, "load", id, u, entity, asked)
        /\ db[id] \in Post /\ db[id].owner = u /\ ~db[id].deleted
    BY <1>1 DEF UpdatePost, SaveEntity, Live, Stored, PostsInv
  <2>2. asked = Visible(entity)
    <3>1. db[id] = [owner |-> u, title |-> db[id].title, content |-> db[id].content,
                    deleted |-> db[id].deleted]
      BY <2>1 DEF Post
    <3>2. db[id].deleted = FALSE
      BY <2>1 DEF Post
    <3>3. entity = [[owner |-> u, title |-> db[id].title, content |-> db[id].content,
                     deleted |-> FALSE] EXCEPT !.title = body.title, !.content = body.content]
      BY <3>1, <3>2, Zenon DEF Edited
    <3>4. entity = [owner |-> u, title |-> body.title, content |-> body.content,
                    deleted |-> FALSE]
      BY <3>3
    <3>5. entity = asked /\ ~entity.deleted
      BY <3>4 DEF Written
    <3>6. entity # None
      BY <3>5, EntityIsPost, NoneAssumption
    <3> HIDE DEF entity, asked
    <3> QED BY <3>5, <3>6 DEF Visible
  <2> HIDE DEF entity, asked
  <2> QED BY <2>1, <2>2, PostsFit, ProceedShown
<1>2. ASSUME NEW r \in Reqs, NEW u \in Users, NEW id \in Ids,
             DeletePost(r, u, id) \/ AdminDeletePost(r, u, id)
      PROVE  ShownInv'
  BY <1>2, PostsFit, ProceedShown DEF DeletePost, AdminDeletePost, SoftRemove, DeleteById
<1>3. ASSUME NEW r \in Reqs, NEW page, NEW limit, GetPosts(r, page, limit)
      PROVE  ShownInv'
  BY <1>3, PostsFit, PaginateShown DEF GetPosts
<1>4. ASSUME NEW r \in Reqs, Fail(r) PROVE ShownInv'
  BY <1>4, PostsFit, FailShown DEF Fail
<1>5. CASE UNCHANGED vars
  BY <1>5, StutterShown DEF vars
<1> QED BY <1>1, <1>2, <1>3, <1>4, <1>5, CreateShown, CreateAsShown, ContinueShown DEF Next

\* Finds show of a post what the last answered request made of it, whatever
\* requests of other posts do; only overlaps, failures and creates that bring its
\* id along excuse it.
THEOREM AnswersAreShown == Spec => []AnsweredIsShown
<1>1. PostInit => PostsInv /\ ShownInv
  BY InitShown DEF PostInit, Init, Idle, PostsInv, OwnersAreAuthors, WritesAreAllowed,
                   Saves, Deletions
<1>2. PostsInv /\ ShownInv /\ [Next]_vars => PostsInv' /\ ShownInv'
  BY NextAllowed, NextShown
<1>3. ShownInv => AnsweredIsShown
  BY DEF ShownInv, AnsweredIsShown
<1> QED BY <1>1, <1>2, <1>3, PTL DEF Spec

-----------------------------------------------------------------------------
(* Types *)

\* A request goes on, or a new one starts, with q to do next.
LEMMA GoesOnTyped ==
  ASSUME TypeOK, NEW r \in Reqs, NEW q \in {Idle} \cup WriteRequest \cup CountRequest,
         req' = [req EXCEPT ![r] = q], q.pc \in Saves => q.entity \in Post,
         db' \in [Ids -> Post \cup {None}], expected' \in [Ids -> Post \cup {None}],
         disturbed' \subseteq Ids, carried' \subseteq Ids, removed' \subseteq Ids,
         overtaken' \subseteq Reqs, author' \in [Ids -> Users \cup {None}]
  PROVE  TypeOK'
<1>1. /\ req' \in [Reqs -> {Idle} \cup WriteRequest \cup CountRequest]
      /\ req'[r] = q
      /\ \A s \in Reqs \ {r} : req'[s] = req[s]
  BY DEF TypeOK
<1>2. \A s \in Reqs : req'[s].pc \in Saves => req'[s].entity \in Post
  BY <1>1 DEF TypeOK
<1> QED BY <1>1, <1>2 DEF TypeOK

\* A free slot has nothing to write.
LEMMA IdleIsTyped == Idle.pc \notin Saves \cup Deletions
  BY DEF Idle, Saves, Deletions

\* A request that writes is a record of its own kind.
LEMMA WriterTyped ==
  ASSUME TypeOK, NEW r \in Reqs, req[r].pc \in Saves \cup Deletions
  PROVE  /\ req[r] \in WriteRequest /\ req[r].id \in Ids
         /\ RowAfter(req[r], db[req[r].id]) \in Post \cup {None}
         /\ TableAfter(r) \in [Ids -> Post \cup {None}]
<1>1. req[r] \in WriteRequest
  BY IdleIsTyped DEF TypeOK, CountRequest, Saves, Deletions
<1>2. req[r].id \in Ids /\ db[req[r].id] \in Post \cup {None}
  BY <1>1 DEF TypeOK, WriteRequest
<1>3. RowAfter(req[r], db[req[r].id]) \in Post \cup {None}
  BY <1>2, RowAfterPost DEF TypeOK
<1>4. TableAfter(r) = [db EXCEPT ![req[r].id] = RowAfter(req[r], db[req[r].id])]
  BY <1>2 DEF TableAfter, TypeOK
<1> QED BY <1>1, <1>2, <1>3, <1>4 DEF TypeOK

LEMMA CreateTyped ==
  ASSUME TypeOK, NEW u \in Users, NEW id \in Ids, NEW body \in Bodies, CreatePost(id, u, body)
  PROVE  TypeOK'
<1>1. ToEntity(u, body) \in Post /\ Visible(ToEntity(u, body)) \in Post \cup {None}
  BY EntityIsPost DEF Visible
<1> QED BY <1>1 DEF CreatePost, InsertNew, TypeOK

LEMMA CreateAsTyped ==
  ASSUME TypeOK, NEW r \in Reqs, NEW u \in Users, NEW body \in Bodies, CreatePostAs(r, u, body)
  PROVE  TypeOK'
<1> DEFINE q == [pc |-> "load", id |-> body.id, actor |-> u, entity |-> ToEntity(u, body),
                 changed |-> ColumnsOf(body), asked |-> Visible(ToEntity(u, body))]
<1>1. /\ req' = [req EXCEPT ![r] = q] /\ UNCHANGED <<db, removed, overtaken, author>>
      /\ carried' = carried \cup {body.id} /\ disturbed' = disturbed \cup {body.id}
      /\ expected' = [expected EXCEPT ![body.id] = None] /\ body.id \in Ids
  BY BodyAssumption DEF CreatePostAs, SaveCarried, Await, Body
<1>2. WriteIsTyped(q)
  BY CarriedIsTyped DEF CreatePostAs
<1> HIDE DEF q
<1>3. q \in WriteRequest /\ (q.pc \in Saves => q.entity \in Post)
  BY <1>2 DEF WriteIsTyped
<1> QED BY <1>1, <1>3, GoesOnTyped DEF TypeOK

LEMMA ProceedTyped ==
  ASSUME TypeOK, NEW r \in Reqs, NEW id \in Ids, NEW pc \in Saves \cup Deletions,
         NEW actor \in Users, NEW entity \in Post \cup {None}, NEW asked \in Post \cup {None},
         Proceed(r, pc, id, actor, entity, asked), author' = author,
         pc \in Saves => entity \in Post
  PROVE  TypeOK'
<1> DEFINE q == [pc |-> pc, id |-> id, actor |-> actor, entity |-> entity,
                 changed |-> DOMAIN db[id], asked |-> asked]
<1>1. req' = [req EXCEPT ![r] = q] /\ UNCHANGED <<db, carried, removed, overtaken>>
  BY DEF Proceed, Await
<1>2. q \in WriteRequest /\ q.pc = pc /\ q.entity = entity
  <2>1. DOMAIN db[id] = Columns
    BY DEF Proceed, Live, Stored, TypeOK, Post, Columns
  <2> QED BY <2>1 DEF WriteRequest
<1>3. disturbed' \subseteq Ids /\ expected' \in [Ids -> Post \cup {None}]
  BY DEF Proceed, TypeOK
<1> HIDE DEF q
<1> QED BY <1>1, <1>2, <1>3, GoesOnTyped DEF TypeOK

LEMMA WritesTyped ==
  ASSUME TypeOK, NEW r \in Reqs, NEW u \in Users, NEW id \in Ids,
         \/ \E body \in Bodies : UpdatePost(r, u, id, body)
         \/ DeletePost(r, u, id) \/ AdminDeletePost(r, u, id)
  PROVE  TypeOK'
<1>1. ASSUME NEW body \in Bodies, UpdatePost(r, u, id, body) PROVE TypeOK'
  <2>1. db[id] \in Post
    BY <1>1 DEF UpdatePost, Live, Stored, TypeOK
  <2>2. Edited(db[id], body) \in Post /\ Written(u, body) \in Post
    BY <2>1, BodyAssumption, EntityIsPost DEF Edited, Post, Body
  <2> QED BY <1>1, <2>2, ProceedTyped DEF UpdatePost, SaveEntity, Saves
<1>2. CASE DeletePost(r, u, id)
  BY <1>2, ProceedTyped DEF DeletePost, SoftRemove, Saves, Deletions
<1>3. CASE AdminDeletePost(r, u, id)
  BY <1>3, ProceedTyped DEF AdminDeletePost, DeleteById, Saves, Deletions
<1> QED BY <1>1, <1>2, <1>3

\* A page of posts is a sequence of their ids.
LEMMA GetPostsTyped ==
  ASSUME IdAssumption, TypeOK, NEW r \in Reqs, NEW page \in Pages, NEW limit \in Limits,
         GetPosts(r, page, limit)
  PROVE  TypeOK'
<1> DEFINE list == PageOf(Live, page, limit)
           q == [pc |-> "count", query |-> None, page |-> page, limit |-> limit,
                 list |-> list, seen |-> Live]
<1>1. /\ req' = [req EXCEPT ![r] = q]
      /\ UNCHANGED <<db, expected, disturbed, carried, removed, overtaken, author>>
  BY DEF GetPosts, Paginate, rows
<1>2. Live \in SUBSET Ids /\ Live \in SUBSET Nat /\ IsFiniteSet(Live)
  BY IdAssumption, FS_Subset DEF Live, Stored
<1>3. list \in Seq(Ids)
  <2>1. list \in Seq(Live)
    BY <1>2, PageAssumption, PageHolds
  <2> QED BY <1>2, <2>1, SeqMonotonic
<1> HIDE DEF list
<1>4. q \in CountRequest /\ q.pc \notin Saves
  BY <1>2, <1>3 DEF CountRequest, Saves
<1> HIDE DEF q
<1> QED BY <1>1, <1>4, GoesOnTyped DEF TypeOK

LEMMA AnsweredTyped ==
  ASSUME TypeOK, NEW r \in Reqs, req' = [req EXCEPT ![r] = Idle],
         db' \in [Ids -> Post \cup {None}], expected' \in [Ids -> Post \cup {None}],
         disturbed' \subseteq Ids, carried' \subseteq Ids, removed' \subseteq Ids,
         overtaken' \subseteq Reqs, author' = author
  PROVE  TypeOK'
BY IdleIsTyped, GoesOnTyped DEF TypeOK

LEMMA ContinueTyped ==
  ASSUME TypeOK, NEW r \in Reqs, Continue(r)
  PROVE  TypeOK'
<1>0. author' = author
  BY DEF Continue
<1>1. CASE SaveLoad(r) \/ SoftRemoveLoad(r)
  <2>1. /\ req[r] \in WriteRequest /\ req[r].id \in Ids /\ req[r].pc \in {"load", "softLoad"}
        /\ UNCHANGED rows
        /\ req[r].pc = "load" => req[r].entity \in Post
    BY <1>1, WriterTyped DEF SaveLoad, SoftRemoveLoad, TypeOK, Saves, Deletions
  <2>2. CASE SaveLoad(r) /\ db[req[r].id] = None
    <3> DEFINE q == [req[r] EXCEPT !.pc = "insert"]
    <3>1. req' = [req EXCEPT ![r] = q] /\ req[r].pc = "load"
      BY <2>2 DEF SaveLoad
    <3>2. q \in WriteRequest /\ q.entity = req[r].entity
      BY <2>1 DEF WriteRequest, Saves
    <3> HIDE DEF q
    <3> QED BY <1>0, <2>1, <3>1, <3>2, GoesOnTyped DEF TypeOK, rows
  <2>3. CASE SaveLoad(r) /\ db[req[r].id] # None
    <3> DEFINE columns == Differing(req[r].entity, db[req[r].id], req[r].changed)
               q == [req[r] EXCEPT !.pc = "update", !.changed = columns]
    <3>1. req' = [req EXCEPT ![r] = q] /\ req[r].pc = "load"
      BY <2>3 DEF SaveLoad
    <3>2. columns \in SUBSET Columns
      BY <2>1 DEF Differing, WriteRequest
    <3> HIDE DEF columns
    <3>3. q \in WriteRequest /\ q.entity = req[r].entity
      BY <2>1, <3>2 DEF WriteRequest, Saves
    <3> HIDE DEF q
    <3> QED BY <1>0, <2>1, <3>1, <3>3, GoesOnTyped DEF TypeOK, rows
  <2>4. CASE SoftRemoveLoad(r) /\ db[req[r].id] = None
    BY <1>0, <2>1, <2>4, AnsweredTyped DEF SoftRemoveLoad, TypeOK, rows
  <2>5. CASE SoftRemoveLoad(r) /\ db[req[r].id] # None
    <3> DEFINE q == [req[r] EXCEPT !.pc = "softDelete"]
    <3>1. req' = [req EXCEPT ![r] = q]
      BY <2>5 DEF SoftRemoveLoad
    <3>2. q \in WriteRequest /\ q.pc \notin Saves
      BY <2>1 DEF WriteRequest, Saves, Deletions
    <3> HIDE DEF q
    <3> QED BY <1>0, <2>1, <3>1, <3>2, GoesOnTyped DEF TypeOK, rows
  <2> QED BY <1>1, <2>2, <2>3, <2>4, <2>5
<1>2. CASE SaveUpdate(r, TRUE) \/ SaveInsert(r, TRUE) \/ SoftDelete(r) \/ HardDelete(r, TRUE)
  <2>1. PICK accepted \in BOOLEAN, pc \in Saves \cup Deletions : Execute(r, pc, accepted)
    BY <1>2 DEF SaveUpdate, SaveInsert, SoftDelete, HardDelete, Saves, Deletions
  <2>2. /\ req[r].pc \in Saves \cup Deletions /\ req' = [req EXCEPT ![r] = Idle]
        /\ req[r].id \in Ids /\ req[r].asked \in Post \cup {None}
        /\ TableAfter(r) \in [Ids -> Post \cup {None}]
    BY <2>1, WriterTyped DEF Execute, WriteRequest
  <2>3. /\ db' \in [Ids -> Post \cup {None}] /\ expected' \in [Ids -> Post \cup {None}]
        /\ disturbed' \subseteq Ids /\ carried' \subseteq Ids /\ removed' \subseteq Ids
        /\ overtaken' \subseteq Reqs
    BY <2>1, <2>2 DEF Execute, Ends, TypeOK
  <2> QED BY <1>0, <2>2, <2>3, AnsweredTyped
<1>3. CASE Count(r)
  BY <1>0, <1>3, AnsweredTyped DEF Count, rows, TypeOK
<1> QED BY <1>1, <1>2, <1>3 DEF Continue, Statement

LEMMA FailTyped ==
  ASSUME TypeOK, NEW r \in Reqs, Fail(r)
  PROVE  TypeOK'
<1>1. /\ req[r].pc \in Saves \cup Deletions /\ req' = [req EXCEPT ![r] = Idle]
      /\ author' = author /\ expected' = [expected EXCEPT ![req[r].id] = None]
  BY DEF Fail, FailWrite
<1>2. req[r].id \in Ids /\ TableAfter(r) \in [Ids -> Post \cup {None}]
  BY <1>1, WriterTyped
<1>3. /\ db' \in [Ids -> Post \cup {None}]
      /\ disturbed' \subseteq Ids /\ carried' \subseteq Ids /\ removed' \subseteq Ids
      /\ overtaken' \subseteq Reqs
  BY <1>1, <1>2 DEF Fail, FailWrite, Ends, TypeOK
<1> QED BY <1>1, <1>3, AnsweredTyped DEF TypeOK

\* Posts, requests and pages keep their shape, for any users, posts and pages.
THEOREM PostTypes == Spec => []TypeOK
<1>1. PostInit => TypeOK
  BY IdleIsTyped DEF PostInit, Init, TypeOK
<1>2. TypeOK /\ [Next]_vars => TypeOK'
  <2> SUFFICES ASSUME TypeOK, [Next]_vars PROVE TypeOK'
    OBVIOUS
  <2>1. CASE UNCHANGED vars
    BY <2>1 DEF vars, repository, rows, TypeOK
  <2> QED BY <2>1, IdAssumption, CreateTyped, CreateAsTyped, WritesTyped, GetPostsTyped, ContinueTyped, FailTyped
          DEF Next
<1> QED BY <1>1, <1>2, PTL DEF Spec

=============================================================================
