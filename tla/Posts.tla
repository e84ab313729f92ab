------------------------------- MODULE Posts --------------------------------
(***************************************************************************)
(* Posts: written, changed and soft-deleted by their authors, deleted for  *)
(* good by administrators, listed for everyone.  The user of a request is  *)
(* the one the guards let in (AuthSession); its role is read with it.      *)
(***************************************************************************)
EXTENDS Repository

CONSTANTS
    Users,  \* ids of the users
    Admins, \* users whose role is admin, as they signed up or were seeded
    Titles, Contents,
    Bodies, \* the bodies clients send
    Limits, \* page lengths clients ask for
    Pages   \* page numbers clients ask for

ASSUME UserAssumption == Admins \subseteq Users /\ None \notin Users
ASSUME PageAssumption == Limits \cup Pages \subseteq Nat \ {0}

\* The bodies that pass validation; a content may be null.  The pipe has no
\* whitelist: an id and a deletedAt that clients send along are not declared and
\* get through all the same.  None stands for what is not sent.
Body == [title : Titles, content : Contents \cup {None},
         id : Ids \cup {None}, deleted : BOOLEAN \cup {None}]
ASSUME BodyAssumption == Bodies \subseteq Body

VARIABLE author \* history: who wrote the post, or None

vars == <<repository, author>>

Post == [owner : Users, title : Titles, content : Contents \cup {None}, deleted : BOOLEAN]
Columns == {"owner", "title", "content", "deleted"}

ASSUME NoneAssumption == None \notin Post \cup Ids \cup BOOLEAN

PostInit == Init /\ author = [id \in Ids |-> None]

-----------------------------------------------------------------------------
(* Authors *)

\* What the declared fields of a body make of a post of user u.
Written(u, body) ==
    [owner |-> u, title |-> body.title, content |-> body.content, deleted |-> FALSE]

\* Mutated form: the entity is made of the body alone.
ToEntityUnowned(u, body) == [Written(u, body) EXCEPT !.owner = None]

\* toEntity spreads the whole body, undeclared fields too.
ToEntity(u, body) == [Written(u, body) EXCEPT !.deleted = (body.deleted = TRUE)]
ColumnsOf(body) == {c \in Columns : c = "deleted" => body.deleted # None}

\* POST posts without an id, which is what the declared fields come to
CreatePost(id, u, body) ==
    /\ body.id = None
    /\ InsertNew(id, ToEntity(u, body))
    /\ author' = [author EXCEPT ![id] = u]

\* POST posts with an id: save writes to the post of that id, whoever wrote it.
CreatePostAs(r, u, body) ==
    /\ body.id # None
    /\ SaveCarried(r, body.id, u, ToEntity(u, body), ColumnsOf(body))
    /\ UNCHANGED author

\* Mutated form: the content stays as it was.
EditedTitle(post, body) == [post EXCEPT !.title = body.title]

Edited(post, body) == [post EXCEPT !.title = body.title, !.content = body.content]

\* Mutated form: anybody may change a post.
UpdatePostOfAnyone(r, u, id, body) ==
    /\ id \in Live
    /\ SaveEntity(r, id, u, Edited(db[id], body), Written(u, body))
    /\ UNCHANGED author

\* PATCH posts/:id: the post is read, its owner compared, the entity saved.  Of
\* the body title and content are taken, whatever else it has.
UpdatePost(r, u, id, body) ==
    /\ id \in Live /\ db[id].owner = u
    /\ SaveEntity(r, id, u, Edited(db[id], body), Written(u, body))
    /\ UNCHANGED author

\* DELETE posts/:id
DeletePost(r, u, id) ==
    /\ id \in Live /\ db[id].owner = u
    /\ SoftRemove(r, id, u)
    /\ UNCHANGED author

-----------------------------------------------------------------------------
(* Administrators *)

\* RolesGuard with @Roles(Role.ADMIN)
RolesGuard(u) == u \in Admins

\* DELETE admin/posts/:id
AdminDeletePost(r, u, id) ==
    /\ RolesGuard(u)
    /\ DeleteById(r, id, u)
    /\ UNCHANGED author

-----------------------------------------------------------------------------
(* Readers *)

\* GET posts: public, no filter and no order.
GetPosts(r, page, limit) ==
    /\ Paginate(r, None, page, limit, Live)
    /\ UNCHANGED author

-----------------------------------------------------------------------------
\* The statements that the awaits of UpdatePost, DeletePost and
\* AdminDeletePost stand for; no constraint of the table refuses one.
Statement(r) ==
    \/ SaveLoad(r) \/ SoftRemoveLoad(r)
    \/ SaveUpdate(r, TRUE) \/ SaveInsert(r, TRUE)
    \/ SoftDelete(r) \/ HardDelete(r, TRUE)

Continue(r) == (Statement(r) \/ Count(r)) /\ UNCHANGED author
Fail(r) == FailWrite(r) /\ UNCHANGED author

Next ==
    \/ \E u \in Users, id \in Ids, body \in Bodies : CreatePost(id, u, body)
    \/ \E r \in Reqs :
          \/ \E u \in Users, body \in Bodies : CreatePostAs(r, u, body)
          \/ \E u \in Users, id \in Ids :
                \/ \E body \in Bodies : UpdatePost(r, u, id, body)
                \/ DeletePost(r, u, id)
                \/ AdminDeletePost(r, u, id)
          \/ \E page \in Pages, limit \in Limits : GetPosts(r, page, limit)
          \/ Continue(r)
          \/ Fail(r)

Spec == PostInit /\ [][Next]_vars

-----------------------------------------------------------------------------
(* Properties *)

WriteRequest ==
    [pc : Saves \cup Deletions, id : Ids, actor : Users, entity : Post \cup {None},
     changed : SUBSET Columns, asked : Post \cup {None}]
CountRequest ==
    [pc : {"count"}, query : {None}, page : Pages, limit : Limits,
     list : Seq(Ids), seen : SUBSET Ids]

\* Every variable keeps its shape; a save has an entity to write.
TypeOK ==
    /\ db \in [Ids -> Post \cup {None}] /\ expected \in [Ids -> Post \cup {None}]
    /\ req \in [Reqs -> {Idle} \cup WriteRequest \cup CountRequest]
    /\ \A r \in Reqs : req[r].pc \in Saves => req[r].entity \in Post
    /\ disturbed \subseteq Ids /\ carried \subseteq Ids /\ removed \subseteq Ids
    /\ overtaken \subseteq Reqs
    /\ author \in [Ids -> Users \cup {None}]

\* A post changes or goes only by a request of its author, or for good by one
\* of an administrator, though the owner is compared with a row read earlier
\* than the one that is written.  That is so as long as no create brings the id
\* of the post along: such a create is not compared with anything.
OnlyAuthorsAndAdmins ==
    [][\A id \in Ids \ carried : db[id] # None /\ db'[id] # db[id] =>
           \E r \in Reqs : req[r] # Idle /\ req[r].pc # "count" /\ req[r].id = id /\
               \/ req[r].actor = author[id]
               \/ req[r].actor \in Admins /\ db'[id] = None]_vars

-----------------------------------------------------------------------------
(* What the documentation says and the code does not do *)

\* A post that was deleted successfully is deleted (admin.controller.ts:32), as
\* long as no create brings its id along.
DeletedIsGone == \A id \in removed \ carried : id \notin Live

-----------------------------------------------------------------------------
(* The inductive invariant *)

\* The owner of a row is who wrote the post.
OwnersAreAuthors ==
    \A id \in Ids \ carried : db[id] # None => db[id].owner = author[id]

\* A write in flight is that of the author, or the deletion of an
\* administrator, and its row was seen: no new post can take its place.
WriteIsAllowed(q) ==
    /\ q \in WriteRequest
    /\ q.pc \in Saves => q.entity \in Post
    /\ q.id \notin carried =>
          /\ q.id \in Live \cup removed
          /\ IF q.pc = "delete" THEN q.actor \in Admins ELSE q.actor = author[q.id]
          /\ q.pc \in Saves => q.entity.owner = author[q.id]

WritesAreAllowed ==
    \A r \in Reqs : req[r].pc \in Saves \cup Deletions => WriteIsAllowed(req[r])

PostsInv ==
    /\ db \in [Ids -> Post \cup {None}] /\ author \in [Ids -> Users \cup {None}]
    /\ req = [r \in Reqs |-> req[r]]
    /\ OwnersAreAuthors /\ WritesAreAllowed

=============================================================================
