------------------------------ MODULE MCPosts -------------------------------
(***************************************************************************)
(* A small instance of Posts for TLC: an author and an administrator who   *)
(* writes too, three requests that overlap, and two bodies without a       *)
(* column in common, so that the columns of two updates can mix.  Each is  *)
(* sent with the declared fields only, and with an id: one then restores   *)
(* what was soft-deleted, the other writes to it where it is.              *)
(***************************************************************************)
EXTENDS Posts

CONSTANTS author1, admin, r1, r2, r3, t1, t2, c1

BodyWith(title, content, id, deleted) ==
    [title |-> title, content |-> content, id |-> id, deleted |-> deleted]
MCBodies ==
    { BodyWith(t1, c1, None, None), BodyWith(t2, None, None, None),
      BodyWith(t1, c1, 1, None), BodyWith(t2, None, 1, FALSE) }

\* Requests are interchangeable.
Symmetry == Permutations(Reqs)

=============================================================================
