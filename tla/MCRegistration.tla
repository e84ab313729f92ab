---------------------------- MODULE MCRegistration ----------------------------
(***************************************************************************)
(* Small instances of Registration for TLC: two requests, of which one can *)
(* wait for a lock that the other holds, and three ids, so that each may   *)
(* make a row of its own beside one from before.  Bodies have the declared *)
(* fields only, or an id too: that of a user, or one that nobody has.      *)
(***************************************************************************)
EXTENDS Registration

CONSTANTS e1, e2, i1, i2, i3, r1, r2

PlainBodies == [email : Emails, id : {None}]
AllBodies == [email : Emails, id : Ids \cup {None}]

=============================================================================
