--------------------------- MODULE MCUserProfile ---------------------------
(***************************************************************************)
(* Small instances of UserProfile for TLC: two requests are the least in   *)
(* which updates overlap, two or three users the least of which pages      *)
(* split the ranking; a cached profile lives one tick or two.              *)
(***************************************************************************)
EXTENDS UserProfile, TLC

CONSTANTS u1, u2, u3, r1, r2, n1, n2

\* Users, requests and nicknames are interchangeable in every invariant.
Symmetry == Permutations(Users) \cup Permutations(Reqs) \cup Permutations(Nicknames)

=============================================================================
