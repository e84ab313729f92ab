--------------------------- MODULE MCAuthSession ---------------------------
(***************************************************************************)
(* Small instances of AuthSession for TLC.  A second has two ticks or      *)
(* three, so that an entry that is too short-lived by less than a second   *)
(* shows; access tokens live one second and refresh tokens two, so that    *)
(* tokens and entries expire within MaxTime.                               *)
(***************************************************************************)
EXTENDS AuthSession, Expirations, TLC

CONSTANTS u1, u2, r1, r2

\* Tokens of one second, and of two, and the entries they get.
InSeconds(n) == [whole |-> n, tenths |-> 0, unit |-> "s"]
LifeOf1 == JwtSeconds(InSeconds(1))
LifeOf2 == JwtSeconds(InSeconds(2))
TtlOf1 == ParseExpiration(InSeconds(1))
TtlOf2 == ParseExpiration(InSeconds(2))

\* Users are alike, the slots of requests are alike, and no invariant names one.
Symmetry == Permutations({u1, u2}) \cup Permutations({r1, r2})
ReqSymmetry == Permutations({r1, r2})

=============================================================================
