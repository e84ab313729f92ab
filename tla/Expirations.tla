----------------------------- MODULE Expirations ----------------------------
(***************************************************************************)
(* JWT_ACCESS_EXPIRATION and JWT_REFRESH_EXPIRATION are read twice: by     *)
(* jsonwebtoken, which gives a token its life, and by JwtService, which    *)
(* gives the cache entries of that token theirs.  A string such as "15m"   *)
(* or "1.5 hours" is a number, to one decimal, and a unit.                 *)
(***************************************************************************)
EXTENDS Naturals

Units == {"s", "m", "h", "d", "ms", "min", "hours", "w"}
Expirations == [whole : Nat, tenths : 0 .. 9, unit : Units]

\* jsonwebtoken: milliseconds of a unit, and the seconds a token lives.
Millis == [ms |-> 1, s |-> 1000, m |-> 60000, min |-> 60000, h |-> 3600000,
           hours |-> 3600000, d |-> 86400000, w |-> 604800000]
JwtSeconds(e) == ((10 * e.whole + e.tenths) * Millis[e.unit]) \div 10000

\* parseExpirationToSeconds goes by the last letter of the unit.
LastLetter == [ms |-> "s", s |-> "s", m |-> "m", min |-> "n", h |-> "h",
               hours |-> "s", d |-> "d", w |-> "w"]
Seconds == [s |-> 1, m |-> 60, h |-> 60 * 60, d |-> 60 * 60 * 24]

\* parseInt drops the decimals, and an hour stands for any other letter.
ParseExpiration(e) ==
    IF LastLetter[e.unit] \in DOMAIN Seconds
    THEN e.whole * Seconds[LastLetter[e.unit]]
    ELSE 3600

=============================================================================
