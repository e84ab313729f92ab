---------------------------- MODULE AuthSession ----------------------------
(***************************************************************************)
(* Sign-in, refresh, sign-out and the guards of protected routes, over the *)
(* token store that JwtService keeps in the cache: one refresh token per   *)
(* user and a blacklist of access tokens.  Every HTTP request is a small   *)
(* process; a request runs without interruption between two awaits that    *)
(* leave the event loop.  With MockCacheService (the one cache.module.ts   *)
(* wires) an awaited cache call stays in the same turn of the event loop;  *)
(* with the Redis CacheService every cache call lets other requests run.   *)
(***************************************************************************)
EXTENDS Integers

CONSTANTS
    Users,          \* user ids
    Reqs,           \* slots for requests the process handles at a time
    None,           \* model value: no entry, no token, nobody's turn
    TicksPerSecond, \* clock ticks (the cache counts milliseconds) in a second
    AccessLife,     \* life of an access token in seconds, as jwt reads it
    RefreshLife,    \* life of a refresh token in seconds, as jwt reads it
    BlacklistTtl,   \* seconds parseExpirationToSeconds gives a blacklist entry
    RefreshTtl,     \* seconds parseExpirationToSeconds gives a refresh token
    RemoteCache,    \* TRUE: CacheService (Redis), FALSE: MockCacheService
    MaxTime,        \* bound on the clock
    MaxRestarts     \* bound on the restarts of the process

\* The clock has at least one tick a second.
ASSUME ClockAssumption == TicksPerSecond \in Nat \ {0}
\* A blacklist entry is kept at least as long as the access token it names;
\* JwtExpiration strings of the forms "15m", "2h", "7d" satisfy it.
ASSUME TtlAssumption ==
    /\ AccessLife \in Nat \ {0} /\ RefreshLife \in Nat \ {0}
    /\ BlacklistTtl \in Nat /\ BlacklistTtl >= AccessLife
    /\ RefreshTtl \in Nat \ {0}
ASSUME ModeAssumption == RemoteCache \in BOOLEAN
ASSUME NoneAssumption == None \notin Users \cup Reqs

VARIABLES
    now,          \* the clock, in ticks
    running,      \* the request that holds the event loop's turn, or None
    req,          \* what each request has done so far
    issued,       \* the tokens that responses have handed to clients
    refreshStore, \* cache: user -> entry of the user's refresh token, or None
    blacklist,    \* cache: entries of blacklisted access tokens
    revoked,      \* history: access tokens whose sign-out completed
    signedOut,    \* history: users that signed out and have not signed in since
    restarts      \* restarts so far

vars == <<now, running, req, issued, refreshStore, blacklist,
          revoked, signedOut, restarts>>
cache == <<refreshStore, blacklist>>
history == <<revoked, signedOut, restarts>>

-----------------------------------------------------------------------------
(* Tokens and cache entries *)

Token == [sub : Users, type : {"access", "refresh"}, iat : Nat]

Never == -1
Expiry == Nat \cup {Never}
RefreshEntry == [token : Token, expiresAt : Expiry]
BlacklistEntry == [token : Token, expiresAt : Expiry]

\* No token and no cache entry is taken for the absence of one.
ASSUME EntryAssumption == None \notin Token \cup RefreshEntry

\* jsonwebtoken stamps and compares whole seconds.
Sec(t) == t \div TicksPerSecond
Life(type) == IF type = "access" THEN AccessLife ELSE RefreshLife
Verifies(t, type) == t.type = type /\ Sec(now) < t.iat + Life(type)

\* A token carries no id of its own: two tokens of one user and one type
\* signed in the same second are the same string.
Sign(u, type) == [sub |-> u, type |-> type, iat |-> Sec(now)]
Pair(u, i) == [sub : {u}, type : {"access", "refresh"}, iat : {i}]

Expired(at) == at # Never /\ now > at
Kept(entry) == IF entry # None /\ Expired(entry.expiresAt) THEN None ELSE entry
Blacklisted(t) == \E e \in blacklist : e.token = t /\ ~Expired(e.expiresAt)

\* Mutated form: the TTL, in seconds, is added to a clock in ticks.
ExpiryInTicks(ttl) == IF RemoteCache THEN Never ELSE now + ttl

\* The entry a set leaves: one write in memory, SET and then EXPIRE in Redis.
ExpiryOfSet(ttl) == IF RemoteCache THEN Never ELSE now + ttl * TicksPerSecond

\* Every get first drops what has expired.
CacheGet ==
    /\ refreshStore' = [u \in Users |-> Kept(refreshStore[u])]
    /\ blacklist' = {e \in blacklist : ~Expired(e.expiresAt)}

-----------------------------------------------------------------------------
(* Requests *)

Locations == {"idle", "credentials", "rotating", "storeExpiry", "accessGuard",
              "lookup", "handler", "blacklisting", "blacklistExpiry"}

\* Where a guarded request stands once both guards have let it in.
AdmittedAt == {"handler", "blacklisting", "blacklistExpiry"}

\* History of a request: what held of its token when it arrived.
Marks == {"revoked"}
Request == [pc : Locations, user : Users \cup {None}, token : Token \cup {None},
            arrived : SUBSET Marks]
Idle == [pc |-> "idle", user |-> None, token |-> None, arrived |-> {}]
Awaiting(pc, u, t, a) == [pc |-> pc, user |-> u, token |-> t, arrived |-> a]

\* Mutated form: a cache call in memory that lets other requests run too.
TurnAlwaysYielded(r) == None

\* Who may run next after an awaited cache call of request r.
TurnAfterCache(r) == IF RemoteCache THEN None ELSE r
MayRun(r) == running \in {r, None}

Arrives(r) == running = None /\ req[r] = Idle
Resumes(r, pc) == MayRun(r) /\ req[r].pc = pc
Goto(r, pc) == req' = [req EXCEPT ![r].pc = pc]
Answer(r) == req' = [req EXCEPT ![r] = Idle] /\ running' = None

Init ==
    /\ now = 0
    /\ running = None
    /\ req = [r \in Reqs |-> Idle]
    /\ issued = {}
    /\ refreshStore = [u \in Users |-> None]
    /\ blacklist = {}
    /\ revoked = {} /\ signedOut = {}
    /\ restarts = 0

-----------------------------------------------------------------------------
(* Sign-in and refresh *)

\* POST auth/sign-in is public; validateUser awaits the database and bcrypt.
SignIn(r, u) ==
    /\ Arrives(r)
    /\ req' = [req EXCEPT ![r] = Awaiting("credentials", u, None, {})]
    /\ UNCHANGED <<now, running, issued, cache, history>>

\* Mutated form: the access token is stored in the place of the refresh token.
StoreSwappedPair(r, u) ==
    /\ refreshStore' = [refreshStore EXCEPT ![u] =
           [token |-> Sign(u, "access"), expiresAt |-> ExpiryOfSet(RefreshTtl)]]
    /\ IF RemoteCache
       THEN /\ req' = [req EXCEPT ![r] =
                          Awaiting("storeExpiry", u, Sign(u, "refresh"), {})]
            /\ running' = None
            /\ UNCHANGED issued
       ELSE Answer(r) /\ issued' = issued \cup Pair(u, Sec(now))

\* generateTokenPair signs both tokens and stores the refresh token; with
\* Redis the answer waits for EXPIRE after SET.
StorePair(r, u) ==
    /\ refreshStore' = [refreshStore EXCEPT ![u] =
           [token |-> Sign(u, "refresh"), expiresAt |-> ExpiryOfSet(RefreshTtl)]]
    /\ IF RemoteCache
       THEN /\ req' = [req EXCEPT ![r] =
                          Awaiting("storeExpiry", u, Sign(u, "refresh"), {})]
            /\ running' = None
            /\ UNCHANGED issued
       ELSE Answer(r) /\ issued' = issued \cup Pair(u, Sec(now))

SignInIssue(r) ==
    /\ Resumes(r, "credentials")
    /\ StorePair(r, req[r].user)
    /\ signedOut' = signedOut \ {req[r].user}
    /\ UNCHANGED <<now, blacklist, revoked, restarts>>

\* POST auth/refresh: RefreshTokenGuard and then verifyRefreshToken check the
\* token in the cookie, and the token must be the one the cache holds.
Refresh(r, t) ==
    /\ Arrives(r)
    /\ Verifies(t, "refresh")
    /\ CacheGet
    /\ IF refreshStore'[t.sub] # None /\ refreshStore'[t.sub].token = t
       THEN /\ req' = [req EXCEPT ![r] = Awaiting("rotating", t.sub, t, {})]
            /\ running' = TurnAfterCache(r)
       ELSE UNCHANGED <<req, running>>
    /\ UNCHANGED <<now, issued, history>>

\* Mutated form: refreshing answers a new pair and does not store it.
RefreshIssueUnstored(r) ==
    /\ Resumes(r, "rotating")
    /\ Answer(r)
    /\ issued' = issued \cup Pair(req[r].user, Sec(now))
    /\ UNCHANGED <<now, cache, history>>

RefreshIssue(r) ==
    /\ Resumes(r, "rotating")
    /\ StorePair(r, req[r].user)
    /\ UNCHANGED <<now, blacklist, history>>

\* EXPIRE acts on whatever the key holds by then; the tokens are answered.
ExpireRefreshToken(r) ==
    /\ Resumes(r, "storeExpiry")
    /\ LET u == req[r].user
           entry == Kept(refreshStore[u])
       IN  /\ refreshStore' = [refreshStore EXCEPT ![u] =
                  IF entry = None THEN None
                  ELSE [entry EXCEPT !.expiresAt = now + RefreshTtl * TicksPerSecond]]
           /\ issued' = issued \cup Pair(u, req[r].token.iat)
    /\ Answer(r)
    /\ UNCHANGED <<now, blacklist, history>>

-----------------------------------------------------------------------------
(* The guards of every route that is not public *)

MarksOf(t) == {m \in Marks : m = "revoked" /\ t \in revoked}

\* JwtBlacklistGuard runs first and looks the bearer token up as it stands.
JwtBlacklistGuard(r, t) ==
    /\ Arrives(r)
    /\ CacheGet
    /\ IF Blacklisted(t)
       THEN UNCHANGED <<req, running>>
       ELSE /\ req' = [req EXCEPT ![r] =
                          Awaiting("accessGuard", t.sub, t, MarksOf(t))]
            /\ running' = TurnAfterCache(r)
    /\ UNCHANGED <<now, issued, history>>

\* Mutated form: a token that does not verify is never answered.
AccessTokenGuardSilent(r) ==
    /\ Resumes(r, "accessGuard")
    /\ IF Verifies(req[r].token, "access") THEN Goto(r, "lookup") ELSE UNCHANGED req
    /\ running' = None
    /\ UNCHANGED <<now, issued, cache, history>>

\* AccessTokenGuard verifies the token; AccessTokenStrategy reads the user.
AccessTokenGuard(r) ==
    /\ Resumes(r, "accessGuard")
    /\ IF Verifies(req[r].token, "access")
       THEN Goto(r, "lookup") /\ running' = None
       ELSE Answer(r)
    /\ UNCHANGED <<now, issued, cache, history>>

\* The user is found and the route's handler starts in the same turn.
LoadUser(r) ==
    /\ Resumes(r, "lookup")
    /\ Goto(r, "handler")
    /\ running' = r
    /\ UNCHANGED <<now, issued, cache, history>>

\* Any protected route other than sign-out: it leaves the token store alone.
HandleRequest(r) ==
    /\ Resumes(r, "handler")
    /\ Answer(r)
    /\ UNCHANGED <<now, issued, cache, history>>

-----------------------------------------------------------------------------
(* Sign-out: revokeAllUserTokens *)

\* revokeRefreshToken deletes the user's entry.
SignOut(r) ==
    /\ Resumes(r, "handler")
    /\ Goto(r, "blacklisting")
    /\ refreshStore' = [refreshStore EXCEPT ![req[r].user] = None]
    /\ signedOut' = signedOut \cup {req[r].user}
    /\ running' = TurnAfterCache(r)
    /\ UNCHANGED <<now, issued, blacklist, revoked, restarts>>

Blacklist(t, at) ==
    blacklist' = {e \in blacklist : e.token # t}
                     \cup {[token |-> t, expiresAt |-> at]}

\* Sign-out answers: from here on its access token counts as revoked.
SignedOut(r) ==
    /\ Answer(r)
    /\ revoked' = revoked \cup {req[r].token}

BlacklistToken(r) ==
    /\ Resumes(r, "blacklisting")
    /\ Blacklist(req[r].token, ExpiryOfSet(BlacklistTtl))
    /\ IF RemoteCache
       THEN /\ Goto(r, "blacklistExpiry")
            /\ running' = None
            /\ UNCHANGED revoked
       ELSE SignedOut(r)
    /\ UNCHANGED <<now, issued, refreshStore, signedOut, restarts>>

\* Mutated form: EXPIRE without its argument, which CacheService reads as 0.
ExpireBlacklistNow(r) ==
    /\ Resumes(r, "blacklistExpiry")
    /\ IF Blacklisted(req[r].token)
       THEN Blacklist(req[r].token, now)
       ELSE UNCHANGED blacklist
    /\ SignedOut(r)
    /\ UNCHANGED <<now, issued, refreshStore, signedOut, restarts>>

ExpireBlacklist(r) ==
    /\ Resumes(r, "blacklistExpiry")
    /\ IF Blacklisted(req[r].token)
       THEN Blacklist(req[r].token, now + BlacklistTtl * TicksPerSecond)
       ELSE UNCHANGED blacklist
    /\ SignedOut(r)
    /\ UNCHANGED <<now, issued, refreshStore, signedOut, restarts>>

-----------------------------------------------------------------------------
(* Failures, restarts, the clock *)

\* Where a request awaits a backend: the database or bcrypt, and Redis.
BackendWaits == IF RemoteCache THEN Locations \ {"idle", "handler"}
                               ELSE {"credentials", "lookup"}

\* A database, bcrypt or Redis call fails, or the credentials are wrong: the
\* request ends in an error answer and what it did before stays done.
Abort(r) ==
    /\ running = None
    /\ req[r].pc \in BackendWaits
    /\ Answer(r)
    /\ UNCHANGED <<now, issued, cache, history>>

\* The process stops and starts again: requests in flight are gone, and so is
\* everything MockCacheService held.
Restart ==
    /\ restarts < MaxRestarts
    /\ restarts' = restarts + 1
    /\ req' = [r \in Reqs |-> Idle]
    /\ running' = None
    /\ IF RemoteCache
       THEN UNCHANGED <<cache, revoked>>
       ELSE /\ refreshStore' = [u \in Users |-> None]
            /\ blacklist' = {}
            /\ revoked' = {}
    /\ UNCHANGED <<now, issued, signedOut>>

Tick ==
    /\ now < MaxTime
    /\ now' = now + 1
    /\ UNCHANGED <<running, req, issued, cache, history>>

-----------------------------------------------------------------------------
Present(r) ==
    \/ \E u \in Users : SignIn(r, u)
    \/ \E t \in issued : Refresh(r, t) \/ JwtBlacklistGuard(r, t)

Continue(r) ==
    \/ SignInIssue(r) \/ RefreshIssue(r) \/ ExpireRefreshToken(r)
    \/ AccessTokenGuard(r) \/ LoadUser(r) \/ HandleRequest(r)
    \/ SignOut(r) \/ BlacklistToken(r) \/ ExpireBlacklist(r)

Next ==
    \/ \E r \in Reqs : Present(r) \/ Continue(r) \/ Abort(r)
    \/ Restart
    \/ Tick

Spec == Init /\ [][Next]_vars

\* Every call of the database, bcrypt or the cache answers or fails, and the
\* poll phase of the event loop takes every answer that has come: a request
\* that could go on again and again, whenever the others leave it the turn,
\* goes on.
FairSpec == Spec /\ \A r \in Reqs : SF_vars(Continue(r) \/ Abort(r))

-----------------------------------------------------------------------------
(* Properties *)

\* Every variable keeps its shape: the store holds refresh tokens of the user
\* they are stored for, the blacklist holds tokens.
TypeOK ==
    /\ now \in Nat
    /\ running \in Reqs \cup {None}
    /\ req \in [Reqs -> Request]
    /\ issued \subseteq Token
    /\ refreshStore \in [Users -> RefreshEntry \cup {None}]
    /\ \A u \in Users : refreshStore[u] # None =>
           refreshStore[u].token.sub = u /\ refreshStore[u].token.type = "refresh"
    /\ blacklist \subseteq BlacklistEntry
    /\ revoked \subseteq Token
    /\ signedOut \subseteq Users
    /\ restarts \in Nat

Admitted(r) == req[r].pc \in AdmittedAt

\* A request that arrives with an access token whose sign-out has completed is
\* never let in: by the time the blacklist entry may be dropped, the guard
\* that runs second finds the token expired.
SignedOutTokenRejected ==
    \A r \in Reqs : Admitted(r) => "revoked" \notin req[r].arrived

\* No response has handed out a refresh token of a later second than that of the
\* one the cache holds for its user.  An exchanged token is dead from the second
\* after its own: until then the successor may be the same string, and a later
\* one is never replaced by one of an earlier second.
StoredTokenIsNewest ==
    \A u \in Users : refreshStore[u] # None =>
        \A t \in issued : t.sub = u => t.iat =< refreshStore[u].token.iat

\* Sign-out invalidates the user's refresh token for good: until the next
\* sign-in nothing stores one again (auth.controller.ts:155).
SignedOutUserHasNoRefreshToken ==
    \A u \in signedOut : refreshStore[u] = None

\* Check and store of a refresh are one: the successor replaces the very token
\* that was checked, never one that a sign-in or another refresh has stored in
\* between, and no other request has a token of the user accepted at the time.
\* One after the other, within the second of its signing, two requests can
\* exchange the same token string: each of them finds it stored.
AcceptedTokenIsStillStored ==
    \A r \in Reqs : req[r].pc = "rotating" =>
        /\ refreshStore[req[r].user] # None
        /\ refreshStore[req[r].user].token = req[r].token
        /\ \A s \in Reqs \ {r} : req[s].pc = "rotating" => req[s].user # req[r].user

\* Every request is answered or cut off by a restart; no guard leaves it open.
EveryRequestEnds ==
    \A r \in Reqs : req[r].pc # "idle" ~> req[r].pc = "idle"

-----------------------------------------------------------------------------
(* What the documentation says and the code does not do *)

\* The end-to-end test (auth.e2d-spec.ts:137) expects a valid token to reach a
\* protected route: the newest token of a user who is signed in is not on the
\* blacklist.
FreshTokenNotBlacklisted ==
    \A t \in issued :
        (/\ Verifies(t, "access") /\ t.sub \notin signedOut
         /\ \A s \in issued : s.sub = t.sub => s.iat =< t.iat)
        => ~Blacklisted(t)

-----------------------------------------------------------------------------
(* The inductive invariants behind the safety properties *)

\* Past its arrival a request has a user, past the credentials a token of it.
RequestShape ==
    \A r \in Reqs :
        /\ req[r].pc # "idle" => req[r].user \in Users
        /\ req[r].pc \notin {"idle", "credentials"} =>
               req[r].token \in Token /\ req[r].token.sub = req[r].user

TypeInv == TypeOK /\ RequestShape

\* No token is signed in a second that is yet to come.
NoTokenFromTheFuture ==
    /\ \A t \in issued : t.iat =< Sec(now)
    /\ \A r \in Reqs : req[r].token # None => req[r].token.iat =< Sec(now)

\* A refresh token whose answer is still to be sent is no newer than the one
\* stored by now.
PendingPairIsNotNewer ==
    \A r \in Reqs : req[r].pc = "storeExpiry" /\ refreshStore[req[r].user] # None =>
        req[r].token.iat =< refreshStore[req[r].user].token.iat

PastLife(t) == Sec(now) >= t.iat + AccessLife
Outlives(e, t) ==
    /\ e.token = t
    /\ e.expiresAt = Never \/ e.expiresAt >= TicksPerSecond * (t.iat + AccessLife)
Covered(t) == PastLife(t) \/ \E e \in blacklist : Outlives(e, t)

\* A token signed out is expired by itself or on the blacklist until it is.
RevokedAreCovered ==
    /\ \A t \in revoked : Covered(t)
    /\ \A r \in Reqs : req[r].pc = "blacklistExpiry" => Covered(req[r].token)

\* A request with a revoked token gets between the two guards only with an
\* expired token, and past the second guard not at all.
RevokedAreStopped ==
    \A r \in Reqs : "revoked" \in req[r].arrived =>
        /\ req[r].pc = "accessGuard" => PastLife(req[r].token)
        /\ req[r].pc \notin AdmittedAt \cup {"lookup"}

RevocationInv == NoTokenFromTheFuture /\ RevokedAreCovered /\ RevokedAreStopped

\* In memory, a request between two cache calls holds the turn.
TurnIsHeld ==
    \A r \in Reqs :
        /\ req[r].pc \in {"rotating", "accessGuard", "handler", "blacklisting"} =>
               running = r
        /\ req[r].pc \notin {"storeExpiry", "blacklistExpiry"}

TurnInv == TurnIsHeld /\ AcceptedTokenIsStillStored /\ SignedOutUserHasNoRefreshToken

=============================================================================
