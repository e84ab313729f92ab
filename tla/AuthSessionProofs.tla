------------------------- MODULE AuthSessionProofs -------------------------
(***************************************************************************)
(* Proofs about AuthSession for any number of users and requests, any      *)
(* clock resolution and any lives that satisfy its assumptions.            *)
(***************************************************************************)
EXTENDS AuthSession, Expirations, TLAPS

-----------------------------------------------------------------------------
(* The clock *)

\* The whole seconds of a clock reading never exceed it.
LEMMA SecIsBelow ==
    ASSUME NEW t \in Nat
    PROVE  /\ Sec(t) \in Nat
           /\ TicksPerSecond * Sec(t) =< t
           /\ t < TicksPerSecond * Sec(t) + TicksPerSecond
  <1>1. /\ t = TicksPerSecond * (t \div TicksPerSecond) + (t % TicksPerSecond)
        /\ t % TicksPerSecond \in 0 .. TicksPerSecond - 1
        /\ t \div TicksPerSecond \in Nat
    BY ClockAssumption
  <1> QED BY <1>1, ClockAssumption DEF Sec

\* A clock that has passed the tick a second starts with shows that second.
LEMMA SecReaches ==
    ASSUME NEW t \in Nat, NEW s \in Nat, TicksPerSecond * s =< t
    PROVE  s =< Sec(t)
  <1>1. Sec(t) \in Nat /\ t < TicksPerSecond * Sec(t) + TicksPerSecond
    BY SecIsBelow
  <1>2. SUFFICES ASSUME s >= Sec(t) + 1 PROVE FALSE
    BY <1>1
  <1>3. TicksPerSecond * s >= TicksPerSecond * (Sec(t) + 1)
    BY <1>1, <1>2, ClockAssumption
  <1>4. TicksPerSecond * (Sec(t) + 1) = TicksPerSecond * Sec(t) + TicksPerSecond
    BY <1>1, ClockAssumption
  <1> QED BY <1>1, <1>3, <1>4, ClockAssumption

\* Seconds do not run backwards.
LEMMA SecIsMonotone ==
    ASSUME NEW t \in Nat
    PROVE  Sec(t) \in Nat /\ Sec(t + 1) \in Nat /\ Sec(t) =< Sec(t + 1)
  <1>1. Sec(t) \in Nat /\ TicksPerSecond * Sec(t) =< t
    BY SecIsBelow
  <1>2. Sec(t + 1) \in Nat
    BY SecIsBelow
  <1>3. TicksPerSecond * Sec(t) \in Nat
    BY <1>1, ClockAssumption
  <1>4. TicksPerSecond * Sec(t) =< t + 1
    BY <1>1, <1>3
  <1> QED BY <1>1, <1>2, <1>4, SecReaches

\* A second from now on is a second's worth of ticks away.
LEMMA SecShift ==
    ASSUME NEW t \in Nat, NEW ttl \in Nat, NEW i \in Nat, NEW l \in Nat,
           i =< Sec(t), l =< ttl
    PROVE  t + ttl * TicksPerSecond >= TicksPerSecond * (i + l)
  <1>1. Sec(t) \in Nat /\ TicksPerSecond * Sec(t) =< t
    BY SecIsBelow
  <1>2. TicksPerSecond * (Sec(t) + ttl) >= TicksPerSecond * (i + l)
    BY <1>1, ClockAssumption
  <1>3. TicksPerSecond * (Sec(t) + ttl) = TicksPerSecond * Sec(t) + ttl * TicksPerSecond
    BY <1>1, ClockAssumption
  <1>4. /\ TicksPerSecond * Sec(t) \in Nat /\ ttl * TicksPerSecond \in Nat
        /\ TicksPerSecond * (i + l) \in Nat
    BY <1>1, ClockAssumption
  <1> QED BY <1>1, <1>2, <1>3, <1>4

-----------------------------------------------------------------------------
(* Types *)

\* The records requests are made of.
LEMMA RequestRecords ==
    /\ Idle \in Request
    /\ \A pc \in Locations, u \in Users, t \in Token \cup {None}, a \in SUBSET Marks :
           Awaiting(pc, u, t, a) \in Request
    /\ \A q \in Request, pc \in Locations :
           [q EXCEPT !.pc = pc] \in Request
  BY DEF Idle, Awaiting, Request, Locations, Marks

\* Signed tokens are tokens, and so are the pairs of them.
LEMMA SignedTokens ==
    ASSUME now \in Nat, NEW u \in Users
    PROVE  /\ Sec(now) \in Nat
           /\ Sign(u, "refresh") \in Token
           /\ Sign(u, "refresh").sub = u
           /\ Sign(u, "refresh").type = "refresh"
           /\ Sign(u, "refresh").iat = Sec(now)
           /\ \A i \in Nat : Pair(u, i) \subseteq Token
           /\ \A i \in Nat : \A t \in Pair(u, i) : t.sub = u /\ t.iat = i
  <1>1. Sec(now) \in Nat
    BY SecIsBelow
  <1> QED BY <1>1 DEF Sign, Pair, Token

\* The expiry a set writes is one.
LEMMA ExpiryOfSetIsExpiry ==
    ASSUME now \in Nat, NEW ttl \in Nat
    PROVE  ExpiryOfSet(ttl) \in Expiry /\ now + ttl * TicksPerSecond \in Expiry
  BY ClockAssumption DEF ExpiryOfSet, Expiry

\* The store part of the type invariant, by itself.
StoreOK ==
    /\ refreshStore \in [Users -> RefreshEntry \cup {None}]
    /\ \A u \in Users : refreshStore[u] # None =>
           refreshStore[u].token.sub = u /\ refreshStore[u].token.type = "refresh"

\* A get keeps the store and the blacklist well-formed.
LEMMA CacheGetKeepsTypes ==
    ASSUME TypeOK, CacheGet
    PROVE  StoreOK' /\ blacklist' \subseteq BlacklistEntry
  <1>1. \A u \in Users : refreshStore'[u] \in {refreshStore[u], None}
    BY DEF CacheGet, Kept
  <1>2. refreshStore' = [u \in Users |-> Kept(refreshStore[u])]
    BY DEF CacheGet
  <1>3. \A u \in Users : refreshStore'[u] \in RefreshEntry \cup {None}
    BY <1>1 DEF TypeOK
  <1>4. refreshStore' \in [Users -> RefreshEntry \cup {None}]
    BY <1>2, <1>3
  <1>5. blacklist' \subseteq BlacklistEntry
    BY DEF CacheGet, TypeOK
  <1> QED BY <1>1, <1>4, <1>5 DEF TypeOK, StoreOK

\* The request part of the type invariant, by itself.
RequestsOK == req \in [Reqs -> Request] /\ running \in Reqs \cup {None} /\ RequestShape

\* Answering a request keeps the requests well-formed.
LEMMA AnswerKeepsTypes ==
    ASSUME TypeInv, NEW r \in Reqs, Answer(r)
    PROVE  RequestsOK'
  BY RequestRecords DEF Answer, TypeInv, TypeOK, RequestShape, RequestsOK, Idle

\* Moving a request on keeps them well-formed.
LEMMA GotoKeepsTypes ==
    ASSUME TypeInv, NEW r \in Reqs, NEW pc \in Locations, Goto(r, pc),
           req[r].pc \notin {"idle", "credentials"},
           running' \in Reqs \cup {None}
    PROVE  RequestsOK'
  <1>1. req' \in [Reqs -> Request]
    BY RequestRecords DEF Goto, TypeInv, TypeOK
  <1>2. \A q \in Reqs : /\ req'[q].user = req[q].user
                       /\ req'[q].token = req[q].token
                       /\ q # r => req'[q] = req[q]
    BY DEF Goto, TypeInv, TypeOK, Request
  <1>3. RequestShape'
    <2> SUFFICES ASSUME NEW q \in Reqs
                 PROVE  /\ req'[q].pc # "idle" => req'[q].user \in Users
                        /\ req'[q].pc \notin {"idle", "credentials"} =>
                               req'[q].token \in Token /\ req'[q].token.sub = req'[q].user
      BY DEF RequestShape
    <2>0. /\ req[q].pc # "idle" => req[q].user \in Users
          /\ req[q].pc \notin {"idle", "credentials"} =>
                 req[q].token \in Token /\ req[q].token.sub = req[q].user
      BY DEF TypeInv, RequestShape
    <2>1. CASE q = r
      BY <1>2, <2>0, <2>1 DEF Goto
    <2>2. CASE q # r
      BY <1>2, <2>0, <2>2 DEF Goto
    <2> QED BY <2>1, <2>2
  <1> QED BY <1>1, <1>3 DEF RequestsOK

\* Starting a wait does.
LEMMA AwaitKeepsTypes ==
    ASSUME TypeInv, NEW r \in Reqs,
           NEW pc \in Locations, NEW u \in Users, NEW a \in SUBSET Marks,
           NEW t \in Token \cup {None},
           pc # "credentials" => t \in Token /\ t.sub = u,
           req' = [req EXCEPT ![r] = Awaiting(pc, u, t, a)],
           running' \in Reqs \cup {None}
    PROVE  RequestsOK'
  <1>1. req' \in [Reqs -> Request]
    BY RequestRecords DEF TypeInv, TypeOK
  <1>2. /\ req'[r].pc = pc /\ req'[r].user = u /\ req'[r].token = t
        /\ \A q \in Reqs \ {r} : req'[q] = req[q]
    BY DEF TypeInv, TypeOK, Awaiting
  <1>3. RequestShape'
    BY <1>2 DEF TypeInv, RequestShape
  <1> QED BY <1>1, <1>3 DEF RequestsOK

\* Storing a pair keeps the types.
LEMMA StorePairKeepsTypes ==
    ASSUME TypeInv, NEW r \in Reqs, NEW u \in Users, StorePair(r, u)
    PROVE  StoreOK' /\ RequestsOK' /\ issued' \subseteq Token
  <1> DEFINE entry == [token |-> Sign(u, "refresh"), expiresAt |-> ExpiryOfSet(RefreshTtl)]
  <1>1. now \in Nat
    BY DEF TypeInv, TypeOK
  <1>2. entry \in RefreshEntry /\ entry.token.sub = u /\ entry.token.type = "refresh"
    BY <1>1, SignedTokens, ExpiryOfSetIsExpiry, TtlAssumption DEF RefreshEntry
  <1>3. refreshStore' = [refreshStore EXCEPT ![u] = entry]
    BY DEF StorePair
  <1>4. StoreOK'
    BY <1>2, <1>3 DEF StoreOK, TypeInv, TypeOK
  <1>5. CASE RemoteCache
    <2>1. /\ req' = [req EXCEPT ![r] =
                        Awaiting("storeExpiry", u, Sign(u, "refresh"), {})]
          /\ running' = None /\ issued' = issued
      BY <1>5 DEF StorePair
    <2>2. "storeExpiry" \in Locations /\ {} \in SUBSET Marks
      BY DEF Locations
    <2>3. RequestsOK'
      BY <2>1, <2>2, <1>1, SignedTokens, AwaitKeepsTypes
    <2> QED BY <1>4, <2>1, <2>3 DEF TypeInv, TypeOK
  <1>6. CASE ~RemoteCache
    <2>1. Answer(r) /\ issued' = issued \cup Pair(u, Sec(now))
      BY <1>6 DEF StorePair
    <2> QED BY <1>1, <1>4, <2>1, SignedTokens, AnswerKeepsTypes DEF TypeInv, TypeOK
  <1> QED BY <1>5, <1>6

\* At the start every variable has its type.
LEMMA InitTypes == Init => TypeInv
<1> SUFFICES ASSUME Init PROVE TypeInv
  OBVIOUS
<1>1. Idle \in Request
  BY RequestRecords
<1>2. TypeOK
  BY <1>1, NoneAssumption DEF Init, TypeOK
<1>3. RequestShape
  BY DEF Init, RequestShape, Idle
<1> QED BY <1>2, <1>3 DEF TypeInv

\* What is left to show once the store and the requests are well-formed.
LEMMA TypeParts ==
    ASSUME StoreOK', RequestsOK',
           now' \in Nat, issued' \subseteq Token, blacklist' \subseteq BlacklistEntry,
           revoked' \subseteq Token,
           signedOut' \subseteq Users, restarts' \in Nat
    PROVE  TypeInv'
  BY DEF StoreOK, RequestsOK, TypeInv, TypeOK

\* A step keeps the types.
LEMMA NextTypes ==
    ASSUME TypeInv, [Next]_vars
    PROVE  TypeInv'
  <1> USE DEF history, cache
  <1>0. /\ TypeOK /\ RequestShape /\ StoreOK /\ RequestsOK
        /\ now \in Nat /\ issued \subseteq Token /\ blacklist \subseteq BlacklistEntry
        /\ revoked \subseteq Token
        /\ signedOut \subseteq Users /\ restarts \in Nat
    BY DEF TypeInv, TypeOK, StoreOK, RequestsOK
  <1>l. {"credentials", "rotating", "storeExpiry", "accessGuard", "lookup",
         "handler", "blacklisting", "blacklistExpiry"} \subseteq Locations
    BY DEF Locations
  <1>1. ASSUME NEW r \in Reqs, NEW u \in Users, SignIn(r, u) PROVE TypeInv'
    <2>1. /\ req' = [req EXCEPT ![r] = Awaiting("credentials", u, None, {})]
          /\ UNCHANGED <<now, running, issued, cache, history>>
      BY <1>1 DEF SignIn
    <2>2. RequestsOK'
      BY <2>1, <1>0, <1>l, AwaitKeepsTypes DEF SignIn, RequestsOK
    <2>3. StoreOK'
      BY <2>1, <1>0 DEF SignIn, StoreOK
    <2> QED BY <2>1, <2>2, <2>3, <1>0, TypeParts DEF SignIn
  <1>2. ASSUME NEW r \in Reqs, SignInIssue(r) PROVE TypeInv'
    <2>1. StorePair(r, req[r].user) /\ req[r].user \in Users
      BY <1>2, <1>0 DEF SignInIssue, Resumes, RequestShape
    <2>2. StoreOK' /\ RequestsOK' /\ issued' \subseteq Token
      BY <2>1, StorePairKeepsTypes DEF SignInIssue
    <2> QED BY <1>2, <2>2, <1>0, TypeParts DEF SignInIssue
  <1>3. ASSUME NEW r \in Reqs, NEW t \in issued, Refresh(r, t) PROVE TypeInv'
    <2>1. StoreOK' /\ blacklist' \subseteq BlacklistEntry
      BY <1>3, <1>0, CacheGetKeepsTypes DEF Refresh
    <2>2. t \in Token /\ t.sub \in Users
      BY <1>0 DEF Token
    <2>3. RequestsOK'
      <3>1. CASE req' = req /\ running' = running
        BY <3>1, <1>0 DEF RequestsOK, RequestShape, Refresh
      <3>2. CASE /\ req' = [req EXCEPT ![r] = Awaiting("rotating", t.sub, t, {})]
                 /\ running' = TurnAfterCache(r)
        BY <3>2, <2>2, <1>l, AwaitKeepsTypes DEF TurnAfterCache, Refresh
      <3> QED BY <1>3, <3>1, <3>2 DEF Refresh
    <2> QED BY <1>3, <2>1, <2>3, <1>0, TypeParts DEF Refresh
  <1>4. ASSUME NEW r \in Reqs, RefreshIssue(r) PROVE TypeInv'
    <2>1. StorePair(r, req[r].user) /\ req[r].user \in Users
      BY <1>4, <1>0 DEF RefreshIssue, Resumes, RequestShape
    <2>2. StoreOK' /\ RequestsOK' /\ issued' \subseteq Token
      BY <2>1, StorePairKeepsTypes DEF RefreshIssue
    <2> QED BY <1>4, <2>2, <1>0, TypeParts DEF RefreshIssue
  <1>5. ASSUME NEW r \in Reqs, ExpireRefreshToken(r) PROVE TypeInv'
    <2> DEFINE u == req[r].user
               entry == Kept(refreshStore[u])
               at == now + RefreshTtl * TicksPerSecond
    <2>1. u \in Users /\ req[r].token \in Token
      BY <1>5, <1>0 DEF ExpireRefreshToken, Resumes, RequestShape
    <2>2. entry \in {None, refreshStore[u]}
      BY DEF Kept
    <2>3. at \in Expiry
      BY <1>0, TtlAssumption, ExpiryOfSetIsExpiry
    <2>4. /\ refreshStore' = [refreshStore EXCEPT ![u] =
                 IF entry = None THEN None ELSE [entry EXCEPT !.expiresAt = at]]
          /\ issued' = issued \cup Pair(u, req[r].token.iat)
          /\ Answer(r)
      BY <1>5 DEF ExpireRefreshToken
    <2>5. refreshStore[u] # None =>
             /\ [refreshStore[u] EXCEPT !.expiresAt = at] \in RefreshEntry
             /\ [refreshStore[u] EXCEPT !.expiresAt = at].token = refreshStore[u].token
      BY <2>1, <2>3, <1>0 DEF RefreshEntry, StoreOK
    <2>6. StoreOK'
      BY <2>1, <2>2, <2>4, <2>5, <1>0 DEF StoreOK
    <2>7. issued' \subseteq Token
      <3>1. req[r].token.iat \in Nat
        BY <2>1 DEF Token
      <3> QED BY <3>1, <2>1, <2>4, <1>0, SignedTokens
    <2>8. RequestsOK'
      BY <2>4, AnswerKeepsTypes
    <2> QED BY <1>5, <2>6, <2>7, <2>8, <1>0, TypeParts DEF ExpireRefreshToken
  <1>6. ASSUME NEW r \in Reqs, NEW t \in issued, JwtBlacklistGuard(r, t) PROVE TypeInv'
    <2>1. StoreOK' /\ blacklist' \subseteq BlacklistEntry
      BY <1>6, <1>0, CacheGetKeepsTypes DEF JwtBlacklistGuard
    <2>2. t \in Token /\ t.sub \in Users /\ MarksOf(t) \in SUBSET Marks
      BY <1>0 DEF Token, MarksOf
    <2>3. RequestsOK'
      <3>1. CASE req' = req /\ running' = running
        BY <3>1, <1>0 DEF RequestsOK, RequestShape
      <3>2. CASE /\ req' = [req EXCEPT ![r] =
                               Awaiting("accessGuard", t.sub, t, MarksOf(t))]
                 /\ running' = TurnAfterCache(r)
        BY <3>2, <2>2, <1>l, AwaitKeepsTypes DEF TurnAfterCache
      <3> QED BY <1>6, <3>1, <3>2 DEF JwtBlacklistGuard
    <2> QED BY <1>6, <2>1, <2>3, <1>0, TypeParts DEF JwtBlacklistGuard
  <1>7. ASSUME NEW r \in Reqs, AccessTokenGuard(r) PROVE TypeInv'
    <2>1. StoreOK'
      BY <1>7, <1>0 DEF AccessTokenGuard, StoreOK
    <2>2. RequestsOK'
      BY <1>7, <1>l, GotoKeepsTypes, AnswerKeepsTypes DEF AccessTokenGuard, Resumes
    <2> QED BY <1>7, <2>1, <2>2, <1>0, TypeParts DEF AccessTokenGuard
  <1>8. ASSUME NEW r \in Reqs, LoadUser(r) PROVE TypeInv'
    <2>1. StoreOK'
      BY <1>8, <1>0 DEF LoadUser, StoreOK
    <2>2. RequestsOK'
      BY <1>8, <1>l, GotoKeepsTypes DEF LoadUser, Resumes
    <2> QED BY <1>8, <2>1, <2>2, <1>0, TypeParts DEF LoadUser
  <1>9. ASSUME NEW r \in Reqs, HandleRequest(r) \/ Abort(r) PROVE TypeInv'
    <2>1. StoreOK'
      BY <1>9, <1>0 DEF HandleRequest, Abort, StoreOK
    <2>2. RequestsOK'
      BY <1>9, AnswerKeepsTypes DEF HandleRequest, Abort
    <2> QED BY <1>9, <2>1, <2>2, <1>0, TypeParts DEF HandleRequest, Abort
  <1>10. ASSUME NEW r \in Reqs, SignOut(r) PROVE TypeInv'
    <2>1. req[r].user \in Users
      BY <1>10, <1>0 DEF SignOut, Resumes, RequestShape
    <2>2. StoreOK'
      BY <1>10, <1>0 DEF SignOut, StoreOK
    <2>3. RequestsOK'
      BY <1>10, <1>l, GotoKeepsTypes DEF SignOut, Resumes, TurnAfterCache
    <2> QED BY <1>10, <2>1, <2>2, <2>3, <1>0, TypeParts DEF SignOut
  <1>11. ASSUME NEW r \in Reqs, BlacklistToken(r) \/ ExpireBlacklist(r) PROVE TypeInv'
    <2>1. req[r].token \in Token
      BY <1>11, <1>0 DEF BlacklistToken, ExpireBlacklist, Resumes, RequestShape
    <2>2. StoreOK'
      BY <1>11, <1>0 DEF BlacklistToken, ExpireBlacklist, StoreOK
    <2>3. RequestsOK'
      BY <1>11, <1>l, GotoKeepsTypes, AnswerKeepsTypes
      DEF BlacklistToken, ExpireBlacklist, Resumes, SignedOut
    <2>4. \A at \in Expiry : Blacklist(req[r].token, at) => blacklist' \subseteq BlacklistEntry
      BY <2>1, <1>0 DEF Blacklist, BlacklistEntry
    <2>5. blacklist' \subseteq BlacklistEntry
      BY <1>11, <2>4, <1>0, ExpiryOfSetIsExpiry, TtlAssumption
      DEF BlacklistToken, ExpireBlacklist
    <2>6. revoked' \subseteq Token
      BY <1>11, <2>1, <1>0 DEF BlacklistToken, ExpireBlacklist, SignedOut
    <2> QED BY <1>11, <2>2, <2>3, <2>5, <2>6, <1>0, TypeParts
            DEF BlacklistToken, ExpireBlacklist
  <1>12. CASE Restart
    <2>1. RequestsOK'
      BY <1>12, RequestRecords DEF Restart, RequestsOK, RequestShape, Idle
    <2>2. StoreOK'
      BY <1>12, <1>0 DEF Restart, StoreOK
    <2> QED BY <1>12, <2>1, <2>2, <1>0, TypeParts DEF Restart
  <1>13. CASE Tick
    BY <1>13, <1>0 DEF Tick, TypeInv, TypeOK, RequestShape
  <1>14. CASE UNCHANGED vars
    BY <1>14, <1>0 DEF vars, TypeInv, TypeOK, RequestShape
  <1> QED BY <1>1, <1>2, <1>3, <1>4, <1>5, <1>6, <1>7, <1>8, <1>9, <1>10, <1>11,
             <1>12, <1>13, <1>14
          DEF Next, Present, Continue

\* Every variable keeps its type, and every request past its arrival carries
\* the user and the token it works for.
THEOREM TypeCorrect == Spec => []TypeOK
  <1>1. Spec => []TypeInv
    BY InitTypes, NextTypes, PTL DEF Spec
  <1>2. TypeInv => TypeOK
    BY DEF TypeInv
  <1> QED BY <1>1, <1>2, PTL

-----------------------------------------------------------------------------
(* Time and the requests in one step *)

\* What a step may do to the clock.
LEMMA ClockMovesForward ==
    ASSUME TypeInv, [Next]_vars
    PROVE  now' \in {now, now + 1} /\ Sec(now) \in Nat /\ Sec(now') \in Nat
           /\ Sec(now) =< Sec(now')
  <1>1. now \in Nat
    BY DEF TypeInv, TypeOK
  <1>2. now' \in {now, now + 1}
    BY DEF Next, vars, history, cache, Present, Continue, SignIn, SignInIssue, Refresh,
           RefreshIssue, ExpireRefreshToken, JwtBlacklistGuard, AccessTokenGuard, LoadUser,
           HandleRequest, SignOut, BlacklistToken, ExpireBlacklist, Abort, Restart, Tick
  <1>3. Sec(now) \in Nat /\ Sec(now + 1) \in Nat /\ Sec(now) =< Sec(now + 1)
    BY <1>1, SecIsMonotone
  <1> QED BY <1>2, <1>3

\* A token past its life stays so.
LEMMA PastLifeIsStable ==
    ASSUME TypeInv, [Next]_vars, NEW t \in Token, PastLife(t)
    PROVE  PastLife(t)'
  <1>1. t.iat \in Nat
    BY DEF Token
  <1> QED BY <1>1, ClockMovesForward, TtlAssumption DEF PastLife

-----------------------------------------------------------------------------
(* No token is signed in the future *)

\* Storing a pair signs tokens of the present second.
LEMMA StorePairIsPresent ==
    ASSUME TypeInv, NoTokenFromTheFuture, NEW r \in Reqs, NEW u \in Users,
           StorePair(r, u), now' = now
    PROVE  NoTokenFromTheFuture'
  <1>0. now \in Nat /\ req \in [Reqs -> Request]
    BY DEF TypeInv, TypeOK
  <1>1. Sec(now) \in Nat
    BY <1>0, SecIsBelow
  <1>2. issued' = issued \/ issued' = issued \cup Pair(u, Sec(now))
    BY DEF StorePair
  <1>3. \A t \in issued' : t.iat =< Sec(now)
    BY <1>0, <1>1, <1>2, SignedTokens DEF NoTokenFromTheFuture
  <1>4. req' = [req EXCEPT ![r] = Awaiting("storeExpiry", u, Sign(u, "refresh"), {})]
        \/ req' = [req EXCEPT ![r] = Idle]
    BY DEF StorePair, Answer
  <1>5. \A q \in Reqs : req'[q].token # None => req'[q].token.iat =< Sec(now)
    BY <1>0, <1>1, <1>4, SignedTokens DEF NoTokenFromTheFuture, Awaiting, Idle
  <1> QED BY <1>3, <1>5 DEF NoTokenFromTheFuture

\* A step signs nothing in the future.
LEMMA NextFuture ==
    ASSUME TypeInv, NoTokenFromTheFuture, [Next]_vars
    PROVE  NoTokenFromTheFuture'
  <1> USE DEF history, cache
  <1>0. /\ now \in Nat /\ req \in [Reqs -> Request] /\ issued \subseteq Token
        /\ RequestShape
    BY DEF TypeInv, TypeOK
  <1>1. Sec(now) \in Nat /\ Sec(now') \in Nat /\ Sec(now) =< Sec(now')
    BY ClockMovesForward
  <1>2. /\ \A t \in issued : t.iat \in Nat /\ t.iat =< Sec(now')
        /\ \A r \in Reqs : req[r].token # None =>
               req[r].token.iat \in Nat /\ req[r].token.iat =< Sec(now')
    BY <1>0, <1>1 DEF NoTokenFromTheFuture, Token, Request
  \* It is enough that the step leaves the tokens of requests alone, drops
  \* them or takes issued ones, and issues tokens of requests.
  <1>3. ASSUME \A q \in Reqs : \/ req'[q].token \in {req[q].token, None}
                               \/ req'[q].token \in issued,
               \A t \in issued' : \/ t \in issued
                                 \/ \E q \in Reqs : /\ req[q].token # None
                                                    /\ t.iat = req[q].token.iat
        PROVE  NoTokenFromTheFuture'
    BY <1>2, <1>3 DEF NoTokenFromTheFuture
  <1>4. ASSUME NEW r \in Reqs, NEW u \in Users, SignIn(r, u) PROVE NoTokenFromTheFuture'
    BY <1>4, <1>3, <1>0 DEF SignIn, Awaiting
  <1>5. ASSUME NEW r \in Reqs, SignInIssue(r) \/ RefreshIssue(r) PROVE NoTokenFromTheFuture'
    <2>1. /\ StorePair(r, req[r].user) /\ now' = now
          /\ req[r].user \in Users
      BY <1>5, <1>0 DEF SignInIssue, RefreshIssue, Resumes, RequestShape
    <2> QED BY <2>1, StorePairIsPresent DEF SignInIssue, RefreshIssue
  <1>6. ASSUME NEW r \in Reqs, NEW t \in issued, Refresh(r, t) \/ JwtBlacklistGuard(r, t)
        PROVE  NoTokenFromTheFuture'
    <2>1. /\ req' = req \/ \E pc \in Locations, a \in SUBSET Marks :
                                req' = [req EXCEPT ![r] = Awaiting(pc, t.sub, t, a)]
          /\ issued' = issued
      BY <1>6 DEF Refresh, JwtBlacklistGuard, MarksOf, Locations
    <2> QED BY <2>1, <1>3, <1>0 DEF Awaiting, Refresh, JwtBlacklistGuard
  <1>7. ASSUME NEW r \in Reqs, ExpireRefreshToken(r) PROVE NoTokenFromTheFuture'
    <2>1. /\ req[r].token \in Token /\ req[r].user \in Users
          /\ req' = [req EXCEPT ![r] = Idle]
          /\ issued' = issued \cup Pair(req[r].user, req[r].token.iat)
      BY <1>7, <1>0 DEF ExpireRefreshToken, Resumes, RequestShape, Answer
    <2>2. req[r].token # None
      BY <2>1, EntryAssumption
    <2> QED BY <2>1, <2>2, <1>3, <1>0 DEF Pair, Idle, ExpireRefreshToken
  <1>8. ASSUME NEW r \in Reqs,
               AccessTokenGuard(r) \/ LoadUser(r) \/ HandleRequest(r) \/ Abort(r)
               \/ SignOut(r) \/ BlacklistToken(r) \/ ExpireBlacklist(r)
        PROVE  NoTokenFromTheFuture'
    <2>1. /\ req' = [req EXCEPT ![r] = Idle]
             \/ \E pc \in Locations : req' = [req EXCEPT ![r].pc = pc]
          /\ issued' = issued
      BY <1>8 DEF AccessTokenGuard, LoadUser, HandleRequest, Abort, SignOut,
                  BlacklistToken, ExpireBlacklist, SignedOut, Answer, Goto, Locations
    <2>2. \A q \in Reqs : req'[q].token \in {req[q].token, None}
      BY <2>1, <1>0 DEF Idle, Request
    <2> QED BY <2>1, <2>2, <1>3
  <1>9. CASE Restart \/ Tick \/ UNCHANGED vars
    <2>1. issued' = issued /\ (req' = req \/ req' = [q \in Reqs |-> Idle])
      BY <1>9 DEF Restart, Tick, vars
    <2> QED BY <2>1, <1>3 DEF Idle
  <1> QED BY <1>4, <1>5, <1>6, <1>7, <1>8, <1>9 DEF Next, Present, Continue

-----------------------------------------------------------------------------
(* Signed-out tokens are covered by the blacklist while they live *)

\* An entry that a get drops names a token past its life.
LEMMA DroppedIsPastLife ==
    ASSUME TypeInv, NEW t \in Token, NEW e \in blacklist, Outlives(e, t),
           Expired(e.expiresAt)
    PROVE  PastLife(t)
  <1>1. /\ now \in Nat /\ t.iat \in Nat /\ t.iat + AccessLife \in Nat
        /\ TicksPerSecond * (t.iat + AccessLife) \in Nat
    BY TtlAssumption, ClockAssumption DEF TypeInv, TypeOK, Token
  <1>2. e.expiresAt \in Nat /\ now > e.expiresAt
        /\ e.expiresAt >= TicksPerSecond * (t.iat + AccessLife)
    BY DEF Expired, Outlives, TypeInv, TypeOK, BlacklistEntry, Expiry
  <1>3. TicksPerSecond * (t.iat + AccessLife) =< now
    BY <1>1, <1>2
  <1>4. t.iat + AccessLife =< Sec(now)
    BY <1>1, <1>3, SecReaches
  <1>5. Sec(now) \in Nat
    BY <1>1, SecIsBelow
  <1> QED BY <1>1, <1>4, <1>5 DEF PastLife

\* Covering survives a step that leaves the blacklist alone, and a get.
LEMMA CoverIsKept ==
    ASSUME TypeInv, [Next]_vars, NEW t \in Token, Covered(t),
           blacklist' = blacklist \/ CacheGet
    PROVE  Covered(t)'
  <1>1. CASE PastLife(t)
    BY <1>1, PastLifeIsStable DEF Covered
  <1>2. ASSUME NEW e \in blacklist, Outlives(e, t) PROVE Covered(t)'
    <2>1. CASE Expired(e.expiresAt)
      BY <1>2, <2>1, <1>1, DroppedIsPastLife
    <2>2. CASE ~Expired(e.expiresAt)
      <3>1. e \in blacklist'
        BY <1>2, <2>2 DEF CacheGet
      <3> QED BY <1>2, <3>1 DEF Covered, Outlives
    <2> QED BY <2>1, <2>2
  <1> QED BY <1>1, <1>2 DEF Covered

\* The entry of a sign-out outlives its token.
LEMMA FreshEntryOutlives ==
    ASSUME TypeInv, NEW t \in Token, t.iat =< Sec(now),
           NEW at \in {ExpiryOfSet(BlacklistTtl), now + BlacklistTtl * TicksPerSecond}
    PROVE  at \in Expiry /\ Outlives([token |-> t, expiresAt |-> at], t)
  <1>1. now \in Nat /\ t.iat \in Nat
    BY DEF TypeInv, TypeOK, Token
  <1>2. now + BlacklistTtl * TicksPerSecond >= TicksPerSecond * (t.iat + AccessLife)
    BY <1>1, TtlAssumption, SecShift
  <1>3. at \in Expiry
    BY <1>1, TtlAssumption, ExpiryOfSetIsExpiry
  <1> QED BY <1>2, <1>3 DEF Outlives, ExpiryOfSet

\* Writing an entry that outlives its token covers it and uncovers none.
LEMMA BlacklistCovers ==
    ASSUME TypeInv, NEW s \in Token, NEW at, now' = now,
           Blacklist(s, at), Outlives([token |-> s, expiresAt |-> at], s)
    PROVE  Covered(s)' /\ \A t \in Token : Covered(t) => Covered(t)'
  <1> DEFINE new == [token |-> s, expiresAt |-> at]
  <1>1. new \in blacklist' /\ \A e \in blacklist : e.token # s => e \in blacklist'
    BY DEF Blacklist
  <1>2. Covered(s)'
    BY <1>1 DEF Covered, Outlives
  <1>3. ASSUME NEW t \in Token, Covered(t), t # s PROVE Covered(t)'
    <2>1. CASE PastLife(t)
      BY <2>1 DEF PastLife, Covered
    <2>2. CASE \E e \in blacklist : Outlives(e, t)
      BY <1>1, <1>3, <2>2 DEF Covered, Outlives
    <2> QED BY <1>3, <2>1, <2>2 DEF Covered
  <1> QED BY <1>2, <1>3

\* A step leaves every signed-out token covered.
LEMMA NextCovered ==
    ASSUME TypeInv, NoTokenFromTheFuture, RevokedAreCovered, [Next]_vars
    PROVE  RevokedAreCovered'
  <1> USE DEF history, cache
  <1>0. /\ now \in Nat /\ req \in [Reqs -> Request] /\ revoked \subseteq Token
        /\ RequestShape
    BY DEF TypeInv, TypeOK
  <1>1. \A q \in Reqs : req[q].pc = "blacklistExpiry" => req[q].token \in Token
    BY <1>0 DEF RequestShape
  \* A step that revokes nothing and keeps the cover keeps the invariant.
  <1>2. ASSUME blacklist' = blacklist \/ CacheGet,
               revoked' \subseteq revoked,
               \A q \in Reqs : req'[q].pc = "blacklistExpiry" => req'[q] = req[q]
        PROVE  RevokedAreCovered'
    <2>1. \A t \in revoked : Covered(t)'
      BY <1>0, <1>2, CoverIsKept DEF RevokedAreCovered
    <2>2. ASSUME NEW q \in Reqs, req'[q].pc = "blacklistExpiry"
          PROVE  Covered(req[q].token)'
      <3>1. req'[q] = req[q] /\ req[q].token \in Token /\ Covered(req[q].token)
        BY <1>1, <1>2, <2>2 DEF RevokedAreCovered
      <3>2. PICK t \in Token : t = req[q].token
        BY <3>1
      <3>3. Covered(t)'
        BY <1>2, <3>1, <3>2, CoverIsKept
      <3> QED BY <3>1, <3>2, <3>3 DEF Covered, PastLife, Outlives
    <2> QED BY <1>2, <2>1, <2>2 DEF RevokedAreCovered
  <1>3. ASSUME NEW r \in Reqs, NEW u \in Users, SignIn(r, u) PROVE RevokedAreCovered'
    BY <1>3, <1>2, <1>0 DEF SignIn, Awaiting
  <1>4. ASSUME NEW r \in Reqs, SignInIssue(r) \/ RefreshIssue(r) PROVE RevokedAreCovered'
    BY <1>4, <1>2, <1>0 DEF SignInIssue, RefreshIssue, StorePair, Answer, Awaiting, Idle
  <1>5. ASSUME NEW r \in Reqs, NEW t \in issued, Refresh(r, t) \/ JwtBlacklistGuard(r, t)
        PROVE  RevokedAreCovered'
    BY <1>5, <1>2, <1>0 DEF Refresh, JwtBlacklistGuard, Awaiting
  <1>6. ASSUME NEW r \in Reqs,
               ExpireRefreshToken(r) \/ HandleRequest(r) \/ Abort(r)
        PROVE  RevokedAreCovered'
    BY <1>6, <1>2, <1>0 DEF ExpireRefreshToken, HandleRequest, Abort, Answer, Idle
  <1>7. ASSUME NEW r \in Reqs, AccessTokenGuard(r) \/ LoadUser(r) \/ SignOut(r)
        PROVE  RevokedAreCovered'
    <2>1. /\ blacklist' = blacklist /\ revoked' = revoked
          /\ \/ req' = [req EXCEPT ![r] = Idle]
             \/ \E pc \in {"lookup", "handler", "blacklisting"} :
                   req' = [req EXCEPT ![r].pc = pc]
      BY <1>7 DEF AccessTokenGuard, LoadUser, SignOut, Answer, Goto
    <2>2. \A q \in Reqs : req'[q].pc = "blacklistExpiry" => req'[q] = req[q]
      BY <2>1, <1>0 DEF Idle, Request
    <2> QED BY <1>2, <2>1, <2>2
  <1>8. ASSUME NEW r \in Reqs, BlacklistToken(r) \/ ExpireBlacklist(r)
        PROVE  RevokedAreCovered'
    <2>1. /\ req[r].token \in Token /\ req[r].token.iat =< Sec(now) /\ now' = now
      BY <1>8, <1>0, EntryAssumption
      DEF BlacklistToken, ExpireBlacklist, Resumes, RequestShape, NoTokenFromTheFuture
    <2>2. PICK s \in Token : s = req[r].token
      BY <2>1
    <2>3. \/ \E at \in {ExpiryOfSet(BlacklistTtl), now + BlacklistTtl * TicksPerSecond} :
               Blacklist(s, at)
          \/ blacklist' = blacklist /\ req[r].pc = "blacklistExpiry"
      BY <1>8, <2>2 DEF BlacklistToken, ExpireBlacklist, Resumes
    <2>4. Covered(s)' /\ \A t \in Token : Covered(t) => Covered(t)'
      <3>1. ASSUME NEW at \in {ExpiryOfSet(BlacklistTtl), now + BlacklistTtl * TicksPerSecond},
                   Blacklist(s, at)
            PROVE  Covered(s)' /\ \A t \in Token : Covered(t) => Covered(t)'
        <4>1. Outlives([token |-> s, expiresAt |-> at], s)
          BY <2>1, <2>2, FreshEntryOutlives
        <4> QED BY <2>1, <3>1, <4>1, BlacklistCovers
      <3>2. ASSUME blacklist' = blacklist, req[r].pc = "blacklistExpiry"
            PROVE  Covered(s)' /\ \A t \in Token : Covered(t) => Covered(t)'
        <4>1. Covered(s)
          BY <2>2, <3>2 DEF RevokedAreCovered
        <4> QED BY <3>2, <4>1, CoverIsKept
      <3> QED BY <2>3, <3>1, <3>2
    <2>5. /\ revoked' \subseteq revoked \cup {s}
          /\ \A q \in Reqs \ {r} : req'[q] = req[q]
          /\ req'[r].pc = "blacklistExpiry" => req'[r].token = s
      BY <1>8, <2>2, <1>0 DEF BlacklistToken, ExpireBlacklist, SignedOut, Answer, Goto, Idle,
                              Request
    <2>6. \A t \in revoked' : Covered(t)'
      BY <2>4, <2>5, <1>0 DEF RevokedAreCovered
    <2>7. ASSUME NEW q \in Reqs, req'[q].pc = "blacklistExpiry"
          PROVE  Covered(req[q].token)'
      <3>1. PICK t \in Token : t = req'[q].token /\ (Covered(t) \/ t = s)
        BY <1>1, <2>5, <2>7 DEF RevokedAreCovered
      <3>2. Covered(t)'
        BY <2>4, <3>1
      <3> QED BY <3>1, <3>2 DEF Covered, PastLife, Outlives
    <2> QED BY <2>6, <2>7 DEF RevokedAreCovered
  <1>9. CASE Restart \/ Tick \/ UNCHANGED vars
    <2>1. CASE Restart
      <3>1. \/ revoked' = {}
            \/ blacklist' = blacklist /\ revoked' = revoked
        BY <2>1 DEF Restart
      <3>2. \A q \in Reqs : req'[q].pc # "blacklistExpiry"
        BY <2>1 DEF Restart, Idle
      <3>3. CASE revoked' = {}
        BY <3>2, <3>3 DEF RevokedAreCovered
      <3> QED BY <3>1, <3>2, <3>3, <1>2
    <2>2. CASE Tick \/ UNCHANGED vars
      BY <2>2, <1>2 DEF Tick, vars
    <2> QED BY <1>9, <2>1, <2>2
  <1> QED BY <1>3, <1>4, <1>5, <1>6, <1>7, <1>8, <1>9 DEF Next, Present, Continue

-----------------------------------------------------------------------------
(* Requests with a signed-out token are stopped *)

\* A step lets no request with a signed-out token past the guards.
LEMMA NextStopped ==
    ASSUME TypeInv, RevokedAreCovered, RevokedAreStopped, [Next]_vars
    PROVE  RevokedAreStopped'
  <1> USE DEF history, cache
  <1>0. /\ now \in Nat /\ req \in [Reqs -> Request] /\ issued \subseteq Token
        /\ blacklist \subseteq BlacklistEntry /\ RequestShape
    BY DEF TypeInv, TypeOK
  <1>g. ASSUME NEW t \in Token, PastLife(t) PROVE Sec(now') >= t.iat + AccessLife
    BY <1>g, PastLifeIsStable DEF PastLife
  \* What a step leaves alone stays stopped; so does what it sends to no guard
  \* and admits nowhere.
  <1>1. ASSUME \A q \in Reqs :
                 \/ req'[q] = req[q]
                 \/ req'[q].pc \notin AdmittedAt \cup {"accessGuard", "lookup"}
                 \/ "revoked" \notin req'[q].arrived
                 \/ /\ req'[q].pc = "accessGuard" /\ req'[q].token \in Token
                    /\ Sec(now') >= req'[q].token.iat + AccessLife
        PROVE  RevokedAreStopped'
    <2> SUFFICES ASSUME NEW q \in Reqs, "revoked" \in req'[q].arrived
                 PROVE  /\ req'[q].pc = "accessGuard" =>
                              Sec(now') >= req'[q].token.iat + AccessLife
                        /\ req'[q].pc \notin AdmittedAt \cup {"lookup"}
      BY DEF RevokedAreStopped, PastLife, AdmittedAt
    <2>1. CASE req'[q] = req[q]
      <3>1. CASE req[q].pc = "accessGuard"
        BY <2>1, <3>1, <1>g, <1>0 DEF RevokedAreStopped, RequestShape, AdmittedAt
      <3>2. CASE req[q].pc # "accessGuard"
        BY <2>1, <3>2 DEF RevokedAreStopped
      <3> QED BY <3>1, <3>2
    <2>2. CASE req'[q].pc \notin AdmittedAt \cup {"accessGuard", "lookup"}
      BY <2>2
    <2>3. CASE /\ req'[q].pc = "accessGuard"
               /\ Sec(now') >= req'[q].token.iat + AccessLife
      BY <2>3 DEF AdmittedAt
    <2> QED BY <1>1, <2>1, <2>2, <2>3
  \* JwtBlacklistGuard lets a revoked token through only past its life.
  <1>2. ASSUME NEW r \in Reqs, NEW t \in issued, JwtBlacklistGuard(r, t)
        PROVE  RevokedAreStopped'
    <2>1. CASE req' = req
      BY <2>1, <1>1
    <2>2. CASE /\ ~Blacklisted(t) /\ now' = now
               /\ req' = [req EXCEPT ![r] =
                             Awaiting("accessGuard", t.sub, t, MarksOf(t))]
      <3>1. /\ \A q \in Reqs \ {r} : req'[q] = req[q]
            /\ req'[r].pc = "accessGuard" /\ req'[r].token = t /\ t \in Token
            /\ req'[r].arrived = MarksOf(t)
        BY <2>2, <1>0 DEF Awaiting
      <3>2. ASSUME t \in revoked PROVE PastLife(t)
        <4>1. Covered(t)
          BY <3>2 DEF RevokedAreCovered
        <4>2. ASSUME NEW e \in blacklist, Outlives(e, t) PROVE PastLife(t)
          <5>1. Expired(e.expiresAt)
            BY <2>2, <4>2 DEF Blacklisted, Outlives
          <5> QED BY <3>1, <4>2, <5>1, DroppedIsPastLife
        <4> QED BY <4>1, <4>2 DEF Covered
      <3>3. "revoked" \in MarksOf(t) => t \in revoked
        BY DEF MarksOf
      <3> QED BY <3>1, <3>2, <3>3, <1>g, <1>1
    <2> QED BY <1>2, <2>1, <2>2 DEF JwtBlacklistGuard
  \* AccessTokenGuard lets no token past its life through.
  <1>3. ASSUME NEW r \in Reqs, AccessTokenGuard(r) PROVE RevokedAreStopped'
    <2>1. CASE req' = [req EXCEPT ![r] = Idle]
      BY <2>1, <1>0, <1>1 DEF Idle, AdmittedAt
    <2>2. CASE Verifies(req[r].token, "access") /\ Goto(r, "lookup")
      <3>1. req[r].pc = "accessGuard" /\ req[r].token \in Token
        BY <1>3, <1>0 DEF AccessTokenGuard, Resumes, RequestShape
      <3>2. ~PastLife(req[r].token)
        <4>1. req[r].token.iat \in Nat /\ Sec(now) \in Nat
          BY <3>1, <1>0, SecIsBelow DEF Token
        <4> QED BY <2>2, <4>1, TtlAssumption DEF Verifies, Life, PastLife, Goto
      <3>3. "revoked" \notin req[r].arrived
        BY <3>1, <3>2 DEF RevokedAreStopped
      <3>4. /\ \A q \in Reqs \ {r} : req'[q] = req[q]
            /\ req'[r].arrived = req[r].arrived
        BY <2>2, <1>0 DEF Goto, Request
      <3> QED BY <3>3, <3>4, <1>1
    <2> QED BY <1>3, <2>1, <2>2 DEF AccessTokenGuard, Answer
  \* Past the second guard a request only moves on or ends.
  <1>4. ASSUME NEW r \in Reqs,
               LoadUser(r) \/ HandleRequest(r) \/ Abort(r) \/ SignOut(r)
               \/ BlacklistToken(r) \/ ExpireBlacklist(r)
        PROVE  RevokedAreStopped'
    <2>1. \/ req' = [req EXCEPT ![r] = Idle]
          \/ /\ req[r].pc \in AdmittedAt \cup {"lookup"}
             /\ \E pc \in Locations : req' = [req EXCEPT ![r].pc = pc]
      BY <1>4 DEF LoadUser, HandleRequest, Abort, SignOut, BlacklistToken, ExpireBlacklist,
                  SignedOut, Answer, Goto, Locations, AdmittedAt, Resumes
    <2>2. CASE req' = [req EXCEPT ![r] = Idle]
      BY <2>2, <1>0, <1>1 DEF Idle, AdmittedAt
    <2>3. CASE /\ req[r].pc \in AdmittedAt \cup {"lookup"}
               /\ \E pc \in Locations : req' = [req EXCEPT ![r].pc = pc]
      <3>1. "revoked" \notin req[r].arrived
        BY <2>3 DEF RevokedAreStopped
      <3>2. /\ \A q \in Reqs \ {r} : req'[q] = req[q]
            /\ req'[r].arrived = req[r].arrived
        BY <2>3, <1>0 DEF Request
      <3> QED BY <3>1, <3>2, <1>1
    <2> QED BY <2>1, <2>2, <2>3
  <1>5. ASSUME NEW r \in Reqs, NEW u \in Users, SignIn(r, u) PROVE RevokedAreStopped'
    BY <1>5, <1>0, <1>1 DEF SignIn, Awaiting
  <1>6. ASSUME NEW r \in Reqs, NEW t \in issued, Refresh(r, t) PROVE RevokedAreStopped'
    BY <1>6, <1>0, <1>1 DEF Refresh, Awaiting
  <1>7. ASSUME NEW r \in Reqs,
               SignInIssue(r) \/ RefreshIssue(r) \/ ExpireRefreshToken(r)
        PROVE  RevokedAreStopped'
    BY <1>7, <1>0, <1>1 DEF SignInIssue, RefreshIssue, ExpireRefreshToken, StorePair,
                            Answer, Awaiting, Idle, AdmittedAt
  <1>8. CASE Restart \/ Tick \/ UNCHANGED vars
    BY <1>8, <1>1 DEF Restart, Tick, vars, Idle, AdmittedAt
  <1> QED BY <1>2, <1>3, <1>4, <1>5, <1>6, <1>7, <1>8 DEF Next, Present, Continue

\* A request that arrives with an access token whose sign-out has completed is
\* let into no handler, whatever the clock does between the two guards.
THEOREM SignOutRevokes == Spec => []SignedOutTokenRejected
  <1>1. Init => TypeInv /\ RevocationInv
    <2>1. Init => TypeInv
      BY InitTypes
    <2>2. Init => RevocationInv
      BY DEF Init, RevocationInv, NoTokenFromTheFuture, RevokedAreCovered,
             RevokedAreStopped, Idle
    <2> QED BY <2>1, <2>2
  <1>2. TypeInv /\ RevocationInv /\ [Next]_vars => TypeInv' /\ RevocationInv'
    BY NextTypes, NextFuture, NextCovered, NextStopped DEF RevocationInv
  <1>3. TypeInv /\ RevocationInv => SignedOutTokenRejected
    BY DEF RevocationInv, RevokedAreStopped, SignedOutTokenRejected, Admitted
  <1> QED BY <1>1, <1>2, <1>3, PTL DEF Spec

-----------------------------------------------------------------------------
(* In memory, check and store of a refresh token are one turn *)

\* At the start nobody needs the turn.
LEMMA InitTurn == Init => TurnInv
  BY DEF Init, TurnInv, TurnIsHeld, AcceptedTokenIsStillStored,
         SignedOutUserHasNoRefreshToken, Idle

\* A step of the memory mode moves requests under the turn only.
LEMMA NextTurn ==
    ASSUME ~RemoteCache, TypeInv, TurnInv, [Next]_vars
    PROVE  TurnInv'
  <1> USE DEF history, cache, TurnAfterCache
  <1>0. /\ req \in [Reqs -> Request] /\ RequestShape /\ issued \subseteq Token
        /\ refreshStore \in [Users -> RefreshEntry \cup {None}]
        /\ signedOut \subseteq Users
        /\ \A q \in Reqs : q # None
    BY NoneAssumption DEF TypeInv, TypeOK
  <1> DEFINE Held == {"rotating", "accessGuard", "handler", "blacklisting"}
             Posted == {"storeExpiry", "blacklistExpiry"}
  <1>1. \A q \in Reqs : /\ req[q].pc \in Held => running = q
                       /\ req[q].pc \notin Posted
    BY DEF TurnInv, TurnIsHeld
  <1>2. \A q \in Reqs : req[q].pc = "rotating" =>
            /\ running = q /\ req[q].user \in Users
            /\ refreshStore[req[q].user] # None
            /\ refreshStore[req[q].user].token = req[q].token
            /\ req[q].user \notin signedOut
    BY <1>0, <1>1 DEF TurnInv, AcceptedTokenIsStillStored, RequestShape,
                      SignedOutUserHasNoRefreshToken
  \* A step that starts and ends with no request held, or keeps one request
  \* held, moves that request only.
  <1>3. ASSUME NEW r \in Reqs, running \in {r, None},
               \A q \in Reqs \ {r} : req'[q] = req[q],
               req'[r].pc \in Held => running' = r,
               req'[r].pc \notin Posted
        PROVE  /\ TurnIsHeld'
               /\ \A q \in Reqs : req'[q].pc = "rotating" => q = r
    BY <1>0, <1>1, <1>3 DEF TurnIsHeld
  <1>4. ASSUME NEW r \in Reqs, running \in {r, None},
               \A q \in Reqs \ {r} : req'[q] = req[q],
               req'[r].pc \in Held \ {"rotating"} => running' = r,
               req'[r].pc \notin Posted \cup {"rotating"},
               \A u \in Users : refreshStore[u] = None => refreshStore'[u] = None,
               signedOut' = signedOut
        PROVE  TurnInv'
    BY <1>0, <1>3, <1>4 DEF TurnInv, AcceptedTokenIsStillStored,
                            SignedOutUserHasNoRefreshToken
  <1>5. ASSUME NEW r \in Reqs, NEW u \in Users, SignIn(r, u) PROVE TurnInv'
    BY <1>5, <1>0, <1>4 DEF SignIn, Arrives, Awaiting
  \* Storing: a sign-in ends the signed-out state, a refresh finds it ended.
  <1>6. ASSUME NEW r \in Reqs, SignInIssue(r) \/ RefreshIssue(r) PROVE TurnInv'
    <2>1. /\ running \in {r, None} /\ req' = [req EXCEPT ![r] = Idle]
          /\ \A u \in Users \ {req[r].user} : refreshStore'[u] = refreshStore[u]
          /\ signedOut' \subseteq signedOut /\ req[r].user \notin signedOut'
      BY <1>6, <1>0, <1>2 DEF SignInIssue, RefreshIssue, Resumes, MayRun, StorePair, Answer
    <2>2. /\ TurnIsHeld'
          /\ \A q \in Reqs : req'[q].pc = "rotating" => q = r
      BY <2>1, <1>0, <1>3 DEF Idle
    <2>3. AcceptedTokenIsStillStored'
      BY <2>1, <2>2, <1>0 DEF AcceptedTokenIsStillStored, Idle
    <2>4. SignedOutUserHasNoRefreshToken'
      BY <2>1, <1>0 DEF TurnInv, SignedOutUserHasNoRefreshToken
    <2> QED BY <2>2, <2>3, <2>4 DEF TurnInv
  <1>7. ASSUME CacheGet
        PROVE  \A u \in Users : refreshStore[u] = None => refreshStore'[u] = None
    BY <1>7 DEF CacheGet, Kept
  <1>8. ASSUME NEW r \in Reqs, NEW t \in issued, Refresh(r, t) PROVE TurnInv'
    <2>1. /\ CacheGet /\ running = None /\ signedOut' = signedOut
          /\ \A u \in Users : refreshStore[u] = None => refreshStore'[u] = None
      BY <1>8, <1>7 DEF Refresh, Arrives
    <2>2. SignedOutUserHasNoRefreshToken'
      BY <2>1, <1>0 DEF TurnInv, SignedOutUserHasNoRefreshToken
    <2>3. CASE req' = req /\ running' = running
      BY <2>1, <2>3, <1>0, <1>1, <1>4 DEF Refresh
    <2>4. CASE /\ refreshStore'[t.sub] # None /\ refreshStore'[t.sub].token = t
               /\ req' = [req EXCEPT ![r] = Awaiting("rotating", t.sub, t, {})]
               /\ running' = r
      <3>1. /\ TurnIsHeld'
            /\ \A q \in Reqs : req'[q].pc = "rotating" => q = r
        BY <2>1, <2>4, <1>0, <1>3 DEF Awaiting, Refresh
      <3>2. AcceptedTokenIsStillStored'
        BY <2>4, <3>1, <1>0 DEF AcceptedTokenIsStillStored, Awaiting, Refresh
      <3> QED BY <2>2, <3>1, <3>2 DEF TurnInv
    <2> QED BY <1>8, <2>3, <2>4 DEF Refresh
  <1>9. ASSUME NEW r \in Reqs, NEW t \in issued, JwtBlacklistGuard(r, t) PROVE TurnInv'
    <2>1. /\ running = None /\ signedOut' = signedOut
          /\ \A u \in Users : refreshStore[u] = None => refreshStore'[u] = None
      BY <1>9, <1>7 DEF JwtBlacklistGuard, Arrives
    <2>2. CASE req' = req /\ running' = running
      BY <2>1, <2>2, <1>0, <1>1, <1>4 DEF JwtBlacklistGuard
    <2>3. CASE /\ req' = [req EXCEPT ![r] =
                             Awaiting("accessGuard", t.sub, t, MarksOf(t))]
               /\ running' = r
      BY <2>1, <2>3, <1>0, <1>4 DEF Awaiting, JwtBlacklistGuard
    <2> QED BY <1>9, <2>2, <2>3 DEF JwtBlacklistGuard
  <1>10. ASSUME NEW r \in Reqs,
                AccessTokenGuard(r) \/ LoadUser(r) \/ HandleRequest(r) \/ Abort(r)
                \/ BlacklistToken(r)
         PROVE  TurnInv'
    <2>1. /\ running \in {r, None}
          /\ refreshStore' = refreshStore /\ signedOut' = signedOut
          /\ \/ req' = [req EXCEPT ![r] = Idle]
             \/ req' = [req EXCEPT ![r].pc = "lookup"]
             \/ req' = [req EXCEPT ![r].pc = "handler"] /\ running' = r
      BY <1>10 DEF AccessTokenGuard, LoadUser, HandleRequest, Abort, BlacklistToken,
                   SignedOut, Answer, Goto, Resumes, MayRun
    <2>2. /\ \A q \in Reqs \ {r} : req'[q] = req[q]
          /\ req'[r].pc \in {"idle", "lookup", "handler"}
          /\ req'[r].pc = "handler" => running' = r
      BY <2>1, <1>0 DEF Idle, Request
    <2> QED BY <2>1, <2>2, <1>4
  <1>11. ASSUME NEW r \in Reqs, SignOut(r) PROVE TurnInv'
    <2>1. /\ running \in {r, None} /\ running' = r /\ req[r].user \in Users
          /\ req' = [req EXCEPT ![r].pc = "blacklisting"]
          /\ refreshStore' = [refreshStore EXCEPT ![req[r].user] = None]
          /\ signedOut' = signedOut \cup {req[r].user}
      BY <1>11, <1>0 DEF SignOut, Goto, Resumes, MayRun, RequestShape
    <2>2. /\ \A q \in Reqs \ {r} : req'[q] = req[q]
          /\ req'[r].pc = "blacklisting"
      BY <2>1, <1>0 DEF Request
    <2>3. /\ TurnIsHeld'
          /\ \A q \in Reqs : req'[q].pc = "rotating" => q = r
      BY <2>1, <2>2, <1>3
    <2>4. AcceptedTokenIsStillStored'
      BY <2>2, <2>3 DEF AcceptedTokenIsStillStored
    <2>5. SignedOutUserHasNoRefreshToken'
      BY <2>1, <1>0 DEF TurnInv, SignedOutUserHasNoRefreshToken
    <2> QED BY <2>3, <2>4, <2>5 DEF TurnInv
  \* EXPIRE is a call of Redis only.
  <1>12. ASSUME NEW r \in Reqs, ExpireRefreshToken(r) \/ ExpireBlacklist(r) PROVE TurnInv'
    BY <1>12, <1>1 DEF ExpireRefreshToken, ExpireBlacklist, Resumes
  <1>13. CASE Restart
    <2>1. \A q \in Reqs : req'[q].pc = "idle"
      BY <1>13 DEF Restart, Idle
    <2>2. \A u \in Users : refreshStore'[u] = None
      BY <1>13 DEF Restart
    <2>3. signedOut' \subseteq Users
      BY <1>13, <1>0 DEF Restart
    <2> QED BY <2>1, <2>2, <2>3 DEF TurnInv, TurnIsHeld, AcceptedTokenIsStillStored,
                                    SignedOutUserHasNoRefreshToken
  <1>14. CASE Tick \/ UNCHANGED vars
    BY <1>14 DEF Tick, vars, TurnInv, TurnIsHeld, AcceptedTokenIsStillStored,
                 SignedOutUserHasNoRefreshToken
  <1> QED BY <1>5, <1>6, <1>8, <1>9, <1>10, <1>11, <1>12, <1>13, <1>14
          DEF Next, Present, Continue

\* With the in-memory cache the turn is held from the start.
LEMMA TurnInvariant ==
    ASSUME ~RemoteCache
    PROVE  Spec => []TurnInv
  <1>1. TypeInv /\ TurnInv /\ [Next]_vars => TypeInv' /\ TurnInv'
    BY NextTypes, NextTurn
  <1> QED BY <1>1, InitTypes, InitTurn, PTL DEF Spec

\* With the in-memory cache, sign-out leaves the user without a refresh token
\* until the next sign-in: no refresh under way puts one back.
THEOREM MemorySessions ==
    ASSUME ~RemoteCache
    PROVE  Spec => []SignedOutUserHasNoRefreshToken
  <1>1. TurnInv => SignedOutUserHasNoRefreshToken
    BY DEF TurnInv
  <1> QED BY <1>1, TurnInvariant, PTL

\* With the in-memory cache, a refresh replaces the very token it has checked:
\* nothing that was stored in between is lost, and no two refreshes of a user
\* overlap.
THEOREM MemoryExchange ==
    ASSUME ~RemoteCache
    PROVE  Spec => []AcceptedTokenIsStillStored
  <1>1. TurnInv => AcceptedTokenIsStillStored
    BY DEF TurnInv
  <1> QED BY <1>1, TurnInvariant, PTL

-----------------------------------------------------------------------------
(* The stored refresh token is the newest *)

NewestInv == StoredTokenIsNewest /\ PendingPairIsNotNewer

\* The pair that is stored is the newest one.
LEMMA StorePairIsNewest ==
    ASSUME TypeInv, TypeInv', NoTokenFromTheFuture, NewestInv, NEW r \in Reqs,
           req[r].user \in Users, StorePair(r, req[r].user), now' = now
    PROVE  NewestInv'
  <1> DEFINE u == req[r].user
  <1>0. /\ now \in Nat /\ req \in [Reqs -> Request] /\ issued \subseteq Token
        /\ refreshStore \in [Users -> RefreshEntry \cup {None}]
        /\ RequestShape /\ RequestShape' /\ req' \in [Reqs -> Request]
    BY DEF TypeInv, TypeOK
  <1>1. /\ Sec(now) \in Nat
        /\ Sign(u, "refresh") \in Token /\ Sign(u, "refresh").iat = Sec(now)
        /\ \A t \in Pair(u, Sec(now)) : t.sub = u /\ t.iat = Sec(now)
    BY <1>0, SignedTokens
  <1>2. /\ refreshStore'[u] # None /\ refreshStore'[u].token.iat = Sec(now)
        /\ \A v \in Users \ {u} : refreshStore'[v] = refreshStore[v]
    <2>1. [token |-> Sign(u, "refresh"), expiresAt |-> ExpiryOfSet(RefreshTtl)] \in RefreshEntry
      BY <1>0, <1>1, ExpiryOfSetIsExpiry, TtlAssumption DEF RefreshEntry
    <2> QED BY <2>1, <1>0, <1>1, EntryAssumption DEF StorePair
  <1>3. issued' = issued \/ issued' = issued \cup Pair(u, Sec(now))
    BY DEF StorePair
  <1>4. StoredTokenIsNewest'
    BY <1>0, <1>1, <1>2, <1>3 DEF NewestInv, StoredTokenIsNewest, NoTokenFromTheFuture
  <1>5. /\ \A q \in Reqs \ {r} : req'[q] = req[q]
        /\ req'[r].pc = "storeExpiry" => req'[r].token.iat = Sec(now) /\ req'[r].user = u
    BY <1>0, <1>1 DEF StorePair, Answer, Awaiting, Idle
  <1>6. ASSUME NEW q \in Reqs, req[q].pc = "storeExpiry"
        PROVE  req[q].token.iat =< Sec(now) /\ req[q].user \in Users
    BY <1>0, <1>6, EntryAssumption DEF NoTokenFromTheFuture, RequestShape
  <1>7. PendingPairIsNotNewer'
    BY <1>1, <1>2, <1>5, <1>6 DEF NewestInv, PendingPairIsNotNewer
  <1> QED BY <1>4, <1>7 DEF NewestInv

\* A step keeps the newest token in the store.
LEMMA NextNewest ==
    ASSUME TypeInv, TypeInv', NoTokenFromTheFuture, NewestInv, [Next]_vars
    PROVE  NewestInv'
  <1> USE DEF history, cache
  <1>0. /\ req \in [Reqs -> Request] /\ issued \subseteq Token
        /\ refreshStore \in [Users -> RefreshEntry \cup {None}]
        /\ RequestShape
    BY DEF TypeInv, TypeOK
  \* A step that stores no other token and issues none but those of pending
  \* pairs keeps the invariant.
  <1>1. ASSUME \A u \in Users : refreshStore'[u] # None =>
                  /\ refreshStore[u] # None
                  /\ refreshStore'[u].token = refreshStore[u].token,
               \A q \in Reqs : req'[q].pc = "storeExpiry" => req'[q] = req[q],
               \A t \in issued' : \/ t \in issued
                                 \/ \E q \in Reqs : /\ req[q].pc = "storeExpiry"
                                                    /\ t.sub = req[q].user
                                                    /\ t.iat = req[q].token.iat
        PROVE  NewestInv'
    <2>1. StoredTokenIsNewest'
      BY <1>1 DEF NewestInv, StoredTokenIsNewest, PendingPairIsNotNewer
    <2>2. PendingPairIsNotNewer'
      BY <1>0, <1>1 DEF NewestInv, PendingPairIsNotNewer, RequestShape
    <2> QED BY <2>1, <2>2 DEF NewestInv
  <1>2. ASSUME NEW r \in Reqs, SignInIssue(r) \/ RefreshIssue(r) PROVE NewestInv'
    <2>1. req[r].user \in Users /\ StorePair(r, req[r].user) /\ now' = now
      BY <1>2, <1>0 DEF SignInIssue, RefreshIssue, Resumes, RequestShape
    <2> QED BY <2>1, StorePairIsNewest DEF SignInIssue, RefreshIssue
  <1>3. ASSUME CacheGet
        PROVE  \A u \in Users : refreshStore'[u] # None =>
                  /\ refreshStore[u] # None
                  /\ refreshStore'[u].token = refreshStore[u].token
    BY <1>3 DEF CacheGet, Kept
  <1>4. ASSUME NEW r \in Reqs, NEW t \in issued, Refresh(r, t) \/ JwtBlacklistGuard(r, t)
        PROVE  NewestInv'
    <2>1. /\ CacheGet /\ issued' = issued
          /\ req' = req \/ \E pc \in {"rotating", "accessGuard"}, a \in SUBSET Marks :
                                req' = [req EXCEPT ![r] = Awaiting(pc, t.sub, t, a)]
      BY <1>4 DEF Refresh, JwtBlacklistGuard, MarksOf
    <2>2. \A q \in Reqs : req'[q].pc = "storeExpiry" => req'[q] = req[q]
      BY <2>1, <1>0 DEF Awaiting, Refresh, JwtBlacklistGuard
    <2> QED BY <2>1, <2>2, <1>1, <1>3
  <1>5. ASSUME NEW r \in Reqs, ExpireRefreshToken(r) PROVE NewestInv'
    <2> DEFINE u == req[r].user
    <2>1. /\ req[r].pc = "storeExpiry" /\ u \in Users /\ req[r].token \in Token
          /\ req' = [req EXCEPT ![r] = Idle]
          /\ issued' = issued \cup Pair(u, req[r].token.iat)
      BY <1>5, <1>0 DEF ExpireRefreshToken, Resumes, RequestShape, Answer
    <2>2. \A v \in Users : refreshStore'[v] # None =>
              /\ refreshStore[v] # None
              /\ refreshStore'[v].token = refreshStore[v].token
      <3>1. \A v \in Users \ {u} : refreshStore'[v] = refreshStore[v]
        BY <1>5, <1>0 DEF ExpireRefreshToken
      <3>2. refreshStore[u] # None => refreshStore[u] \in RefreshEntry
        BY <1>0, <2>1
      <3>3. refreshStore'[u] # None =>
              /\ refreshStore[u] # None
              /\ refreshStore'[u] = [refreshStore[u] EXCEPT !.expiresAt =
                                        now + RefreshTtl * TicksPerSecond]
        BY <1>5, <1>0, <2>1 DEF ExpireRefreshToken, Kept
      <3> QED BY <3>1, <3>2, <3>3 DEF RefreshEntry
    <2>3. \A q \in Reqs : req'[q].pc = "storeExpiry" => req'[q] = req[q]
      BY <2>1, <1>0 DEF Idle
    <2>4. \A t \in Pair(u, req[r].token.iat) : t.sub = u /\ t.iat = req[r].token.iat
      BY DEF Pair
    <2> QED BY <2>1, <2>2, <2>3, <2>4, <1>1
  <1>6. ASSUME NEW r \in Reqs,
               AccessTokenGuard(r) \/ LoadUser(r) \/ HandleRequest(r) \/ Abort(r)
               \/ SignOut(r) \/ BlacklistToken(r) \/ ExpireBlacklist(r)
        PROVE  NewestInv'
    <2>1. /\ req' = [req EXCEPT ![r] = Idle]
             \/ \E pc \in Locations \ {"storeExpiry"} : req' = [req EXCEPT ![r].pc = pc]
          /\ issued' = issued
          /\ \A u \in Users : refreshStore'[u] # None => refreshStore'[u] = refreshStore[u]
      BY <1>6, <1>0 DEF AccessTokenGuard, LoadUser, HandleRequest, Abort, SignOut,
                  BlacklistToken, ExpireBlacklist, SignedOut, Answer, Goto, Locations
    <2>2. \A q \in Reqs : req'[q].pc = "storeExpiry" => req'[q] = req[q]
      BY <2>1, <1>0 DEF Idle, Request
    <2> QED BY <2>1, <2>2, <1>1
  <1>7. ASSUME NEW r \in Reqs, NEW u \in Users, SignIn(r, u) PROVE NewestInv'
    BY <1>7, <1>0, <1>1 DEF SignIn, Awaiting
  <1>8. CASE Restart \/ Tick \/ UNCHANGED vars
    BY <1>8, <1>1 DEF Restart, Tick, vars, Idle
  <1> QED BY <1>2, <1>4, <1>5, <1>6, <1>7, <1>8 DEF Next, Present, Continue

\* Whatever the cache and however many requests run at once, the refresh token
\* in the store is of the latest second of those handed out, so that a token of
\* an earlier second than its successor is never valid again.
THEOREM NewestIsStored == Spec => []StoredTokenIsNewest
  <1>1. Init => TypeInv /\ NoTokenFromTheFuture /\ NewestInv
    <2>1. Init => TypeInv
      BY InitTypes
    <2>2. Init => NoTokenFromTheFuture /\ NewestInv
      BY DEF Init, NoTokenFromTheFuture, NewestInv, StoredTokenIsNewest,
             PendingPairIsNotNewer, Idle
    <2> QED BY <2>1, <2>2
  <1>2. TypeInv /\ NoTokenFromTheFuture /\ NewestInv /\ [Next]_vars
        => TypeInv' /\ NoTokenFromTheFuture' /\ NewestInv'
    BY NextTypes, NextFuture, NextNewest
  <1>3. NewestInv => StoredTokenIsNewest
    BY DEF NewestInv
  <1> QED BY <1>1, <1>2, <1>3, PTL DEF Spec

-----------------------------------------------------------------------------
(* Expiration strings *)

\* Whole numbers of seconds, minutes, hours and days are read alike: the entry
\* of a token lives exactly as long as the token.
THEOREM UnitsAgree ==
  ASSUME NEW e \in Expirations, e.tenths = 0, e.unit \in DOMAIN Seconds
  PROVE  ParseExpiration(e) = JwtSeconds(e)
<1>0. e.whole \in Nat
  BY DEF Expirations
<1>1. CASE e.unit = "s"
  BY <1>0, <1>1 DEF ParseExpiration, JwtSeconds, LastLetter, Seconds, Millis
<1>2. CASE e.unit = "m"
  BY <1>0, <1>2 DEF ParseExpiration, JwtSeconds, LastLetter, Seconds, Millis
<1>3. CASE e.unit = "h"
  BY <1>0, <1>3 DEF ParseExpiration, JwtSeconds, LastLetter, Seconds, Millis
<1>4. CASE e.unit = "d"
  BY <1>0, <1>4 DEF ParseExpiration, JwtSeconds, LastLetter, Seconds, Millis
<1> QED BY <1>1, <1>2, <1>3, <1>4 DEF Seconds

\* A fraction is lost on the way: an entry never outlives its token by it, but
\* may be gone before, as with "1.5h", which blacklists a token for an hour.
THEOREM FractionsAreLost ==
  ASSUME NEW e \in Expirations, e.unit \in DOMAIN Seconds
  PROVE  ParseExpiration(e) <= JwtSeconds(e)
<1>0. e.whole \in Nat /\ e.tenths \in 0 .. 9
  BY DEF Expirations
<1>1. CASE e.unit = "s"
  BY <1>0, <1>1 DEF ParseExpiration, JwtSeconds, LastLetter, Seconds, Millis
<1>2. CASE e.unit = "m"
  BY <1>0, <1>2 DEF ParseExpiration, JwtSeconds, LastLetter, Seconds, Millis
<1>3. CASE e.unit = "h"
  BY <1>0, <1>3 DEF ParseExpiration, JwtSeconds, LastLetter, Seconds, Millis
<1>4. CASE e.unit = "d"
  BY <1>0, <1>4 DEF ParseExpiration, JwtSeconds, LastLetter, Seconds, Millis
<1> QED BY <1>1, <1>2, <1>3, <1>4 DEF Seconds

=============================================================================
