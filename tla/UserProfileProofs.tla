------------------------- MODULE UserProfileProofs --------------------------
(***************************************************************************)
(* Updates of a user that neither overlap nor fail are kept: an update     *)
(* that is alone with its user saves the row as it is with one column      *)
(* changed.  The ranking stays sorted, shows the scores of such users, and *)
(* ranks and pages count it alike.                                         *)
(***************************************************************************)
EXTENDS UserProfile, ListingsProofs

\* A step of request r alone keeps the invariant if what r goes on to do, q,
\* is in order and no row changes under an update that is alone.
LEMMA RequestMoves ==
  ASSUME UpdatesInv, NEW r \in Reqs, NEW q, req' = [req EXCEPT ![r] = q], IsRequest(q),
         db' \in [Users -> Profile], expected' \in [Users -> Profile],
         disturbed \subseteq disturbed',
         \A u \in Users \ disturbed' : db'[u] = expected'[u],
         \A u \in Users \ disturbed' :
            db'[u] = db[u] \/ \A s \in Reqs \ {r} : ~Updating(req[s], u),
         Updating(q, q.user) =>
            /\ InFlight(q, db', disturbed')
            /\ \A s \in Reqs \ {r} : Updating(req[s], q.user) => q.user \in disturbed'
  PROVE  UpdatesInv'
<1>1. /\ req' = [s \in Reqs |-> req'[s]]
      /\ req'[r] = q
      /\ \A s \in Reqs \ {r} : req'[s] = req[s]
  BY DEF UpdatesInv
<1>2. \A s \in Reqs : IsRequest(req'[s])
  BY <1>1 DEF UpdatesInv
<1>3. ASSUME NEW s \in Reqs, Updating(req'[s], req'[s].user)
      PROVE  InFlight(req'[s], db', disturbed')
  <2>1. CASE s = r
    BY <1>1, <1>3, <2>1
  <2>2. CASE s # r
    <3> DEFINE u == req[s].user
    <3>1. Updating(req[s], u) /\ req'[s] = req[s] /\ s \in Reqs \ {r}
      BY <1>1, <1>3, <2>2
    <3>2. InFlight(req[s], db, disturbed) /\ u \in Users
      BY <3>1 DEF UpdatesInv, InFlight
    <3>3. u \notin disturbed' => u \notin disturbed /\ db'[u] = db[u]
      BY <3>1, <3>2
    <3> QED BY <3>1, <3>2, <3>3 DEF InFlight
  <2> QED BY <2>1, <2>2
<1>4. UpdateAlone'
  <2> SUFFICES ASSUME NEW s \in Reqs, NEW t \in Reqs, NEW u \in Users \ disturbed',
                      Updating(req'[s], u), Updating(req'[t], u)
               PROVE  s = t
    BY DEF UpdateAlone
  <2>1. CASE s # r /\ t # r
    BY <1>1, <2>1 DEF UpdatesInv, UpdateAlone
  <2>2. CASE s = r /\ t # r
    BY <1>1, <2>2 DEF Updating
  <2>3. CASE s # r /\ t = r
    BY <1>1, <2>3 DEF Updating
  <2> QED BY <2>1, <2>2, <2>3
<1> QED BY <1>1, <1>2, <1>3, <1>4 DEF UpdatesInv

\* A step that touches no row: what is left to show of it.
LEMMA RequestGoesOn ==
  ASSUME UpdatesInv, NEW r \in Reqs, NEW q, req' = [req EXCEPT ![r] = q], IsRequest(q),
         UNCHANGED <<db, expected, disturbed>>,
         Updating(q, q.user) => Updating(req[r], q.user) /\ InFlight(q, db, disturbed)
  PROVE  UpdatesInv'
<1>1. Updating(q, q.user) => InFlight(q, db', disturbed')
  OBVIOUS
<1>2. Updating(q, q.user) =>
          \A s \in Reqs \ {r} : Updating(req[s], q.user) => q.user \in disturbed'
  BY DEF UpdatesInv, UpdateAlone, InFlight
<1>3. \A u \in Users \ disturbed' : db'[u] = expected'[u]
  BY DEF UpdatesInv
<1>4. db' \in [Users -> Profile] /\ expected' \in [Users -> Profile]
  BY DEF UpdatesInv
<1> QED BY <1>1, <1>2, <1>3, <1>4, RequestMoves

\* A slot that is free has no update.
LEMMA IdleIsFree ==
  IsRequest(Idle) /\ \A u : ~Updating(Idle, u)
  BY DEF IsRequest, Idle, Updating

\* A request is answered; if it may have written a row without success, its
\* user counts as disturbed.
LEMMA RequestEnds ==
  ASSUME UpdatesInv, NEW r \in Reqs, Answer(r), expected' = expected,
         db' \in [Users -> Profile], disturbed \subseteq disturbed',
         \A u \in Users \ disturbed' : db'[u] = db[u]
  PROVE  UpdatesInv'
<1>1. req' = [req EXCEPT ![r] = Idle]
  BY DEF Answer
<1>2. \A u \in Users \ disturbed' : db'[u] = expected'[u]
  BY DEF UpdatesInv
<1>3. expected' \in [Users -> Profile]
  BY DEF UpdatesInv
<1> QED BY <1>1, <1>2, <1>3, IdleIsFree, RequestMoves

-----------------------------------------------------------------------------
(* Operations *)

\* Requests that do not update go on.
LEMMA ReadsKeep ==
  ASSUME UpdatesInv, NEW r \in Reqs, NEW u, NEW p, NEW limit,
         GetMe(r, u) \/ SelectUser(r) \/ GetUsersByRank(r, p, limit)
  PROVE  UpdatesInv'
<1>1. IsRequest(req[r]) /\ UNCHANGED <<db, expected, disturbed>>
  BY DEF UpdatesInv, GetMe, SelectUser, GetUsersByRank, history
<1>2. CASE req' = req
  BY <1>1, <1>2 DEF UpdatesInv, UpdateAlone
<1>3. CASE req' = [req EXCEPT ![r].pc = "select", ![r].user = u]
  <2> DEFINE q == [req[r] EXCEPT !.pc = "select", !.user = u]
  <2>1. IsRequest(q) /\ q.pc = "select" /\ req' = [req EXCEPT ![r] = q]
    BY <1>1, <1>3 DEF IsRequest, Idle
  <2> HIDE DEF q
  <2> QED BY <1>1, <2>1, RequestGoesOn DEF Updating
<1>4. CASE SelectUser(r)
  <2> DEFINE q == [req[r] EXCEPT !.pc = "fill", !.entity = db[req[r].user]]
  <2>1. IsRequest(q) /\ q.pc = "fill" /\ req' = [req EXCEPT ![r] = q]
    BY <1>1, <1>4 DEF IsRequest, Idle, SelectUser
  <2> HIDE DEF q
  <2> QED BY <1>1, <2>1, RequestGoesOn DEF Updating
<1>5. CASE GetUsersByRank(r, p, limit)
  <2> DEFINE ids == ToSet(Page(p, limit))
             q == [req[r] EXCEPT !.pc = "list", !.ids = ids]
  <2>1. req' = [req EXCEPT ![r].pc = "list", ![r].ids = ids]
    BY <1>5 DEF GetUsersByRank
  <2> HIDE DEF ids
  <2>2. IsRequest(q) /\ q.pc = "list" /\ req' = [req EXCEPT ![r] = q]
    BY <1>1, <2>1 DEF IsRequest, Idle
  <2> HIDE DEF q
  <2> QED BY <1>1, <2>2, RequestGoesOn DEF Updating
<1> QED BY <1>2, <1>3, <1>4, <1>5 DEF GetMe

\* An update starts; one that meets another of its user disturbs it.
LEMMA UpdateKeeps ==
  ASSUME UpdatesInv, NEW r \in Reqs, NEW u \in Users, NEW column, NEW new,
         \/ column = "nickname" /\ new \in Nicknames
         \/ column = "score" /\ new \in Scores,
         Update(r, u, column, new)
  PROVE  UpdatesInv'
<1> DEFINE q == [req[r] EXCEPT !.pc = "find", !.user = u, !.column = column, !.asked = new]
<1>1. IsRequest(req[r]) /\ req[r] = Idle
  BY DEF UpdatesInv, Update
<1>2. /\ IsRequest(q) /\ q.pc = "find" /\ q.user = u /\ q.column = column /\ q.asked = new
      /\ req' = [req EXCEPT ![r] = q]
  BY <1>1 DEF IsRequest, Idle, Update
<1> HIDE DEF q
<1>3. InFlight(q, db', disturbed')
  BY <1>2 DEF InFlight
<1>4. \A s \in Reqs \ {r} : Updating(req[s], u) => u \in disturbed'
  BY DEF Update, Quiet
<1>5. disturbed \subseteq disturbed' /\ db' = db /\ expected' = expected
  BY DEF Update
<1> QED BY <1>2, <1>3, <1>4, <1>5, RequestMoves DEF UpdatesInv

\* An update goes on with the entity.
LEMMA FindKeeps ==
  ASSUME UpdatesInv, NEW r \in Reqs, FindUser(r)
  PROVE  UpdatesInv'
<1> DEFINE row == db[req[r].user]
           entity == [row EXCEPT ![req[r].column] = req[r].asked]
           q == [req[r] EXCEPT !.pc = "found", !.entity = entity]
<1>1. /\ IsRequest(req[r]) /\ req[r].pc = "find" /\ UNCHANGED <<db, expected, disturbed>>
      /\ req' = [req EXCEPT ![r].pc = "found", ![r].entity = entity]
  BY DEF UpdatesInv, FindUser, history
<1>2. InFlight(req[r], db, disturbed) /\ Updating(req[r], req[r].user)
  BY <1>1 DEF UpdatesInv, Updating
<1>3. row \in Profile
  BY <1>2 DEF UpdatesInv, InFlight
<1>4. entity = Wanted(req[r], row) /\ entity \in Profile
  <2>1. CASE req[r].column = "nickname" /\ req[r].asked \in Nicknames
    BY <1>3, <2>1 DEF Wanted, Profile
  <2>2. CASE req[r].column = "score" /\ req[r].asked \in Scores
    BY <1>3, <2>2 DEF Wanted, Profile
  <2> QED BY <1>2, <2>1, <2>2 DEF InFlight
<1> HIDE DEF entity
<1>5. /\ IsRequest(q) /\ q.pc = "found" /\ q.entity = entity /\ q.user = req[r].user
      /\ q.column = req[r].column /\ q.asked = req[r].asked
      /\ req' = [req EXCEPT ![r] = q]
  BY <1>1 DEF IsRequest, Idle
<1> HIDE DEF q
<1>6. InFlight(q, db, disturbed)
  BY <1>2, <1>4, <1>5 DEF InFlight, Wanted
<1> QED BY <1>1, <1>2, <1>5, <1>6, RequestGoesOn DEF Updating

LEMMA SaveKeeps ==
  ASSUME UpdatesInv, NEW r \in Reqs, Save(r)
  PROVE  UpdatesInv'
<1> DEFINE q == [req[r] EXCEPT !.pc = "save"]
<1>1. /\ IsRequest(req[r]) /\ req[r].pc = "found" /\ UNCHANGED <<db, expected, disturbed>>
      /\ req' = [req EXCEPT ![r].pc = "save"]
  BY DEF UpdatesInv, Save, history
<1>2. InFlight(req[r], db, disturbed) /\ Updating(req[r], req[r].user)
  BY <1>1 DEF UpdatesInv, Updating
<1>3. /\ IsRequest(q) /\ q.pc = "save" /\ q.entity = req[r].entity /\ q.user = req[r].user
      /\ q.column = req[r].column /\ q.asked = req[r].asked
      /\ req' = [req EXCEPT ![r] = q]
  BY <1>1 DEF IsRequest, Idle
<1> HIDE DEF q
<1>4. InFlight(q, db, disturbed)
  BY <1>1, <1>2, <1>3 DEF InFlight, Wanted
<1> QED BY <1>1, <1>2, <1>3, <1>4, RequestGoesOn DEF Updating

LEMMA SaveLoadKeeps ==
  ASSUME UpdatesInv, NEW r \in Reqs, SaveLoad(r)
  PROVE  UpdatesInv'
<1> DEFINE columns == {c \in Columns : req[r].entity[c] # db[req[r].user][c]}
           q == [req[r] EXCEPT !.pc = "write", !.changed = columns]
<1>1. /\ IsRequest(req[r]) /\ req[r].pc = "save" /\ UNCHANGED <<db, expected, disturbed>>
      /\ req' = [req EXCEPT ![r].pc = "write", ![r].changed = columns]
  BY DEF UpdatesInv, SaveLoad, history
<1>2. InFlight(req[r], db, disturbed) /\ Updating(req[r], req[r].user)
  BY <1>1 DEF UpdatesInv, Updating
<1>3. columns = {c \in Columns : req[r].entity[c] # db[req[r].user][c]}
  OBVIOUS
<1> HIDE DEF columns
<1>4. /\ IsRequest(q) /\ q.pc = "write" /\ q.entity = req[r].entity /\ q.user = req[r].user
      /\ q.column = req[r].column /\ q.asked = req[r].asked /\ q.changed = columns
      /\ req' = [req EXCEPT ![r] = q]
  BY <1>1 DEF IsRequest, Idle
<1> HIDE DEF q
<1>5. InFlight(q, db, disturbed)
  BY <1>1, <1>2, <1>3, <1>4 DEF InFlight, Wanted
<1> QED BY <1>1, <1>2, <1>4, <1>5, RequestGoesOn DEF Updating

\* What the UPDATE of a request leaves in the table.
LEMMA WrittenRow ==
  ASSUME UpdatesInv, NEW r \in Reqs, req[r].pc = "write"
  PROVE  /\ req[r].user \in Users /\ Written(r) \in [Users -> Profile]
         /\ \A u \in Users \ {req[r].user} : Written(r)[u] = db[u]
         /\ req[r].user \notin disturbed =>
                Written(r)[req[r].user] = Wanted(req[r], db[req[r].user])
<1> DEFINE u == req[r].user
           row == db[u]
           after == [d \in Columns |-> IF d \in req[r].changed THEN req[r].entity[d] ELSE row[d]]
<1>1. InFlight(req[r], db, disturbed)
  BY DEF UpdatesInv, Updating
<1>2. /\ u \in Users /\ row \in Profile /\ req[r].entity \in Profile
      /\ db \in [Users -> Profile]
      /\ u \notin disturbed => /\ req[r].entity = Wanted(req[r], row)
                               /\ req[r].changed = {c \in Columns : req[r].entity[c] # row[c]}
  BY <1>1 DEF UpdatesInv, InFlight
<1>3. Written(r) = [db EXCEPT ![u] = after]
  BY <1>2 DEF Written
<1>4. after = [nickname |-> IF "nickname" \in req[r].changed THEN req[r].entity.nickname
                                                            ELSE row.nickname,
               score |-> IF "score" \in req[r].changed THEN req[r].entity.score ELSE row.score]
  BY DEF Columns
<1>5. after \in Profile
  BY <1>2, <1>4 DEF Profile
<1>6. u \notin disturbed => after = Wanted(req[r], row)
  <2> SUFFICES ASSUME u \notin disturbed PROVE after = req[r].entity
    BY <1>2
  <2>1. /\ "nickname" \in req[r].changed <=> req[r].entity.nickname # row.nickname
        /\ "score" \in req[r].changed <=> req[r].entity.score # row.score
    BY <1>2 DEF Columns
  <2>2. req[r].entity = [nickname |-> req[r].entity.nickname, score |-> req[r].entity.score]
    BY <1>2 DEF Profile
  <2> QED BY <1>4, <2>1, <2>2
<1> HIDE DEF after
<1> QED BY <1>2, <1>3, <1>5, <1>6

\* The row and what the answered updates should have left change alike.
LEMMA SaveWriteKeeps ==
  ASSUME UpdatesInv, NEW r \in Reqs, SaveWrite(r)
  PROVE  UpdatesInv'
<1> DEFINE u == req[r].user
           wanted == [expected[u] EXCEPT ![req[r].column] = req[r].asked]
<1>1. /\ req[r].pc = "write" /\ db' = Written(r) /\ disturbed' = disturbed
      /\ expected' = [expected EXCEPT ![u][req[r].column] = req[r].asked]
      /\ req' = [req EXCEPT ![r] = Idle]
  BY DEF SaveWrite, Answer
<1>2. InFlight(req[r], db, disturbed) /\ Updating(req[r], u) /\ u \in Users
  BY <1>1 DEF UpdatesInv, Updating, InFlight
<1>3. expected[u] \in Profile /\ (u \notin disturbed => expected[u] = db[u])
  BY <1>2 DEF UpdatesInv
<1>4. wanted = Wanted(req[r], expected[u]) /\ wanted \in Profile
  <2>1. CASE req[r].column = "nickname" /\ req[r].asked \in Nicknames
    BY <1>3, <2>1 DEF Wanted, Profile
  <2>2. CASE req[r].column = "score" /\ req[r].asked \in Scores
    BY <1>3, <2>2 DEF Wanted, Profile
  <2> QED BY <1>2, <2>1, <2>2 DEF InFlight
<1>5. expected' = [expected EXCEPT ![u] = wanted]
  BY <1>1, <1>2 DEF UpdatesInv
<1> HIDE DEF wanted
<1>6. db' \in [Users -> Profile] /\ expected' \in [Users -> Profile]
  BY <1>1, <1>4, <1>5, WrittenRow DEF UpdatesInv
<1>7. \A v \in Users \ disturbed' : db'[v] = expected'[v]
  <2> SUFFICES ASSUME NEW v \in Users, v \notin disturbed PROVE db'[v] = expected'[v]
    BY <1>1
  <2>1. CASE v = u
    BY <2>1, <1>1, <1>2, <1>3, <1>4, <1>5, WrittenRow DEF UpdatesInv
  <2>2. CASE v # u
    BY <2>2, <1>1, <1>5, WrittenRow DEF UpdatesInv
  <2> QED BY <2>1, <2>2
<1>8. \A v \in Users \ disturbed' :
          db'[v] = db[v] \/ \A s \in Reqs \ {r} : ~Updating(req[s], v)
  BY <1>1, <1>2, WrittenRow DEF UpdatesInv, UpdateAlone
<1> QED BY <1>1, <1>6, <1>7, <1>8, IdleIsFree, RequestMoves

LEMMA FailKeeps ==
  ASSUME UpdatesInv, NEW r \in Reqs, Fail(r)
  PROVE  UpdatesInv'
<1>1. Answer(r) /\ expected' = expected /\ disturbed \subseteq disturbed'
  BY DEF Fail
<1>2. CASE db' = db
  BY <1>1, <1>2, RequestEnds DEF UpdatesInv
<1>3. CASE req[r].pc = "write" /\ db' = Written(r)
  <2>1. req[r].user \in disturbed'
    BY <1>3, WrittenRow DEF Fail, Updating
  <2> QED BY <1>1, <1>3, <2>1, WrittenRow, RequestEnds
<1> QED BY <1>2, <1>3 DEF Fail

-----------------------------------------------------------------------------
(* Theorem *)

LEMMA NextKeeps == UpdatesInv /\ [Next]_vars => UpdatesInv'
<1> SUFFICES ASSUME UpdatesInv, [Next]_vars PROVE UpdatesInv'
  OBVIOUS
<1>1. ASSUME NEW r \in Reqs, Fill(r) \/ FindByIds(r) PROVE UpdatesInv'
  <2>1. Answer(r) /\ UNCHANGED <<db, expected, disturbed>>
    BY <1>1 DEF Fill, FindByIds, history
  <2> QED BY <2>1, RequestEnds DEF UpdatesInv
<1>2. ASSUME NEW r \in Reqs, Continue(r) PROVE UpdatesInv'
  <2> QED BY <1>1, <1>2, ReadsKeep, FindKeeps, SaveKeeps, SaveLoadKeeps, SaveWriteKeeps DEF Continue
<1>3. ASSUME Restart PROVE UpdatesInv'
  <2>1. /\ req' = [r \in Reqs |-> Idle] /\ UNCHANGED <<db, expected, disturbed>>
    BY <1>3 DEF Restart, history
  <2> QED BY <2>1, IdleIsFree DEF UpdatesInv, UpdateAlone
<1>4. CASE UNCHANGED <<db, expected, disturbed, req>>
  BY <1>4 DEF UpdatesInv, UpdateAlone
<1>5. ASSUME NEW r \in Reqs, NEW u \in Users,
             \/ \E n \in Nicknames : UpdateUser(r, u, n)
             \/ \E s \in Scores : UpdateScore(r, u, s)
      PROVE  UpdatesInv'
  BY <1>5, UpdateKeeps DEF UpdateUser, UpdateScore
<1>6. ASSUME NEW r \in Reqs, NEW u \in Users, GetMe(r, u) PROVE UpdatesInv'
  BY <1>6, ReadsKeep
<1>7. ASSUME NEW r \in Reqs, NEW p, NEW limit, GetUsersByRank(r, p, limit) PROVE UpdatesInv'
  BY <1>7, ReadsKeep
<1> QED BY <1>2, <1>3, <1>4, <1>5, <1>6, <1>7, FailKeeps DEF Next, Tick, vars, history

\* Whatever clients ask for at the same time, fails or is cut off: updates of a
\* user that did not overlap and did not fail are in the table.
THEOREM UpdatesKept == Spec => []UpdatesAreKept
<1>1. Init => UpdatesInv
  BY ScoreAssumption, IdleIsFree DEF Init, UpdatesInv, UpdateAlone, Profile
<1>2. UpdatesInv => UpdatesAreKept
  BY DEF UpdatesInv, UpdatesAreKept
<1> QED BY <1>1, <1>2, NextKeeps, PTL DEF Spec

-----------------------------------------------------------------------------
(* The order of the ranking *)

\* Positions are ordered by the scores of their entries.
LEMMA BestFirstIsOrder ==
  ASSUME NEW entries \in Seq(Ranked), NEW kept \in SUBSET DOMAIN entries
  PROVE  /\ IsFiniteSet(kept) /\ IsOrder(kept, BestFirst(entries))
         /\ \A i, j \in kept : <<i, j>> \in BestFirst(entries) =>
               i # j /\ entries[i].score >= entries[j].score
<1> DEFINE score(i) == entries[i].score
<1>1. DOMAIN entries = 1 .. Len(entries) /\ Len(entries) \in Nat
  OBVIOUS
<1>2. ASSUME NEW i \in kept PROVE i \in Nat /\ score(i) \in Nat
  <2>1. i \in 1 .. Len(entries)
    BY <1>1
  <2>2. entries[i] \in Ranked
    BY <1>1, <2>1
  <2>3. entries[i].score \in Scores
    BY <2>2 DEF Ranked
  <2>4. i \in Nat
    BY <1>1, <2>1
  <2> QED BY <2>3, <2>4, ScoreAssumption
<1>3. \A i, j \in kept : <<i, j>> \in BestFirst(entries) <=>
         score(i) > score(j) \/ (score(i) = score(j) /\ i < j)
  BY DEF BestFirst
<1> HIDE DEF score
<1>4. IsOrder(kept, BestFirst(entries))
  BY <1>2, <1>3 DEF IsOrder
<1>5. IsFiniteSet(kept)
  <2>1. IsFiniteSet(1 .. Len(entries))
    BY <1>1, FS_Interval
  <2> QED BY <1>1, <2>1, FS_Subset
<1>6. ASSUME NEW i \in kept, NEW j \in kept, <<i, j>> \in BestFirst(entries)
      PROVE  i # j /\ score(i) >= score(j)
  BY <1>2, <1>3, <1>6
<1> QED BY <1>4, <1>5, <1>6 DEF score

\* Sorting rearranges the entries that are kept.
LEMMA SortedEntries ==
  ASSUME NEW entries \in Seq(Ranked), NEW kept \in SUBSET DOMAIN entries
  PROVE  /\ Sorted(entries, kept) \in Seq(Ranked)
         /\ \A k \in DOMAIN Sorted(entries, kept) :
               \E i \in kept : Sorted(entries, kept)[k] = entries[i]
         /\ \A j, k \in DOMAIN Sorted(entries, kept) : j < k =>
               \E i, l \in kept : /\ i # l /\ entries[i].score >= entries[l].score
                                  /\ Sorted(entries, kept)[j] = entries[i]
                                  /\ Sorted(entries, kept)[k] = entries[l]
<1> DEFINE order == InOrder(kept, BestFirst(entries))
           sorted == Sorted(entries, kept)
           n == Cardinality(kept)
<1>1. IsFiniteSet(kept) /\ IsOrder(kept, BestFirst(entries))
  BY BestFirstIsOrder
<1>2. n \in Nat
  BY <1>1, FS_CardinalityType
<1>3. /\ order \in [1 .. n -> kept]
      /\ \A j, k \in 1 .. n : j < k => <<order[j], order[k]>> \in BestFirst(entries)
  BY <1>1, InOrderLists
<1>4. sorted = [k \in 1 .. n |-> entries[order[k]]]
  BY <1>3 DEF Sorted
<1> HIDE DEF order, sorted, n
<1>5. \A i \in kept : entries[i] \in Ranked
  OBVIOUS
<1>6. sorted \in [1 .. n -> Ranked]
  BY <1>3, <1>4, <1>5
<1>7. sorted \in Seq(Ranked) /\ DOMAIN sorted = 1 .. n
  BY <1>2, <1>6
<1>8. ASSUME NEW j \in 1 .. n, NEW k \in 1 .. n, j < k
      PROVE  \E i, l \in kept : /\ i # l /\ entries[i].score >= entries[l].score
                                /\ sorted[j] = entries[i] /\ sorted[k] = entries[l]
  <2>1. order[j] \in kept /\ order[k] \in kept /\ <<order[j], order[k]>> \in BestFirst(entries)
    BY <1>3, <1>8
  <2> QED BY <1>4, <2>1, BestFirstIsOrder
<1>9. \A k \in 1 .. n : \E i \in kept : sorted[k] = entries[i]
  BY <1>3, <1>4
<1> QED BY <1>7, <1>8, <1>9 DEF sorted

\* zadd leaves a sorted set: the new entry of the user, and the entries of the
\* others as they were.
LEMMA ZaddSorts ==
  ASSUME RankingInv, NEW u \in Users, NEW s \in Scores, ranking' = Zadd(u, s)
  PROVE  /\ RankingInv'
         /\ \A k \in DOMAIN ranking' :
               \/ ranking'[k] = [user |-> u, score |-> s]
               \/ \E i \in DOMAIN ranking : ranking[i].user # u /\ ranking'[k] = ranking[i]
<1> DEFINE new == [user |-> u, score |-> s]
           n == Len(ranking)
           entries == Pushed(u, s)
           kept == {i \in DOMAIN entries : i = Len(entries) \/ entries[i].user # u}
<1>1. ranking \in Seq(Ranked) /\ n \in Nat /\ DOMAIN ranking = 1 .. n /\ new \in Ranked
  BY DEF RankingInv, Ranked
<1>2. /\ entries \in Seq(Ranked) /\ Len(entries) = n + 1 /\ DOMAIN entries = 1 .. n + 1
      /\ entries[n + 1] = new /\ \A i \in 1 .. n : entries[i] = ranking[i]
  BY <1>1 DEF Pushed
<1> HIDE DEF entries, new
<1>3. new.user = u
  BY DEF new
<1>4. /\ kept \in SUBSET DOMAIN entries
      /\ \A i \in kept : i = n + 1 \/ (i \in 1 .. n /\ ranking[i].user # u)
  BY <1>1, <1>2
<1>5. \A i, l \in kept : i # l => entries[i].user # entries[l].user
  <2> SUFFICES ASSUME NEW i \in kept, NEW l \in kept, i # l
               PROVE  entries[i].user # entries[l].user
    OBVIOUS
  <2>1. CASE i = n + 1 \/ l = n + 1
    BY <1>1, <1>2, <1>3, <1>4, <2>1
  <2>2. CASE i \in 1 .. n /\ l \in 1 .. n
    <3>1. i \in DOMAIN ranking /\ l \in DOMAIN ranking /\ (i < l \/ l < i)
      BY <1>1, <2>2
    <3>2. ranking[i].user # ranking[l].user
      BY <3>1 DEF RankingInv, RankingIsSorted
    <3> QED BY <1>2, <2>2, <3>2
  <2> QED BY <1>4, <2>1, <2>2
<1>6. ranking' = Sorted(entries, kept)
  BY DEF Zadd, entries
<1> HIDE DEF kept
<1>7. ranking' \in Seq(Ranked)
  BY <1>2, <1>4, <1>6, SortedEntries
<1>8. RankingIsSorted'
  <2> SUFFICES ASSUME NEW j \in DOMAIN ranking', NEW k \in DOMAIN ranking', j < k
               PROVE  /\ ranking'[j].user # ranking'[k].user
                      /\ ranking'[j].score >= ranking'[k].score
    BY DEF RankingIsSorted
  <2>1. \E i, l \in kept : /\ i # l /\ entries[i].score >= entries[l].score
                           /\ ranking'[j] = entries[i] /\ ranking'[k] = entries[l]
    BY <1>2, <1>4, <1>6, SortedEntries
  <2> QED BY <1>5, <2>1
<1>9. ASSUME NEW k \in DOMAIN ranking'
      PROVE  \/ ranking'[k] = new
             \/ \E i \in DOMAIN ranking : ranking[i].user # u /\ ranking'[k] = ranking[i]
  <2>1. \E i \in kept : ranking'[k] = entries[i]
    BY <1>2, <1>4, <1>6, SortedEntries
  <2> QED BY <1>1, <1>2, <1>4, <2>1
<1> QED BY <1>7, <1>8, <1>9 DEF RankingInv, new

\* Steps that leave the ranking alone keep it sorted.
LEMMA NextSorts == UpdatesInv /\ RankingInv /\ [Next]_vars => RankingInv'
<1> SUFFICES ASSUME UpdatesInv, RankingInv, [Next]_vars PROVE RankingInv'
  OBVIOUS
<1>1. CASE ranking' = ranking
  BY <1>1 DEF RankingInv, RankingIsSorted
<1>2. ASSUME NEW r \in Reqs, Save(r) PROVE RankingInv'
  <2>1. CASE req[r].column = "score"
    <3>1. req[r].user \in Users /\ req[r].entity.score \in Scores
      <4>1. InFlight(req[r], db, disturbed) /\ req[r].pc = "found"
        BY <1>2 DEF UpdatesInv, Save, Updating
      <4> QED BY <4>1 DEF InFlight, Profile
    <3>2. ranking' = Zadd(req[r].user, req[r].entity.score)
      BY <1>2, <2>1 DEF Save
    <3> QED BY <3>1, <3>2, ZaddSorts
  <2>2. CASE req[r].column # "score"
    BY <1>1, <1>2, <2>2 DEF Save
  <2> QED BY <2>1, <2>2
<1>3. CASE Restart
  <2>1. ranking' = <<>>
    BY <1>3 DEF Restart
  <2> QED BY <2>1 DEF RankingInv, RankingIsSorted
<1>4. ASSUME NEW r \in Reqs, Continue(r) PROVE RankingInv'
  BY <1>1, <1>2, <1>4
     DEF Continue, SelectUser, Fill, FindUser, SaveLoad, SaveWrite, FindByIds
<1>5. ASSUME NEW r \in Reqs, NEW u \in Users,
             \/ GetMe(r, u)
             \/ \E n \in Nicknames : UpdateUser(r, u, n)
             \/ \E s \in Scores : UpdateScore(r, u, s)
      PROVE  ranking' = ranking
  BY <1>5 DEF GetMe, UpdateUser, UpdateScore, Update
<1>6. ASSUME NEW r \in Reqs, NEW p, NEW limit, GetUsersByRank(r, p, limit)
      PROVE  ranking' = ranking
  BY <1>6 DEF GetUsersByRank
<1>7. ASSUME NEW r \in Reqs, Fail(r) PROVE ranking' = ranking
  BY <1>7 DEF Fail
<1>8. CASE Tick \/ UNCHANGED vars
  BY <1>1, <1>8 DEF Tick, vars
<1> QED BY <1>1, <1>3, <1>4, <1>5, <1>6, <1>7, <1>8 DEF Next

\* The invariants that the others rest on.
LEMMA RankingKept == Spec => [](UpdatesInv /\ RankingInv)
<1>1. Init => UpdatesInv /\ RankingInv
  <2>1. Init => UpdatesInv
    BY ScoreAssumption, IdleIsFree DEF Init, UpdatesInv, UpdateAlone, Profile
  <2>2. Init => RankingInv
    BY DEF Init, RankingInv, RankingIsSorted
  <2> QED BY <2>1, <2>2
<1> QED BY <1>1, NextKeeps, NextSorts, PTL DEF Spec

\* However often scores are updated, the sorted set has one entry a user and is
\* in descending order of score: zadd drops the old entry before it sorts.
THEOREM RankingSorted == Spec => []RankingIsSorted
<1>1. RankingInv => RankingIsSorted
  BY DEF RankingInv
<1> QED BY <1>1, RankingKept, PTL

-----------------------------------------------------------------------------
(* The pages of the ranking *)

\* The rank of a user is the position of its entry.
LEMMA Ranks ==
  ASSUME RankingInv
  PROVE  /\ DOMAIN ranking = 1 .. Len(ranking) /\ Len(ranking) \in Nat
         /\ \A i \in DOMAIN ranking : RankOf(ranking[i].user) = i
<1>1. ranking \in Seq(Ranked)
  BY DEF RankingInv
<1>2. DOMAIN ranking = 1 .. Len(ranking) /\ Len(ranking) \in Nat
  BY <1>1
<1>3. ASSUME NEW i \in DOMAIN ranking PROVE RankOf(ranking[i].user) = i
  <2>1. \A j \in DOMAIN ranking : ranking[j].user = ranking[i].user => j = i
    <3>1. \A j \in DOMAIN ranking : j < i \/ i < j \/ i = j
      BY <1>2
    <3> QED BY <3>1 DEF RankingInv, RankingIsSorted
  <2>2. ranking[i].user \in RankedUsers
    BY DEF RankedUsers
  <2> QED BY <2>1, <2>2 DEF RankOf
<1> QED BY <1>2, <1>3

\* A page of the ranking shows the users at its positions.
LEMMA PageShows ==
  ASSUME RankingInv, NEW p \in Nat \ {0}, NEW limit \in Nat \ {0}
  PROVE  /\ Skip(p, limit) \in Nat
         /\ \A k : k \in DOMAIN Page(p, limit) <=>
               k \in 1 .. limit /\ Skip(p, limit) + k \in DOMAIN ranking
         /\ \A k \in DOMAIN Page(p, limit) :
               Page(p, limit)[k] = ranking[Skip(p, limit) + k].user
         /\ Page(p, limit) \in Seq({ranking[i].user : i \in DOMAIN ranking})
<1> DEFINE start == Skip(p, limit)
           n == Len(ranking)
           last == IF start + limit < n THEN start + limit ELSE n
           size == IF last > start THEN last - start ELSE 0
<1>1. start \in Nat
  BY SkipType
<1>2. n \in Nat /\ DOMAIN ranking = 1 .. n
  BY Ranks
<1>3. start = (p - 1) * limit
  BY DEF Skip
<1> HIDE DEF start, n
<1>4. last \in Nat /\ size \in Nat
  BY <1>1, <1>2
<1>5. start + limit - 1 + 1 = start + limit
  BY <1>1
<1>6. Page(p, limit) = [k \in 1 .. size |-> ranking[start + k].user]
  BY <1>3, <1>5 DEF Page, n
<1>7. \A k : k \in 1 .. size <=> k \in 1 .. limit /\ start + k \in 1 .. n
  BY <1>1, <1>2
<1> HIDE DEF size
<1>8. Page(p, limit) \in Seq({ranking[i].user : i \in DOMAIN ranking})
  BY <1>2, <1>4, <1>6, <1>7
<1> QED BY <1>1, <1>2, <1>6, <1>7, <1>8 DEF start

\* The two routes count alike, whatever the ranking: the rank of a user is the
\* number of the page of length 1 that shows it.
THEOREM RanksArePages == Spec => []RanksArePositions
<1>1. ASSUME RankingInv PROVE RanksArePositions
  <2> SUFFICES ASSUME NEW i \in DOMAIN ranking
               PROVE  /\ RankOf(ranking[i].user) # 0
                      /\ Page(RankOf(ranking[i].user), 1) = <<ranking[i].user>>
    BY DEF RanksArePositions, RankedUsers
  <2>1. RankOf(ranking[i].user) = i /\ i \in Nat \ {0}
    BY <1>1, Ranks
  <2> DEFINE single == Page(i, 1)
             start == Skip(i, 1)
  <2>3. /\ \A k : k \in DOMAIN single <=> k \in 1 .. 1 /\ start + k \in DOMAIN ranking
        /\ \A k \in DOMAIN single : single[k] = ranking[start + k].user
        /\ single \in Seq({ranking[j].user : j \in DOMAIN ranking})
    <3>1. i \in Nat \ {0} /\ 1 \in Nat \ {0}
      BY <2>1
    <3> HIDE DEF single, start
    <3> QED BY <1>1, <3>1, PageShows DEF single, start
  <2>2. start = i - 1
    BY <2>1 DEF Skip
  <2> HIDE DEF single, start
  <2>4. 1 \in DOMAIN single /\ \A k \in DOMAIN single : k = 1
    BY <2>1, <2>2, <2>3
  <2>5. single[1] = ranking[i].user
    BY <2>1, <2>2, <2>3, <2>4
  <2>6. Len(single) = 1
    <3>1. DOMAIN single = 1 .. Len(single) /\ Len(single) \in Nat
      BY <2>3
    <3>2. Len(single) >= 1
      BY <2>4, <3>1
    <3>3. Len(single) \in DOMAIN single
      BY <3>1, <3>2
    <3> QED BY <2>4, <3>3
  <2>7. single = <<ranking[i].user>>
    BY <2>3, <2>5, <2>6
  <2> QED BY <2>1, <2>7 DEF single
<1> QED BY <1>1, RankingKept, PTL

\* Whatever the ranking and the length of a page: the pages show every ranked
\* user, in order of rank and none twice.
THEOREM PagesAreRanking == Spec => []PagesMakeUpRanking
<1>1. ASSUME RankingInv PROVE PagesMakeUpRanking
  <2> SUFFICES ASSUME NEW limit \in PageLimits
               PROVE  /\ \A u \in RankedUsers : \E p \in DOMAIN ranking : u \in ToSet(Page(p, limit))
                      /\ \A p, q \in DOMAIN ranking :
                            \A k \in DOMAIN Page(p, limit), m \in DOMAIN Page(q, limit) :
                               p < q \/ (p = q /\ k < m) =>
                                  RankOf(Page(p, limit)[k]) < RankOf(Page(q, limit)[m])
    BY DEF PagesMakeUpRanking
  <2>1. limit \in Nat \ {0}
    BY PageAssumption
  <2>2. DOMAIN ranking = 1 .. Len(ranking) /\ Len(ranking) \in Nat
    BY <1>1, Ranks
  <2>3. ASSUME NEW i \in DOMAIN ranking
        PROVE  \E p \in DOMAIN ranking : ranking[i].user \in ToSet(Page(p, limit))
    <3> DEFINE p == (i - 1) \div limit + 1
               start == Skip(p, limit)
    <3>1. /\ p - 1 \in Nat /\ (p - 1) * limit <= i - 1
          /\ i - 1 < (p - 1) * limit + limit
      <4>1. i - 1 \in Nat
        BY <2>2
      <4> QED BY <2>1, <4>1, Quotient
    <3>2. start = (p - 1) * limit
      BY DEF Skip
    <3>0. p \in Int
      BY <2>2, <2>1
    <3> HIDE DEF p
    <3>3. p - 1 <= (p - 1) * limit /\ (p - 1) * limit \in Nat
      BY <2>1, <3>1
    <3>4. p \in Nat \ {0}
      BY <3>0, <3>1
    <3>5. p \in DOMAIN ranking
      BY <2>2, <3>1, <3>3, <3>4
    <3> HIDE DEF start
    <3>6. i - start \in 1 .. limit /\ start + (i - start) = i
      <4>1. start \in Nat /\ start <= i - 1 /\ i - 1 < start + limit
        BY <3>1, <3>2, <3>3
      <4> QED BY <2>1, <2>2, <4>1
    <3> DEFINE k == i - start
    <3> HIDE DEF k
    <3>7. k \in 1 .. limit /\ Skip(p, limit) + k = i
      BY <3>6 DEF start, k
    <3>8. k \in DOMAIN Page(p, limit) /\ Page(p, limit)[k] = ranking[i].user
      BY <1>1, <2>1, <3>4, <3>7, PageShows
    <3> QED BY <3>5, <3>8 DEF ToSet
  <2>4. ASSUME NEW p \in DOMAIN ranking, NEW q \in DOMAIN ranking,
               NEW k \in DOMAIN Page(p, limit), NEW m \in DOMAIN Page(q, limit),
               p < q \/ (p = q /\ k < m)
        PROVE  RankOf(Page(p, limit)[k]) < RankOf(Page(q, limit)[m])
    <3>1. p \in Nat \ {0} /\ q \in Nat \ {0}
      BY <2>2
    <3>2. /\ k \in 1 .. limit /\ Skip(p, limit) + k \in DOMAIN ranking
          /\ Page(p, limit)[k] = ranking[Skip(p, limit) + k].user
          /\ m \in 1 .. limit /\ Skip(q, limit) + m \in DOMAIN ranking
          /\ Page(q, limit)[m] = ranking[Skip(q, limit) + m].user
          /\ Skip(p, limit) \in Nat /\ Skip(q, limit) \in Nat
      BY <1>1, <2>1, <3>1, PageShows
    <3>3. /\ RankOf(Page(p, limit)[k]) = Skip(p, limit) + k
          /\ RankOf(Page(q, limit)[m]) = Skip(q, limit) + m
      BY <1>1, <3>2, Ranks
    <3>4. Skip(p, limit) + k < Skip(q, limit) + m
      <4>1. CASE p = q /\ k < m
        BY <2>1, <3>2, <4>1
      <4>2. CASE p < q
        <5>1. Skip(p + 1, limit) = Skip(p, limit) + limit
          BY <2>1, <3>1, PagesAdjoin
        <5>2. p * limit <= (q - 1) * limit
          <6>1. p \in Nat /\ q - 1 \in Nat /\ p <= q - 1
            BY <3>1, <4>2
          <6> QED BY <2>1, <6>1
        <5>3. Skip(p + 1, limit) = p * limit /\ Skip(q, limit) = (q - 1) * limit
          BY <3>1 DEF Skip
        <5> QED BY <2>1, <3>2, <5>1, <5>2, <5>3
      <4> QED BY <2>4, <4>1, <4>2
    <3> QED BY <3>3, <3>4
  <2>5. \A u \in RankedUsers : \E p \in DOMAIN ranking : u \in ToSet(Page(p, limit))
    BY <2>3 DEF RankedUsers
  <2> QED BY <2>4, <2>5
<1> QED BY <1>1, RankingKept, PTL

-----------------------------------------------------------------------------
(* The scores of the ranking *)

\* A step that starts or ends no update of a score leaves an entry as good as
\* it was.
LEMMA EntryGoesOn ==
  ASSUME UpdatesInv, NEW e, EntryFits(e), NEW r \in Reqs, NEW q,
         req' = [req EXCEPT ![r] = q], disturbed \subseteq disturbed',
         e.user \notin disturbed' =>
            /\ db'[e.user].score = db[e.user].score
            /\ SavesScore(q, e.user) <=> SavesScore(req[r], e.user)
            /\ SavesScore(q, e.user) => q.entity = req[r].entity
  PROVE  EntryFits(e)'
<1> SUFFICES ASSUME e.user \notin disturbed'
             PROVE  /\ (\A s \in Reqs : ~SavesScore(req'[s], e.user)) =>
                          e.score = db'[e.user].score
                    /\ \A s \in Reqs : SavesScore(req'[s], e.user) =>
                          e.score = req'[s].entity.score
  BY DEF EntryFits
<1>1. /\ (\A s \in Reqs : ~SavesScore(req[s], e.user)) => e.score = db[e.user].score
      /\ \A s \in Reqs : SavesScore(req[s], e.user) => e.score = req[s].entity.score
  BY DEF EntryFits
<1>2. req'[r] = q /\ \A s \in Reqs \ {r} : req'[s] = req[s]
  BY DEF UpdatesInv
<1>3. \A s \in Reqs : SavesScore(req'[s], e.user) <=> SavesScore(req[s], e.user)
  BY <1>2
<1> QED BY <1>1, <1>2, <1>3

\* The ranking takes over the score of an update while its row is still to be
\* written: the entry fits the update, and all others are those of other users.
LEMMA SaveFits ==
  ASSUME UpdatesInv, RankingInv, ScoresInv, NEW r \in Reqs, Save(r)
  PROVE  ScoresInv'
<1> DEFINE q == [req[r] EXCEPT !.pc = "save"]
           u == req[r].user
<1>1. /\ IsRequest(req[r]) /\ req[r].pc = "found" /\ UNCHANGED <<db, disturbed>>
      /\ req' = [req EXCEPT ![r].pc = "save"]
  BY DEF UpdatesInv, Save, history
<1>2. /\ q.pc = "save" /\ q.entity = req[r].entity /\ q.user = u
      /\ q.column = req[r].column /\ req' = [req EXCEPT ![r] = q]
  BY <1>1 DEF IsRequest, Idle
<1> HIDE DEF q
<1>3. InFlight(req[r], db, disturbed) /\ Updating(req[r], u)
  BY <1>1 DEF UpdatesInv, Updating
<1>4. ASSUME NEW e, EntryFits(e), req[r].column # "score" \/ e.user # u
      PROVE  EntryFits(e)'
  <2>1. ~SavesScore(q, e.user) /\ ~SavesScore(req[r], e.user)
    BY <1>1, <1>2, <1>4 DEF SavesScore
  <2> QED BY <1>1, <1>2, <1>4, <2>1, EntryGoesOn
<1>5. CASE req[r].column # "score"
  <2>1. ranking' = ranking
    BY <1>5 DEF Save
  <2> QED BY <1>4, <1>5, <2>1 DEF ScoresInv
<1>6. CASE req[r].column = "score"
  <2> DEFINE s == req[r].entity.score
             new == [user |-> u, score |-> s]
  <2>1. u \in Users /\ s \in Scores
    BY <1>1, <1>3 DEF InFlight, Profile
  <2>2. \A k \in DOMAIN ranking' :
           \/ ranking'[k] = new
           \/ \E i \in DOMAIN ranking : ranking[i].user # u /\ ranking'[k] = ranking[i]
    <3>1. ranking' = Zadd(u, s)
      BY <1>6 DEF Save
    <3> QED BY <2>1, <3>1, ZaddSorts
  <2>3. ASSUME NEW e, e = new PROVE EntryFits(e)'
    <3> SUFFICES ASSUME u \notin disturbed'
                 PROVE  /\ \E t \in Reqs : SavesScore(req'[t], u)
                        /\ \A t \in Reqs : SavesScore(req'[t], u) => s = req'[t].entity.score
      BY <2>3 DEF EntryFits
    <3>1. req'[r] = q /\ \A t \in Reqs \ {r} : req'[t] = req[t]
      BY <1>2 DEF UpdatesInv
    <3>2. SavesScore(req'[r], u) /\ req'[r].entity.score = s
      BY <1>2, <1>6, <3>1 DEF SavesScore
    <3>3. ASSUME NEW t \in Reqs \ {r} PROVE ~SavesScore(req'[t], u)
      BY <1>1, <1>3, <2>1, <3>1 DEF UpdatesInv, UpdateAlone, SavesScore, Updating
    <3> QED BY <3>2, <3>3
  <2> HIDE DEF new
  <2>4. ASSUME NEW k \in DOMAIN ranking', NEW e, e = ranking'[k] PROVE EntryFits(e)'
    <3>1. ASSUME NEW i \in DOMAIN ranking, ranking[i].user # u, e = ranking[i]
          PROVE  EntryFits(e)'
      <4>1. EntryFits(e) /\ e.user # u
        BY <3>1 DEF ScoresInv
      <4> QED BY <1>4, <4>1
    <3> QED BY <2>2, <2>3, <2>4, <3>1
  <2> QED BY <2>4 DEF ScoresInv
<1> QED BY <1>5, <1>6

\* The UPDATE leaves the score that the update brought, or the one there was.
LEMMA SaveWriteFits ==
  ASSUME UpdatesInv, NEW r \in Reqs, SaveWrite(r), NEW e, EntryFits(e), e.user \in Users
  PROVE  EntryFits(e)'
<1> DEFINE u == req[r].user
<1>1. /\ req[r].pc = "write" /\ db' = Written(r) /\ disturbed' = disturbed
      /\ req' = [req EXCEPT ![r] = Idle]
  BY DEF SaveWrite, Answer
<1>2. /\ InFlight(req[r], db, disturbed) /\ Updating(req[r], u) /\ u \in Users
      /\ req[r].column \in {"nickname", "score"}
  BY <1>1 DEF UpdatesInv, Updating, InFlight
<1>3. \A v : ~SavesScore(Idle, v)
  BY DEF Idle, SavesScore
<1>4. CASE e.user # u
  <2>1. db'[e.user] = db[e.user] /\ ~SavesScore(req[r], e.user)
    BY <1>1, <1>4, WrittenRow DEF SavesScore
  <2> QED BY <1>1, <1>3, <2>1, EntryGoesOn
<1>5. CASE e.user = u /\ u \notin disturbed
  <2>1. db'[u] = Wanted(req[r], db[u]) /\ req[r].entity = Wanted(req[r], db[u])
    BY <1>1, <1>2, <1>5, WrittenRow DEF InFlight
  <2>2. CASE req[r].column = "nickname"
    <3>1. db'[u].score = db[u].score /\ ~SavesScore(req[r], u)
      BY <2>1, <2>2 DEF Wanted, SavesScore
    <3> QED BY <1>1, <1>3, <1>5, <3>1, EntryGoesOn
  <2>3. CASE req[r].column = "score"
    <3>1. SavesScore(req[r], u) /\ e.score = req[r].entity.score
      BY <1>1, <1>5, <2>3 DEF SavesScore, EntryFits
    <3>2. e.score = db'[u].score
      BY <2>1, <3>1
    <3>3. req'[r] = Idle /\ \A t \in Reqs \ {r} : req'[t] = req[t]
      BY <1>1 DEF UpdatesInv
    <3>4. ASSUME NEW t \in Reqs PROVE ~SavesScore(req'[t], u)
      BY <1>2, <1>3, <1>5, <3>3 DEF UpdatesInv, UpdateAlone, SavesScore, Updating
    <3> QED BY <1>5, <3>2, <3>4 DEF EntryFits
  <2> QED BY <1>2, <2>2, <2>3
<1>6. CASE e.user = u /\ u \in disturbed
  BY <1>1, <1>6 DEF EntryFits
<1> QED BY <1>4, <1>5, <1>6

\* A failure that may have written a row leaves its user out of account.
LEMMA FailFits ==
  ASSUME UpdatesInv, NEW r \in Reqs, Fail(r), NEW e, EntryFits(e), e.user \in Users
  PROVE  EntryFits(e)'
<1>1. /\ req' = [req EXCEPT ![r] = Idle] /\ disturbed \subseteq disturbed'
      /\ Updating(req[r], e.user) => e.user \in disturbed'
  BY DEF Fail, Answer, Updating
<1>2. \A v : ~SavesScore(Idle, v)
  BY DEF Idle, SavesScore
<1>3. ASSUME e.user \notin disturbed'
      PROVE  db'[e.user] = db[e.user] /\ ~SavesScore(req[r], e.user)
  <2>1. ~Updating(req[r], e.user)
    BY <1>1, <1>3
  <2>2. CASE db' = db
    BY <2>1, <2>2 DEF SavesScore, Updating
  <2>3. CASE req[r].pc = "write" /\ db' = Written(r)
    BY <2>1, <2>3, WrittenRow DEF SavesScore, Updating
  <2> QED BY <2>2, <2>3 DEF Fail
<1> QED BY <1>1, <1>2, <1>3, EntryGoesOn

\* The requests that change neither a row nor an entry.
LEMMA OthersFit ==
  ASSUME UpdatesInv, NEW r \in Reqs, NEW e, EntryFits(e),
         NEW u, NEW column, NEW new, NEW p, NEW limit,
         \/ GetMe(r, u) \/ SelectUser(r) \/ Fill(r)
         \/ Update(r, u, column, new) \/ FindUser(r) \/ SaveLoad(r)
         \/ GetUsersByRank(r, p, limit) \/ FindByIds(r)
  PROVE  EntryFits(e)'
<1>1. db' = db /\ disturbed \subseteq disturbed' /\ IsRequest(req[r])
  BY DEF UpdatesInv, GetMe, SelectUser, Fill, Update, FindUser, SaveLoad, GetUsersByRank,
         FindByIds, history
<1>2. ASSUME NEW q, req' = [req EXCEPT ![r] = q],
             SavesScore(q, e.user) <=> SavesScore(req[r], e.user),
             SavesScore(q, e.user) => q.entity = req[r].entity
      PROVE  EntryFits(e)'
  BY <1>1, <1>2, EntryGoesOn
<1>3. CASE SaveLoad(r)
  <2> DEFINE columns == {c \in Columns : req[r].entity[c] # db[req[r].user][c]}
             q == [req[r] EXCEPT !.pc = "write", !.changed = columns]
  <2>1. req[r].pc = "save" /\ req' = [req EXCEPT ![r].pc = "write", ![r].changed = columns]
    BY <1>3 DEF SaveLoad
  <2> HIDE DEF columns
  <2>2. /\ q.pc = "write" /\ q.user = req[r].user /\ q.column = req[r].column
        /\ q.entity = req[r].entity /\ req' = [req EXCEPT ![r] = q]
    BY <1>1, <2>1 DEF IsRequest, Idle
  <2> HIDE DEF q
  <2> QED BY <1>2, <2>1, <2>2 DEF SavesScore
<1>4. CASE req' = req
  <2>1. req' = [req EXCEPT ![r] = req[r]]
    BY <1>4 DEF UpdatesInv
  <2> QED BY <1>2, <2>1
<1>5. ASSUME NEW q, req' = [req EXCEPT ![r] = q], q.pc \notin {"save", "write"},
             req[r].pc \notin {"save", "write"}
      PROVE  EntryFits(e)'
  BY <1>2, <1>5 DEF SavesScore
<1>6. CASE Fill(r) \/ FindByIds(r)
  <2>1. /\ req' = [req EXCEPT ![r] = Idle] /\ Idle.pc = "idle"
        /\ req[r].pc \in {"fill", "list"}
    BY <1>6 DEF Fill, FindByIds, Answer, Idle
  <2> QED BY <1>5, <2>1
<1>7. CASE GetMe(r, u) /\ req' # req
  <2> DEFINE q == [req[r] EXCEPT !.pc = "select", !.user = u]
  <2>1. req[r].pc = "idle" /\ req' = [req EXCEPT ![r].pc = "select", ![r].user = u]
    BY <1>7 DEF GetMe, Idle
  <2>2. q.pc = "select" /\ req' = [req EXCEPT ![r] = q]
    BY <1>1, <2>1 DEF IsRequest, Idle
  <2> HIDE DEF q
  <2> QED BY <1>5, <2>1, <2>2
<1>8. CASE Update(r, u, column, new)
  <2> DEFINE q == [req[r] EXCEPT !.pc = "find", !.user = u, !.column = column, !.asked = new]
  <2>1. /\ req[r].pc = "idle"
        /\ req' = [req EXCEPT ![r].pc = "find", ![r].user = u, ![r].column = column,
                              ![r].asked = new]
    BY <1>8 DEF Update, Idle
  <2>2. q.pc = "find" /\ req' = [req EXCEPT ![r] = q]
    BY <1>1, <2>1 DEF IsRequest, Idle
  <2> HIDE DEF q
  <2> QED BY <1>5, <2>1, <2>2
<1>9. ASSUME NEW pc \in {"fill", "found"}, NEW entity, req[r].pc \in {"select", "find"},
             req' = [req EXCEPT ![r].pc = pc, ![r].entity = entity]
      PROVE  EntryFits(e)'
  <2> DEFINE q == [req[r] EXCEPT !.pc = pc, !.entity = entity]
  <2>1. q.pc = pc /\ req' = [req EXCEPT ![r] = q]
    BY <1>1, <1>9 DEF IsRequest, Idle
  <2> HIDE DEF q
  <2> QED BY <1>5, <1>9, <2>1
<1>10. CASE SelectUser(r) \/ FindUser(r)
  BY <1>9, <1>10 DEF SelectUser, FindUser
<1>11. CASE GetUsersByRank(r, p, limit)
  <2> DEFINE ids == ToSet(Page(p, limit))
             q == [req[r] EXCEPT !.pc = "list", !.ids = ids]
  <2>1. req[r].pc = "idle" /\ req' = [req EXCEPT ![r].pc = "list", ![r].ids = ids]
    BY <1>11 DEF GetUsersByRank, Idle
  <2> HIDE DEF ids
  <2>2. q.pc = "list" /\ req' = [req EXCEPT ![r] = q]
    BY <1>1, <2>1 DEF IsRequest, Idle
  <2> HIDE DEF q
  <2> QED BY <1>5, <2>1, <2>2
<1> QED BY <1>3, <1>4, <1>6, <1>7, <1>8, <1>10, <1>11

LEMMA NextFits == UpdatesInv /\ RankingInv /\ ScoresInv /\ [Next]_vars => ScoresInv'
<1> SUFFICES ASSUME UpdatesInv, RankingInv, ScoresInv, [Next]_vars PROVE ScoresInv'
  OBVIOUS
<1>1. \A i \in DOMAIN ranking : ranking[i].user \in Users
  <2>1. ranking \in Seq(Ranked)
    BY DEF RankingInv
  <2>2. \A i \in DOMAIN ranking : ranking[i] \in Ranked
    BY <2>1
  <2> QED BY <2>2 DEF Ranked
<1>2. ASSUME ranking' = ranking,
             \A e : EntryFits(e) /\ e.user \in Users => EntryFits(e)'
      PROVE  ScoresInv'
  <2>1. ASSUME NEW i \in DOMAIN ranking, NEW e, e = ranking[i] PROVE EntryFits(e)'
    BY <1>1, <1>2, <2>1 DEF ScoresInv
  <2> QED BY <1>2, <2>1 DEF ScoresInv
<1>3. ASSUME NEW r \in Reqs, NEW u, NEW column, NEW new, NEW p, NEW limit,
             \/ GetMe(r, u) \/ SelectUser(r) \/ Fill(r)
             \/ Update(r, u, column, new) \/ FindUser(r) \/ SaveLoad(r)
             \/ GetUsersByRank(r, p, limit) \/ FindByIds(r)
      PROVE  ScoresInv'
  <2>1. ranking' = ranking
    BY <1>3 DEF GetMe, SelectUser, Fill, Update, FindUser, SaveLoad, GetUsersByRank, FindByIds
  <2>2. ASSUME NEW e, EntryFits(e) PROVE EntryFits(e)'
    BY <1>3, <2>2, OthersFit
  <2> QED BY <1>2, <2>1, <2>2
<1>4. ASSUME NEW r \in Reqs, SaveWrite(r) \/ Fail(r) PROVE ScoresInv'
  <2>1. ranking' = ranking
    BY <1>4 DEF SaveWrite, Fail
  <2>2. ASSUME NEW e, EntryFits(e), e.user \in Users PROVE EntryFits(e)'
    BY <1>4, <2>2, SaveWriteFits, FailFits
  <2> QED BY <1>2, <2>1, <2>2
<1>5. ASSUME NEW r \in Reqs, Continue(r) PROVE ScoresInv'
  BY <1>3, <1>4, <1>5, SaveFits DEF Continue
<1>6. CASE Restart
  BY <1>6 DEF Restart, ScoresInv
<1>7. CASE UNCHANGED <<db, disturbed, req, ranking>>
  BY <1>7 DEF ScoresInv, EntryFits
<1>8. ASSUME NEW r \in Reqs, NEW u \in Users,
             \/ GetMe(r, u)
             \/ \E n \in Nicknames : UpdateUser(r, u, n)
             \/ \E s \in Scores : UpdateScore(r, u, s)
      PROVE  ScoresInv'
  BY <1>3, <1>8 DEF UpdateUser, UpdateScore
<1>9. ASSUME NEW r \in Reqs, NEW p, NEW limit, GetUsersByRank(r, p, limit) PROVE ScoresInv'
  BY <1>3, <1>9
<1> QED BY <1>4, <1>5, <1>6, <1>7, <1>8, <1>9 DEF Next, Tick, vars, history

\* The score of a ranked user is the one in the table, though row and sorted
\* set are written steps apart, unless updates of the user overlapped or failed.
THEOREM RankingFitsTable == Spec => []RankingShowsScores
<1>1. Init => ScoresInv
  BY DEF Init, ScoresInv
<1>2. ASSUME ScoresInv, RankingInv PROVE RankingShowsScores
  <2> SUFFICES ASSUME NEW i \in DOMAIN ranking, ranking[i].user \notin disturbed,
                      Quiet(ranking[i].user)
               PROVE  RankScore(ranking[i].user) = db[ranking[i].user].score
    BY DEF RankingShowsScores, RankedUsers
  <2> DEFINE u == ranking[i].user
  <2>1. ranking[i].score = db[u].score
    BY <1>2 DEF ScoresInv, EntryFits, Quiet, Updating, SavesScore
  <2>2. \A e \in ToSet(ranking) : e.user = u => e = ranking[i]
    <3>1. \A j \in DOMAIN ranking : ranking[j].user = u => j = i
      BY <1>2, Ranks
    <3> QED BY <3>1 DEF ToSet
  <2>3. ranking[i] \in ToSet(ranking)
    BY DEF ToSet
  <2> QED BY <2>1, <2>2, <2>3 DEF RankScore
<1> QED BY <1>1, <1>2, NextFits, RankingKept, PTL DEF Spec

-----------------------------------------------------------------------------
(* Types *)

\* A request goes on to do q; the other requests, and what no request changes,
\* keep their types.
LEMMA RequestTyped ==
  ASSUME TypeInv, NEW r \in Reqs, NEW q, req' = [req EXCEPT ![r] = q], q \in Request,
         q.pc \in {"select", "fill"} => q.user \in Users,
         q.pc = "fill" => q.entity \in Profile,
         IsFiniteSet(q.ids),
         db' \in [Users -> Profile], expected' \in [Users -> Profile],
         cached' \in [Users -> CachedProfile \cup {None}],
         ranking' \in Seq(Ranked), page' \in Seq(Ranked), disturbed' \subseteq Users,
         updates' \in 0 .. MaxUpdates, restarts' = restarts
  PROVE  TypeInv'
<1>1. req \in [Reqs -> Request] /\ restarts \in 0 .. MaxRestarts
  BY DEF TypeInv, TypeOK
<1>2. req' \in [Reqs -> Request]
  BY <1>1
<1>3. TypeOK'
  BY <1>1, <1>2 DEF TypeOK
<1>4. req'[r] = q /\ \A s \in Reqs \ {r} : req'[s] = req[s]
  BY <1>1
<1>5. \A s \in Reqs :
         /\ req'[s].pc \in {"select", "fill"} => req'[s].user \in Users
         /\ req'[s].pc = "fill" => req'[s].entity \in Profile
         /\ IsFiniteSet(req'[s].ids)
  BY <1>4 DEF TypeInv
<1> QED BY <1>3, <1>5 DEF TypeInv

LEMMA IdleTyped == Idle \in Request /\ Idle.pc = "idle" /\ IsFiniteSet(Idle.ids)
<1>1. IsFiniteSet({})
  BY FS_EmptySet
<1> QED BY <1>1 DEF Idle, Request, Locations

\* A request goes on without touching anything else.
LEMMA RequestOnlyTyped ==
  ASSUME TypeInv, NEW r \in Reqs, NEW q, req' = [req EXCEPT ![r] = q], q \in Request,
         q.pc \in {"select", "fill"} => q.user \in Users,
         q.pc = "fill" => q.entity \in Profile,
         IsFiniteSet(q.ids),
         cached' \in [Users -> CachedProfile \cup {None}],
         ranking' \in Seq(Ranked), page' \in Seq(Ranked),
         UNCHANGED <<db, expected, disturbed, updates, restarts>>
  PROVE  TypeInv'
<1>1. /\ db' \in [Users -> Profile] /\ expected' \in [Users -> Profile]
      /\ disturbed' \subseteq Users /\ updates' \in 0 .. MaxUpdates
  BY DEF TypeInv, TypeOK
<1> QED BY <1>1, RequestTyped

LEMMA GetMeTyped ==
  ASSUME TypeInv, NEW r \in Reqs, NEW u \in Users, GetMe(r, u)
  PROVE  TypeInv'
<1> DEFINE q == [req[r] EXCEPT !.pc = "select", !.user = u]
<1>1. /\ req \in [Reqs -> Request] /\ req[r] = Idle
      /\ cached \in [Users -> CachedProfile \cup {None}]
      /\ ranking \in Seq(Ranked) /\ page \in Seq(Ranked)
  BY DEF TypeInv, TypeOK, GetMe
<1>2. cached' \in [Users -> CachedProfile \cup {None}]
  BY <1>1 DEF GetMe
<1>3. /\ q \in Request /\ q.pc = "select" /\ q.user = u /\ q.ids = Idle.ids
  BY <1>1 DEF Request, Locations, Idle
<1>4. UNCHANGED <<db, expected, disturbed, updates, restarts, ranking, page>>
  BY DEF GetMe, history, bounds
<1>5. CASE req' = req
  <2>1. req' = [req EXCEPT ![r] = Idle]
    BY <1>1, <1>5
  <2> QED BY <1>1, <1>2, <1>4, <2>1, IdleTyped, RequestOnlyTyped
<1>6. CASE req' = [req EXCEPT ![r].pc = "select", ![r].user = u]
  <2>1. req' = [req EXCEPT ![r] = q]
    BY <1>1, <1>6
  <2> HIDE DEF q
  <2> QED BY <1>1, <1>2, <1>3, <1>4, <2>1, IdleTyped, RequestOnlyTyped
<1> QED BY <1>5, <1>6 DEF GetMe

\* The row that was read has come: it lives in the cache for a whole TTL.
LEMMA FillTyped ==
  ASSUME TypeInv, NEW r \in Reqs, Fill(r)
  PROVE  TypeInv'
<1>1. /\ req[r].entity \in Profile
      /\ cached \in [Users -> CachedProfile \cup {None}]
      /\ ranking \in Seq(Ranked) /\ page \in Seq(Ranked)
  BY DEF TypeInv, TypeOK, Fill
<1>2. Ttl \in 0 .. Ttl
  BY TtlAssumption
<1>3. Filled(req[r].entity) \in CachedProfile
  BY <1>1, <1>2 DEF Filled, CachedProfile
<1>4. cached' \in [Users -> CachedProfile \cup {None}]
  BY <1>1, <1>3 DEF Fill
<1>5. /\ UNCHANGED <<db, expected, disturbed, updates, restarts, ranking, page>>
      /\ req' = [req EXCEPT ![r] = Idle]
  BY DEF Fill, history, bounds, Answer
<1> QED BY <1>1, <1>4, <1>5, IdleTyped, RequestOnlyTyped

LEMMA UpdateTyped ==
  ASSUME TypeInv, NEW r \in Reqs, NEW u \in Users, NEW column \in Columns,
         NEW new \in Nicknames \cup Scores, Update(r, u, column, new)
  PROVE  TypeInv'
<1> DEFINE q == [req[r] EXCEPT !.pc = "find", !.user = u, !.column = column, !.asked = new]
<1>1. /\ req \in [Reqs -> Request] /\ req[r] = Idle
      /\ req' = [req EXCEPT ![r].pc = "find", ![r].user = u, ![r].column = column,
                            ![r].asked = new]
      /\ UNCHANGED <<db, cached, ranking, page, expected, restarts>>
  BY DEF TypeInv, TypeOK, Update
<1>2. q \in Request /\ q.pc = "find" /\ q.ids = Idle.ids
  BY <1>1 DEF Request, Locations, Idle
<1>3. req' = [req EXCEPT ![r] = q]
  BY <1>1
<1> HIDE DEF q
<1>4. disturbed' \subseteq Users
  BY DEF TypeInv, TypeOK, Update
<1>5. updates' \in 0 .. MaxUpdates
  BY BoundAssumption DEF TypeInv, TypeOK, Update
<1>6. /\ db' \in [Users -> Profile] /\ expected' \in [Users -> Profile]
      /\ cached' \in [Users -> CachedProfile \cup {None}]
      /\ ranking' \in Seq(Ranked) /\ page' \in Seq(Ranked)
  BY <1>1 DEF TypeInv, TypeOK
<1> QED BY <1>1, <1>2, <1>3, <1>4, <1>5, <1>6, IdleTyped, RequestTyped

\* The steps of an update between its start and its end.
LEMMA UpdateGoesOnTyped ==
  ASSUME TypeInv, UpdatesInv, RankingInv', NEW r \in Reqs,
         SelectUser(r) \/ FindUser(r) \/ Save(r) \/ SaveLoad(r)
  PROVE  TypeInv'
<1>1. /\ req \in [Reqs -> Request] /\ req[r] \in Request /\ IsFiniteSet(req[r].ids)
      /\ db \in [Users -> Profile]
  BY DEF TypeInv, TypeOK
<1>2. /\ UNCHANGED <<db, cached, page, expected, disturbed, updates, restarts>>
      /\ ranking' \in Seq(Ranked)
  BY DEF SelectUser, FindUser, Save, SaveLoad, history, bounds, RankingInv
<1>3. cached' \in [Users -> CachedProfile \cup {None}] /\ page' \in Seq(Ranked)
  BY <1>2 DEF TypeInv, TypeOK
<1>4. CASE SelectUser(r)
  <2> DEFINE row == db[req[r].user]
             q == [req[r] EXCEPT !.pc = "fill", !.entity = row]
  <2>1. req' = [req EXCEPT ![r].pc = "fill", ![r].entity = row]
    BY <1>4 DEF SelectUser
  <2>2. req[r].user \in Users /\ row \in Profile
    BY <1>1, <1>4 DEF TypeInv, SelectUser
  <2> HIDE DEF row
  <2>3. /\ q \in Request /\ q.ids = req[r].ids /\ q.user = req[r].user /\ q.entity = row
        /\ req' = [req EXCEPT ![r] = q]
    BY <1>1, <2>1, <2>2 DEF Request, Locations
  <2> HIDE DEF q
  <2> QED BY <1>1, <1>2, <1>3, <2>2, <2>3, RequestOnlyTyped
<1>5. CASE FindUser(r)
  <2> DEFINE entity == [db[req[r].user] EXCEPT ![req[r].column] = req[r].asked]
             q == [req[r] EXCEPT !.pc = "found", !.entity = entity]
  <2>1. req' = [req EXCEPT ![r].pc = "found", ![r].entity = entity]
    BY <1>5 DEF FindUser
  <2>2. entity \in Profile
    <3>1. InFlight(req[r], db, disturbed)
      BY <1>5 DEF UpdatesInv, FindUser, Updating
    <3>2. db[req[r].user] \in Profile
      BY <1>1, <3>1 DEF InFlight
    <3>3. CASE req[r].column = "nickname" /\ req[r].asked \in Nicknames
      BY <3>2, <3>3 DEF Profile
    <3>4. CASE req[r].column = "score" /\ req[r].asked \in Scores
      BY <3>2, <3>4 DEF Profile
    <3> QED BY <3>1, <3>3, <3>4 DEF InFlight
  <2> HIDE DEF entity
  <2>3. /\ q \in Request /\ q.ids = req[r].ids /\ q.pc = "found"
        /\ req' = [req EXCEPT ![r] = q]
    BY <1>1, <2>1, <2>2 DEF Request, Locations
  <2> HIDE DEF q
  <2> QED BY <1>1, <1>2, <1>3, <2>3, RequestOnlyTyped
<1>6. CASE Save(r)
  <2> DEFINE q == [req[r] EXCEPT !.pc = "save"]
  <2>1. req' = [req EXCEPT ![r].pc = "save"]
    BY <1>6 DEF Save
  <2>2. /\ q \in Request /\ q.ids = req[r].ids /\ q.pc = "save"
        /\ req' = [req EXCEPT ![r] = q]
    BY <1>1, <2>1 DEF Request, Locations
  <2> HIDE DEF q
  <2> QED BY <1>1, <1>2, <1>3, <2>2, RequestOnlyTyped
<1>7. CASE SaveLoad(r)
  <2> DEFINE columns == {c \in Columns : req[r].entity[c] # db[req[r].user][c]}
             q == [req[r] EXCEPT !.pc = "write", !.changed = columns]
  <2>1. req' = [req EXCEPT ![r].pc = "write", ![r].changed = columns]
    BY <1>7 DEF SaveLoad
  <2>2. columns \in SUBSET Columns
    OBVIOUS
  <2> HIDE DEF columns
  <2>3. /\ q \in Request /\ q.ids = req[r].ids /\ q.pc = "write"
        /\ req' = [req EXCEPT ![r] = q]
    BY <1>1, <2>1, <2>2 DEF Request, Locations
  <2> HIDE DEF q
  <2> QED BY <1>1, <1>2, <1>3, <2>3, RequestOnlyTyped
<1> QED BY <1>4, <1>5, <1>6, <1>7

\* A page of the ranking is a finite set of users.
LEMMA GetUsersByRankTyped ==
  ASSUME TypeInv, RankingInv, NEW r \in Reqs, NEW p \in Nat \ {0}, NEW limit \in Nat \ {0},
         GetUsersByRank(r, p, limit)
  PROVE  TypeInv'
<1> DEFINE list == Page(p, limit)
           ids == ToSet(list)
           q == [req[r] EXCEPT !.pc = "list", !.ids = ids]
<1>1. /\ req \in [Reqs -> Request] /\ req[r] = Idle
      /\ cached \in [Users -> CachedProfile \cup {None}]
      /\ ranking \in Seq(Ranked) /\ page \in Seq(Ranked)
      /\ req' = [req EXCEPT ![r].pc = "list", ![r].ids = ids]
      /\ UNCHANGED <<db, expected, disturbed, updates, restarts, cached, ranking, page>>
  BY DEF TypeInv, TypeOK, GetUsersByRank, history, bounds
<1>2. list \in Seq({ranking[i].user : i \in DOMAIN ranking})
  BY PageShows
<1> HIDE DEF list
<1>3. \A i \in DOMAIN ranking : ranking[i].user \in Users
  <2>1. \A i \in DOMAIN ranking : ranking[i] \in Ranked
    BY <1>1
  <2> QED BY <2>1 DEF Ranked
<1>4. ids \in SUBSET Users
  BY <1>2, <1>3 DEF ToSet
<1>5. IsFiniteSet(ids)
  <2>1. IsFiniteSet(1 .. Len(list)) /\ DOMAIN list = 1 .. Len(list)
    BY <1>2, FS_Interval
  <2>2. IsFiniteSet({list[i] : i \in DOMAIN list})
    BY <2>1, FiniteImage
  <2> QED BY <2>2 DEF ToSet
<1> HIDE DEF ids
<1>6. q \in Request /\ q.pc = "list" /\ q.ids = ids /\ req' = [req EXCEPT ![r] = q]
  BY <1>1, <1>4 DEF Request, Locations, Idle
<1> HIDE DEF q
<1> QED BY <1>1, <1>5, <1>6, RequestOnlyTyped

\* Whatever order the rows come in, each is one of a user.
LEMMA FindByIdsTyped ==
  ASSUME TypeInv, NEW r \in Reqs, FindByIds(r)
  PROVE  TypeInv'
<1> DEFINE found == {[user |-> u, score |-> db[u].score] : u \in req[r].ids}
<1>1. /\ req \in [Reqs -> Request] /\ db \in [Users -> Profile]
      /\ cached \in [Users -> CachedProfile \cup {None}] /\ ranking \in Seq(Ranked)
      /\ IsFiniteSet(req[r].ids) /\ req[r].ids \in SUBSET Users
  BY DEF TypeInv, TypeOK, Request
<1>2. found \in SUBSET Ranked
  BY <1>1 DEF Ranked, Profile
<1>3. IsFiniteSet(found)
  <2> DEFINE row == [u \in req[r].ids |-> [user |-> u, score |-> db[u].score]]
  <2>1. DOMAIN row = req[r].ids /\ found = {row[u] : u \in req[r].ids}
    OBVIOUS
  <2> HIDE DEF row, found
  <2> QED BY <1>1, <2>1, FiniteImage
<1>4. page' \in SetToSeqs(found)
  BY DEF FindByIds
<1> HIDE DEF found
<1>5. Cardinality(found) \in Nat
  BY <1>3, FS_CardinalityType
<1>6. page' \in [1 .. Cardinality(found) -> found]
  BY <1>4 DEF SetToSeqs
<1>7. page' \in Seq(Ranked)
  BY <1>2, <1>5, <1>6
<1>8. /\ UNCHANGED <<db, expected, disturbed, updates, restarts, cached, ranking>>
      /\ req' = [req EXCEPT ![r] = Idle]
  BY DEF FindByIds, history, bounds, Answer
<1> QED BY <1>1, <1>7, <1>8, IdleTyped, RequestOnlyTyped

\* What ends an update leaves whole rows behind.
LEMMA EndsTyped ==
  ASSUME TypeInv, UpdatesInv, UpdatesInv', NEW r \in Reqs, SaveWrite(r) \/ Fail(r)
  PROVE  TypeInv'
<1>1. db' \in [Users -> Profile] /\ expected' \in [Users -> Profile]
  BY DEF UpdatesInv
<1>2. /\ req' = [req EXCEPT ![r] = Idle]
      /\ UNCHANGED <<cached, ranking, page, updates, restarts>>
  BY DEF SaveWrite, Fail, Answer, bounds
<1>3. disturbed' \subseteq Users
  BY DEF TypeInv, TypeOK, SaveWrite, Fail, Updating
<1>4. /\ cached' \in [Users -> CachedProfile \cup {None}]
      /\ ranking' \in Seq(Ranked) /\ page' \in Seq(Ranked) /\ updates' \in 0 .. MaxUpdates
  BY <1>2 DEF TypeInv, TypeOK
<1> QED BY <1>1, <1>2, <1>3, <1>4, IdleTyped, RequestTyped

LEMMA RestartTyped == TypeInv /\ Restart => TypeInv'
<1> SUFFICES ASSUME TypeInv, Restart PROVE TypeInv'
  OBVIOUS
<1>1. req' = [r \in Reqs |-> Idle] /\ cached' = [u \in Users |-> None] /\ ranking' = <<>>
  BY DEF Restart
<1>2. restarts' \in 0 .. MaxRestarts
  BY BoundAssumption DEF TypeInv, TypeOK, Restart
<1>3. TypeOK'
  BY <1>1, <1>2, IdleTyped DEF TypeInv, TypeOK, Restart, history
<1> QED BY <1>1, <1>3, IdleTyped DEF TypeInv

LEMMA TickTyped == TypeInv /\ Tick => TypeInv'
<1> SUFFICES ASSUME TypeInv, Tick PROVE TypeInv'
  OBVIOUS
<1>1. cached \in [Users -> CachedProfile \cup {None}]
  BY DEF TypeInv, TypeOK
<1>2. ASSUME NEW u \in Users, Live(u)
      PROVE  [cached[u] EXCEPT !.left = @ - 1] \in CachedProfile
  <2>1. cached[u] \in CachedProfile /\ cached[u].left > 0
    BY <1>1, <1>2 DEF Live
  <2>2. cached[u].left - 1 \in 0 .. Ttl
    BY <2>1, TtlAssumption DEF CachedProfile
  <2> QED BY <2>1, <2>2 DEF CachedProfile
<1>3. cached' = [u \in Users |-> IF Live(u) THEN [cached[u] EXCEPT !.left = @ - 1] ELSE cached[u]]
  BY DEF Tick
<1>4. cached' \in [Users -> CachedProfile \cup {None}]
  BY <1>1, <1>2, <1>3
<1>5. UNCHANGED <<db, ranking, req, page, expected, disturbed, updates, restarts>>
  BY DEF Tick, history, bounds
<1>6. TypeOK'
  BY <1>4, <1>5 DEF TypeInv, TypeOK
<1> QED BY <1>5, <1>6 DEF TypeInv

LEMMA NextTyped ==
  TypeInv /\ UpdatesInv /\ UpdatesInv' /\ RankingInv /\ RankingInv' /\ [Next]_vars => TypeInv'
<1> SUFFICES ASSUME TypeInv, UpdatesInv, UpdatesInv', RankingInv, RankingInv', [Next]_vars
             PROVE  TypeInv'
  OBVIOUS
<1>1. ASSUME NEW r \in Reqs, Continue(r) PROVE TypeInv'
  BY <1>1, UpdateGoesOnTyped, FillTyped, FindByIdsTyped, EndsTyped DEF Continue
<1>2. ASSUME NEW r \in Reqs, Fail(r) PROVE TypeInv'
  BY <1>2, EndsTyped
<1>3. ASSUME NEW r \in Reqs, NEW u \in Users, GetMe(r, u) PROVE TypeInv'
  BY <1>3, GetMeTyped
<1>4. ASSUME NEW r \in Reqs, NEW u \in Users,
             \/ \E n \in Nicknames : UpdateUser(r, u, n)
             \/ \E s \in Scores : UpdateScore(r, u, s)
      PROVE  TypeInv'
  BY <1>4, UpdateTyped DEF UpdateUser, UpdateScore, Columns
<1>5. ASSUME NEW r \in Reqs, NEW limit \in PageLimits, NEW p \in 1 .. Len(ranking),
             GetUsersByRank(r, p, limit)
      PROVE  TypeInv'
  <2>1. p \in Nat \ {0} /\ limit \in Nat \ {0}
    BY PageAssumption, Ranks
  <2> QED BY <1>5, <2>1, GetUsersByRankTyped
<1>6. CASE UNCHANGED vars
  BY <1>6 DEF vars, TypeInv, TypeOK
<1> QED BY <1>1, <1>2, <1>3, <1>4, <1>5, <1>6, RestartTyped, TickTyped DEF Next

\* Every variable keeps its type; what is cached is always a whole row.
THEOREM UserProfileTypes == Spec => []TypeOK
<1>1. Init => TypeInv
  <2> SUFFICES ASSUME Init PROVE TypeInv
    OBVIOUS
  <2>1. db \in [Users -> Profile]
    BY ScoreAssumption DEF Init, Profile
  <2>2. 0 \in 0 .. MaxUpdates /\ 0 \in 0 .. MaxRestarts
    BY BoundAssumption
  <2>3. req \in [Reqs -> Request]
    BY IdleTyped DEF Init
  <2>4. TypeOK
    BY <2>1, <2>2, <2>3 DEF Init, TypeOK
  <2> QED BY <2>4, IdleTyped DEF Init, TypeInv
<1>2. TypeInv => TypeOK
  BY DEF TypeInv
<1> QED BY <1>1, <1>2, NextTyped, RankingKept, PTL DEF Spec

=============================================================================
