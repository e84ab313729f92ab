---------------------------- MODULE UserProfile ----------------------------
(***************************************************************************)
(* The users resource: GET users/me behind the @Cache decorator, PATCH of  *)
(* the nickname and of the score, and the score ranking.  Three copies of  *)
(* a user's data are kept by different means: the row in the database, the *)
(* cached profile with a TTL and the score in the sorted set.  Cache and   *)
(* ranking are MockCacheService's, in the memory of the process; a request *)
(* yields to the others at every database call and only there.             *)
(***************************************************************************)
EXTENDS Listings

CONSTANTS
    Users,      \* ids of the rows of the user table
    Reqs,       \* slots for requests the process handles at a time
    None,       \* model value: nothing cached, no value
    Nicknames,  \* nicknames clients ask for
    Scores,     \* scores clients ask for
    Ttl,        \* life of a cached profile, in ticks
    PageLimits, \* page lengths clients ask for
    MaxUpdates, \* bound on the updates
    MaxRestarts \* bound on the restarts of the process

ASSUME ScoreAssumption == Scores \subseteq Nat /\ 0 \in Scores
ASSUME TtlAssumption == Ttl \in Nat \ {0}
ASSUME PageAssumption == PageLimits \subseteq Nat \ {0}
ASSUME BoundAssumption == MaxUpdates \in Nat /\ MaxRestarts \in Nat
ASSUME NoneAssumption == None \notin Users \cup Reqs \cup Nicknames \cup Scores

VARIABLES
    db,        \* the user table: nickname and score of each user
    cached,    \* cache: profile of a user and the ticks it has left, or None
    ranking,   \* sorted set: users with their score, best first
    req,       \* what each request has done so far
    page,      \* the last page of the ranking that was answered
    expected,  \* history: what the answered updates should have left in db
    disturbed, \* history: users two updates of which overlapped or one failed
    updates,   \* updates so far
    restarts   \* restarts so far

vars == <<db, cached, ranking, req, page, expected, disturbed, updates, restarts>>
history == <<expected, disturbed>>
bounds == <<updates, restarts>>

Profile == [nickname : Nicknames, score : Scores]
Columns == {"nickname", "score"}
Ranked == [user : Users, score : Scores]

\* A cached profile is served while it has ticks left; at 0 it has expired.
CachedProfile == [profile : Profile, left : 0 .. Ttl]

-----------------------------------------------------------------------------
(* The ranking *)

RankedUsers == {ranking[i].user : i \in DOMAIN ranking}
RankScore(u) == (CHOOSE e \in ToSet(ranking) : e.user = u).score

\* Entries by their positions: the higher score comes first; the sort is stable.
BestFirst(entries) ==
    {pair \in (DOMAIN entries) \X (DOMAIN entries) :
        \/ entries[pair[1]].score > entries[pair[2]].score
        \/ entries[pair[1]].score = entries[pair[2]].score /\ pair[1] < pair[2]}

\* The entries at the positions that are kept, sorted.
Sorted(entries, kept) ==
    LET order == InOrder(kept, BestFirst(entries))
    IN  [k \in DOMAIN order |-> entries[order[k]]]

Pushed(u, s) == Append(ranking, [user |-> u, score |-> s])

\* Mutated form: the entry the user had stays in the set.
ZaddKeepingOld(u, s) == Sorted(Pushed(u, s), DOMAIN Pushed(u, s))

\* zadd drops the user's entry, pushes a new one and sorts.
Zadd(u, s) ==
    LET entries == Pushed(u, s)
    IN  Sorted(entries, {i \in DOMAIN entries : i = Len(entries) \/ entries[i].user # u})

\* Mutated form: the end of the range is taken for exclusive by the caller.
PageBeyond(p, limit) ==
    LET start == (p - 1) * limit
        end == start + limit
        last == IF end + 1 < Len(ranking) THEN end + 1 ELSE Len(ranking)
    IN  [i \in 1 .. (IF last > start THEN last - start ELSE 0) |-> ranking[start + i].user]

\* getUsersByRank asks zrevrange for [start, end], both inclusive from 0, and
\* zrevrange slices the array up to end + 1.
Page(p, limit) ==
    LET start == (p - 1) * limit
        end == start + limit - 1
        last == IF end + 1 < Len(ranking) THEN end + 1 ELSE Len(ranking)
    IN  [i \in 1 .. (IF last > start THEN last - start ELSE 0) |-> ranking[start + i].user]

\* Mutated form: ranks are counted from 0, as Redis counts them.
RankFromZero(u) ==
    IF u \in RankedUsers
    THEN (CHOOSE i \in DOMAIN ranking : ranking[i].user = u) - 1
    ELSE None

\* GET users/:userId/rank: zrevrank counts from 1 and knows only ranked users.
RankOf(u) ==
    IF u \in RankedUsers
    THEN CHOOSE i \in DOMAIN ranking : ranking[i].user = u
    ELSE None

-----------------------------------------------------------------------------
(* Requests *)

Locations == {"idle", "select", "fill", "find", "found", "save", "write", "list"}
Request == [pc : Locations, user : Users \cup {None}, column : Columns \cup {None},
            asked : Nicknames \cup Scores \cup {None},
            entity : Profile \cup {None}, changed : SUBSET Columns,
            ids : SUBSET Users]

Idle == [pc |-> "idle", user |-> None, column |-> None, asked |-> None,
         entity |-> None, changed |-> {}, ids |-> {}]

Updating(q, u) == q.pc \in {"find", "found", "save", "write"} /\ q.user = u
Quiet(u) == \A r \in Reqs : ~Updating(req[r], u)
Answer(r) == req' = [req EXCEPT ![r] = Idle]

Init ==
    /\ db \in [Users -> [nickname : Nicknames, score : {0}]]
    /\ cached = [u \in Users |-> None]
    /\ ranking = <<>>
    /\ req = [r \in Reqs |-> Idle]
    /\ page = <<>>
    /\ expected = db
    /\ disturbed = {}
    /\ updates = 0 /\ restarts = 0

-----------------------------------------------------------------------------
(* GET users/me: getUser, wrapped by CacheModule.wrapMethod *)

Live(u) == cached[u] # None /\ cached[u].left > 0

\* Mutated form: a hit gives the entry its whole TTL again.
GetMeRenewing(r, u) ==
    /\ req[r] = Idle
    /\ cached' = [v \in Users |-> IF ~Live(v) THEN None
                    ELSE IF v = u THEN [cached[u] EXCEPT !.left = Ttl] ELSE cached[v]]
    /\ req' = IF Live(u) THEN req
              ELSE [req EXCEPT ![r].pc = "select", ![r].user = u]
    /\ UNCHANGED <<db, ranking, page, history, bounds>>

\* A hit is answered in the same turn and changes nothing but what the get's
\* cleanup drops; a miss goes to the database.
GetMe(r, u) ==
    /\ req[r] = Idle
    /\ cached' = [v \in Users |-> IF Live(v) THEN cached[v] ELSE None]
    /\ req' = IF Live(u) THEN req
              ELSE [req EXCEPT ![r].pc = "select", ![r].user = u]
    /\ UNCHANGED <<db, ranking, page, history, bounds>>

\* Mutated form: the wrapper does not wait for the row.
SelectUserUnawaited(r) ==
    /\ req[r].pc = "select"
    /\ req' = [req EXCEPT ![r].pc = "fill"]
    /\ UNCHANGED <<db, cached, ranking, page, history, bounds>>

\* findByIdOrThrow: the row as it is when the SELECT runs.
SelectUser(r) ==
    /\ req[r].pc = "select"
    /\ req' = [req EXCEPT ![r].pc = "fill", ![r].entity = db[req[r].user]]
    /\ UNCHANGED <<db, cached, ranking, page, history, bounds>>

\* The profile that a fill leaves in the cache.
Filled(profile) == [profile |-> profile, left |-> Ttl]

\* The row has come: it is cached as it was read, and answered.
Fill(r) ==
    /\ req[r].pc = "fill"
    /\ cached' = [cached EXCEPT ![req[r].user] = Filled(req[r].entity)]
    /\ Answer(r)
    /\ UNCHANGED <<db, ranking, page, history, bounds>>

-----------------------------------------------------------------------------
(* PATCH users/me and PATCH users/:userId/score *)

\* Both read the whole row, change one column and save the entity.
Update(r, u, column, new) ==
    /\ req[r] = Idle
    /\ updates < MaxUpdates
    /\ req' = [req EXCEPT ![r].pc = "find", ![r].user = u, ![r].column = column,
                          ![r].asked = new]
    /\ disturbed' = IF Quiet(u) THEN disturbed ELSE disturbed \cup {u}
    /\ updates' = updates + 1
    /\ UNCHANGED <<db, cached, ranking, page, expected, restarts>>

UpdateUser(r, u, nickname) == Update(r, u, "nickname", nickname)
UpdateScore(r, u, score) == Update(r, u, "score", score)

\* findByIdOrThrow: what the client asked for goes on top of the row read.
FindUser(r) ==
    /\ req[r].pc = "find"
    /\ req' = [req EXCEPT ![r].pc = "found",
                  ![r].entity = [db[req[r].user] EXCEPT ![req[r].column] = req[r].asked]]
    /\ UNCHANGED <<db, cached, ranking, page, history, bounds>>

\* Mutated form: the ranking is given the score of the row before the update.
SaveRankingOldScore(r) ==
    /\ req[r].pc = "found"
    /\ req' = [req EXCEPT ![r].pc = "save"]
    /\ ranking' = IF req[r].column = "score"
                  THEN Zadd(req[r].user, db[req[r].user].score) ELSE ranking
    /\ UNCHANGED <<db, cached, page, history, bounds>>

\* save and, for a score, updateUserRank start side by side: the sorted set
\* changes in this very turn, the row only two database calls later.
Save(r) ==
    /\ req[r].pc = "found"
    /\ req' = [req EXCEPT ![r].pc = "save"]
    /\ ranking' = IF req[r].column = "score"
                  THEN Zadd(req[r].user, req[r].entity.score) ELSE ranking
    /\ UNCHANGED <<db, cached, page, history, bounds>>

\* TypeORM's save reads the row again and compares it with the entity.
SaveLoad(r) ==
    /\ req[r].pc = "save"
    /\ LET row == db[req[r].user]
       IN  req' = [req EXCEPT ![r].pc = "write",
                     ![r].changed = {c \in Columns : req[r].entity[c] # row[c]}]
    /\ UNCHANGED <<db, cached, ranking, page, history, bounds>>

\* The table once the columns that differed have the entity's values.
Written(r) ==
    [db EXCEPT ![req[r].user] = [d \in Columns |->
        IF d \in req[r].changed THEN req[r].entity[d] ELSE @[d]]]

\* Mutated form: save takes the entity for unchanged.
SaveWriteNothing(r) ==
    /\ req[r].pc = "write"
    /\ expected' = [expected EXCEPT ![req[r].user][req[r].column] = req[r].asked]
    /\ Answer(r)
    /\ UNCHANGED <<db, cached, ranking, page, disturbed, bounds>>

\* It then updates those columns, in one UPDATE.
SaveWrite(r) ==
    /\ req[r].pc = "write"
    /\ db' = Written(r)
    /\ expected' = [expected EXCEPT ![req[r].user][req[r].column] = req[r].asked]
    /\ Answer(r)
    /\ UNCHANGED <<cached, ranking, page, disturbed, bounds>>

-----------------------------------------------------------------------------
(* GET users/rank *)

GetUsersByRank(r, p, limit) ==
    /\ req[r] = Idle
    /\ req' = [req EXCEPT ![r].pc = "list", ![r].ids = ToSet(Page(p, limit))]
    /\ UNCHANGED <<db, cached, ranking, page, history, bounds>>

\* findByIds selects WHERE id IN (...) with no ORDER BY: any order may come.
FindByIds(r) ==
    /\ req[r].pc = "list"
    /\ page' \in SetToSeqs({[user |-> u, score |-> db[u].score] : u \in req[r].ids})
    /\ Answer(r)
    /\ UNCHANGED <<db, cached, ranking, history, bounds>>

-----------------------------------------------------------------------------
(* Failures, restarts, time *)

\* A database call fails and the request is answered with an error; an UPDATE
\* may have been applied all the same.  What the sorted set has taken over
\* stays there.
Fail(r) ==
    /\ req[r] # Idle
    /\ db' \in {db} \cup (IF req[r].pc = "write" THEN {Written(r)} ELSE {})
    /\ disturbed' = IF \E u \in Users : Updating(req[r], u)
                    THEN disturbed \cup {req[r].user} ELSE disturbed
    /\ Answer(r)
    /\ UNCHANGED <<cached, ranking, page, expected, bounds>>

\* Cache and ranking go with the process; an UPDATE that gets in while it goes
\* down is one that failed a moment before.
Restart ==
    /\ restarts < MaxRestarts
    /\ restarts' = restarts + 1
    /\ req' = [r \in Reqs |-> Idle]
    /\ cached' = [u \in Users |-> None]
    /\ ranking' = <<>>
    /\ UNCHANGED <<db, page, history, updates>>

Tick ==
    /\ cached' = [u \in Users |->
          IF Live(u) THEN [cached[u] EXCEPT !.left = @ - 1] ELSE cached[u]]
    /\ UNCHANGED <<db, ranking, req, page, history, bounds>>

-----------------------------------------------------------------------------
Continue(r) ==
    \/ SelectUser(r) \/ Fill(r)
    \/ FindUser(r) \/ Save(r) \/ SaveLoad(r) \/ SaveWrite(r)
    \/ FindByIds(r)

Next ==
    \/ \E r \in Reqs :
          \/ \E u \in Users :
                \/ GetMe(r, u)
                \/ \E n \in Nicknames : UpdateUser(r, u, n)
                \/ \E s \in Scores : UpdateScore(r, u, s)
          \/ \E limit \in PageLimits : \E p \in 1 .. Len(ranking) :
                GetUsersByRank(r, p, limit)
          \/ Continue(r)
          \/ Fail(r)
    \/ Restart
    \/ Tick

Spec == Init /\ [][Next]_vars

\* Every database call answers or fails, and time passes.
FairSpec == Spec /\ WF_vars(Tick) /\ \A r \in Reqs : WF_vars(Continue(r) \/ Fail(r))

-----------------------------------------------------------------------------
(* Properties *)

\* Every variable keeps its shape; only whole rows are cached.
TypeOK ==
    /\ db \in [Users -> Profile] /\ expected \in [Users -> Profile]
    /\ cached \in [Users -> CachedProfile \cup {None}]
    /\ ranking \in Seq(Ranked) /\ page \in Seq(Ranked)
    /\ req \in [Reqs -> Request]
    /\ disturbed \subseteq Users
    /\ updates \in 0 .. MaxUpdates /\ restarts \in 0 .. MaxRestarts

\* The sorted set has one entry a user and is in descending order of score,
\* after any sequence of updates.
RankingIsSorted ==
    \A i, j \in DOMAIN ranking : i < j =>
        /\ ranking[i].user # ranking[j].user
        /\ ranking[i].score >= ranking[j].score

\* The pages of the ranking, one after the other, are the ranking: every user
\* is on a page, and whoever comes later on the pages has the lower rank, so
\* that nobody is on two pages.
PagesMakeUpRanking ==
    \A limit \in PageLimits :
        LET pages == [p \in DOMAIN ranking |-> Page(p, limit)]
        IN  /\ \A u \in RankedUsers : \E p \in DOMAIN pages : u \in ToSet(pages[p])
            /\ \A p, q \in DOMAIN pages : \A k \in DOMAIN pages[p], m \in DOMAIN pages[q] :
                  p < q \/ (p = q /\ k < m) => RankOf(pages[p][k]) < RankOf(pages[q][m])

\* A user's rank is the number of the page of length 1 that shows the user: the
\* two routes count alike.
RanksArePositions ==
    \A u \in RankedUsers : RankOf(u) # 0 /\ Page(RankOf(u), 1) = <<u>>

\* What an update answered with success stays in the table, unless two updates
\* of the same user overlapped or one of them failed.
UpdatesAreKept ==
    \A u \in Users \ disturbed : Quiet(u) => db[u] = expected[u]

\* Ranking and table agree on every ranked user's score under the same proviso.
RankingShowsScores ==
    \A u \in RankedUsers \ disturbed : Quiet(u) => RankScore(u) = db[u].score

\* Updates do not touch the cache, so a cached profile may be out of date; once
\* the updates stop, every profile served is the table's, for good.
CacheConverges ==
    <>[](\A u \in Users : Live(u) => cached[u].profile = db[u])

-----------------------------------------------------------------------------
(* What the documentation says and the code does not do *)

\* PATCH users/me changes the nickname and nothing else (user.controller.ts:84).
UpdateMeKeepsScore ==
    [][\A r \in Reqs : SaveWrite(r) /\ req[r].column = "nickname" =>
           \A u \in Users : db'[u].score = db[u].score]_vars

-----------------------------------------------------------------------------
(* The inductive invariants *)

\* A record with the fields of a request, whatever they hold.
IsRequest(q) == q = [field \in DOMAIN Idle |-> q[field]]

\* The row with the column a request asks for changed.
Wanted(q, row) ==
    [nickname |-> IF q.column = "nickname" THEN q.asked ELSE row.nickname,
     score |-> IF q.column = "score" THEN q.asked ELSE row.score]

\* An update in flight; where it is the only one of its user, its entity is
\* the row with one column changed, and so are the columns it will write.
InFlight(q, table, others) ==
    /\ q.user \in Users
    /\ \/ q.column = "nickname" /\ q.asked \in Nicknames
       \/ q.column = "score" /\ q.asked \in Scores
    /\ q.pc # "find" => q.entity \in Profile
    /\ q.user \notin others =>
          /\ q.pc # "find" => q.entity = Wanted(q, table[q.user])
          /\ q.pc = "write" => q.changed = {c \in Columns : q.entity[c] # table[q.user][c]}

UpdateAlone ==
    \A r, s \in Reqs : \A u \in Users \ disturbed :
        Updating(req[r], u) /\ Updating(req[s], u) => r = s

UpdatesInv ==
    /\ db \in [Users -> Profile] /\ expected \in [Users -> Profile]
    /\ req = [r \in Reqs |-> req[r]] /\ \A r \in Reqs : IsRequest(req[r])
    /\ \A r \in Reqs : Updating(req[r], req[r].user) => InFlight(req[r], db, disturbed)
    /\ UpdateAlone
    /\ \A u \in Users \ disturbed : db[u] = expected[u]

\* Between these two steps of a score's update the ranking has the new score
\* and the row the old one.
SavesScore(q, u) == q.pc \in {"save", "write"} /\ q.user = u /\ q.column = "score"

\* An entry of the sorted set whose user no updates have disturbed.
EntryFits(e) ==
    e.user \notin disturbed =>
        /\ (\A r \in Reqs : ~SavesScore(req[r], e.user)) => e.score = db[e.user].score
        /\ \A r \in Reqs : SavesScore(req[r], e.user) => e.score = req[r].entity.score

RankingInv == ranking \in Seq(Ranked) /\ RankingIsSorted
ScoresInv == \A i \in DOMAIN ranking : EntryFits(ranking[i])

\* What requests carry while they await a row or a page.
TypeInv ==
    /\ TypeOK
    /\ \A r \in Reqs :
          /\ req[r].pc \in {"select", "fill"} => req[r].user \in Users
          /\ req[r].pc = "fill" => req[r].entity \in Profile
          /\ IsFiniteSet(req[r].ids)

=============================================================================
