# Formal models of nestjs-study

The repository is a NestJS service: accounts with JWT sessions, user profiles
with a score ranking, posts, a product catalogue and a log pipeline. These
modules model the parts of it in which several requests, failures or restarts
meet the same state. Paths below are relative to the repository's `src/`
directory.

## 1. The system

One Node.js process answers HTTP requests. A request runs without interruption
until it awaits something that leaves the event loop (the database, bcrypt, a
timer, Redis); then other requests run. State is kept in four places: MySQL
tables (TypeORM), the cache service, the tokens clients hold, and, for logs, a
BullMQ queue and MongoDB.

| Component | State | Operations | What is hard | What makes it correct |
|---|---|---|---|---|
| Token lifecycle (`core/jwt`, `core/guard`, `modules/auth`) | refresh token per user and blacklist of access tokens, both in the cache; the signed tokens at clients | sign-in, refresh, sign-out, the two global guards of every route that is not public | awaits between check and store, TTL against token life, restarts, tokens without an id | signed-out tokens stay out, one valid refresh token per user, an exchanged token dead from the second after its own on |
| Cache services (`core/cache/cache.service.ts`) | keys with value and expiry, sorted sets | get, set, del, zadd, zrevrank, zrevrange | SET and EXPIRE are two Redis calls; the mock loses everything with the process | what is stored is found until its TTL, ranges are the ranking's |
| Method cache (`core/cache/cache.module.ts`) | cached results in the cache service | wrapper around `@Cache` methods | a result read before an update and stored after it | the cache converges to the table |
| Users (`modules/user`, `modules/rank`) | `user` rows, cached profiles, score ranking | read profile, change nickname, change score, page of the ranking | whole-row saves of overlapping updates, ranking and row written side by side | updates are kept, ranking and table agree, pages partition the ranking |
| Sign-up (`AuthService.signUp`) | a transaction per request, unique index on the email | look up, hash, insert, mail, commit | two sign-ups of one email, mail before commit, failing commits, an id that a client sends along | one account per email, 201 to the request that made it |
| Posts, administration (`modules/post`, `modules/admin`) | `post` rows, soft-deleted or not | create, list, read, update, soft delete, hard delete | update against delete, save of a row that is gone, a create with an id that is taken | changes by author and administrators only; a deleted post comes back only by a save that was under way |
| Catalogue (`modules/product`, `modules/category`) | `product`, `category` rows | create, list with filters, update by merge, delete | a product deleted under its update, a category under its products, rows that come and go between pages | an answered change is what finds show, what was deleted stays so, a walk through the pages misses and repeats nothing |
| Log pipeline (`modules/log`, `core/queue`) | queue, `logs` collection | report, enqueue, consume with three attempts | lost answers, stalled jobs, crashes | every log is stored or lost in the end and that is final; extra documents come from failed attempts |
| Pagination (`common/pagination`, `paginate`) | none | page arithmetic | two queries per page, changes between pages | a page, its total and its `hasNext` agree |
| Expiration strings (`parseExpirationToSeconds`) | none | seconds of a string such as "15m" | read by two parsers | both read the same life |
| Request context, logging, error filter, configuration, bootstrap, seeder, DTOs | none that requests share | | | |

How they interact: `JwtBlacklistGuard` and then `AccessTokenGuard` run before
every route that is not `@Public()`; the first reads the cache, the second the
`user` table. `AuthService` calls `JwtService`, which calls the cache service.
`UserService.getUser` is replaced at start by `CacheModule.wrapMethod`'s
wrapper. `updateScore` writes the table and, through `RankService`, the sorted
set. `cache.module.ts` wires `MockCacheService`; the Redis `CacheService` is in
the code and its wiring is commented out.

Two remarks from the survey: `ErrorInterceptor`, the only caller of the log
pipeline, is bound nowhere, and `CoreModule` imports `LogModule`, whose
repository needs a Mongoose connection, while `MongooseModule.forRoot()` is
commented out. `LogQueue` models the pipeline as it runs once the two are wired.

## 2. Modules

| Module | Models |
|---|---|
| `AuthSession` | the token lifecycle with the guards, over either cache service |
| `Expirations` | expiration strings |
| `Listings` | sorting, and the pages and totals of a listing |
| `UserProfile` | profile, cache and ranking, extends `Listings` |
| `AccountRegistry` | what sign-up promises, without how |
| `Registration` | the sign-up transaction; implements `AccountRegistry` |
| `Repository` | the generic repository: statements of save, softRemove and delete, and of a page; extends `Listings` |
| `Posts` | posts and their administration, extends `Repository` |
| `Catalogue` | categories and products with their listings, extends `Repository` |
| `LogDelivery` | what the log pipeline promises, without how |
| `LogQueue` | the log pipeline; implements `LogDelivery` |
| `AuthSessionProofs`, `UserProfileProofs`, `RegistrationProofs`, `PostsProofs`, `CatalogueProofs`, `LogQueueProofs` | theorems of the modules they are named after (`AuthSessionProofs`: of `Expirations` too) |
| `ListingsProofs`, `RepositoryProofs` | what sorting gives and how pages cut it; the arguments about answered writes and deleted rows that `PostsProofs` and `CatalogueProofs` share |
| `MCAuthSession`, `MCUserProfile`, `MCRegistration`, `MCPosts`, `MCCatalogue`, `MCLogQueue` | constants and symmetry for TLC |

An operator whose comment starts with "Mutated form" is a wrong variant of the
definition that follows it: no specification uses it. Checking a run with the
variant in the place of the definition (`mutants` in `PROJECT.json`) breaks the
property named there, which shows that the property depends on that code.

### AuthSession

`req[r]` is the place of a request between two awaits, its user and the token
it presented or is about to hand out. `running` is the request whose turn of
the event loop goes on: an awaited call of `MockCacheService` is settled in a
microtask, so no other request runs before the code after it
(`TurnAfterCache`); a call of `CacheService`, the database or bcrypt gives the
turn away. Locations and code:

| Location | Where the code stands | Left by |
|---|---|---|
| `credentials` | `validateUser` awaits database and bcrypt | `SignInIssue` |
| `rotating` | `verifyRefreshToken` has accepted the token | `RefreshIssue` |
| `storeExpiry` | `CacheService.set` of the refresh token, between SET and EXPIRE | `ExpireRefreshToken` |
| `accessGuard` | `JwtBlacklistGuard` has let the request in | `AccessTokenGuard` |
| `lookup` | `AccessTokenStrategy.validate` awaits the user | `LoadUser` |
| `handler` | the handler starts | `SignOut`, `HandleRequest` |
| `blacklisting` | `revokeRefreshToken` is done | `BlacklistToken` |
| `blacklistExpiry` | `CacheService.set` of the blacklist entry, between SET and EXPIRE | `ExpireBlacklist` |

`Refresh` and `JwtBlacklistGuard` are one action with the request's arrival,
because nothing before the cache call leaves the event loop. `Abort` stands for
a failed call and for wrong credentials: what was done stays done. `Restart`
empties the cache only where it is in memory. `issued` is what clients have: a
client may present any token at any time, an expired or an exchanged one too.
A token is a record of user, type and second, because that is all the payload
holds (`jwt.service.ts:53-75`): two tokens of a user and type signed in one
second are equal. Signature forgery is outside the model, and so is the
spelling of the authorization header: it is taken as `Bearer <token>`.
`revoked`, `signedOut` and `arrived` are history variables; no guard reads them.
`revoked` is emptied by a restart of the in-memory cache, so what is said of
signed-out tokens is said of sign-outs since then. Time is in ticks, `TicksPerSecond` to the second: the cache
compares milliseconds, jsonwebtoken whole seconds.

### UserProfile

`db` is the table, `cached` the profile entries with the ticks they have left,
`ranking` the sorted set, and `req[r]` a request between two awaits with the
row it read. `save` is TypeORM's: it selects the row again (`SaveLoad`), keeps
the columns in which the entity differs and updates these (`SaveWrite`); that
part is external and modelled from the library's documented behaviour. `Save`
changes the sorted set in the turn in which both promises are started, before
the row is written. `Zadd` filters, pushes and sorts as `zadd` does; the
new entry comes last among its equals, because `sort` is stable. A sorted list
is not computed but described (`InOrder` of `Listings`): the k-th place is for
the one who has k - 1 others before it. `expected` and `disturbed` are history. A profile's
expiry is kept as ticks left, so that the clock needs no bound. The update
handlers' unused case, a user that does not exist, changes nothing.

### Registration

`users` is the committed table, of which the email of each row is kept.
`signUp` runs in one transaction (`@Transactional()`, MySQL, REPEATABLE READ):
`FindExisting` sees committed rows, and which rows those are stays so for the
transaction (`known`); `Insert` waits for the locks of the row and of its email
in the unique index and then finds a duplicate or not, `Notify` sends the mail,
`Commit` makes the row visible and the request is answered 201. `Fail` is a
failed call, a lock wait that timed out or a deadlock that the database breaks;
at the commit it may be that only the answer was lost.

`toEntity` spreads the whole body (`signUp.body.ts:48-53`), so a body may carry
an id: `save` then makes an UPDATE of the row of that id, if the transaction sees
one, and an INSERT under that id otherwise. `AccountRegistry` therefore gives
accounts ids: a sign-up makes the account of its id, or gives it another email.
The fresh uuid of an INSERT is one of `Ids` that nobody has. `lost` is a history
variable.

The unique index is declared in `entities/user/user.entity.ts:9`; that the
production schema has it is assumed (`synchronize` is on in tests only).

### Repository, Posts, Catalogue

`db` is the table, a row per id or `None`, and `req[r]` the statement a request
awaits. `findByIdOrThrow` and the checks after it are one action with the
request's arrival (`Proceed`): a find takes effect when the database reads, and
nothing before it reads or changes anything. After it the request carries the
entity it has built and other requests run between its statements:

| Call | Statements | Actions |
|---|---|---|
| `save` of an entity that was read | SELECT by id, then UPDATE of the columns that differ, or INSERT if there is no row | `SaveLoad`, `SaveUpdate`, `SaveInsert` |
| `softRemove` | SELECT by id, then UPDATE of `deletedAt`, or nothing | `SoftRemoveLoad`, `SoftDelete` |
| `deleteById` | DELETE | `HardDelete` |
| `save` of a new entity without an id | INSERT under a fresh uuid | `InsertNew` |
| `save` of a new entity with an id that the client sent | SELECT by id, then UPDATE or INSERT | `SaveCarried`, then as for one that was read |
| `paginate` | the rows, then COUNT unless a page that is not full tells the number | `Paginate`, `Count` |

That `save` and `softRemove` select with soft-deleted rows, compare and write
only what differs, and insert what is gone, is TypeORM's behaviour and marked
external in the map; so is the order of a listing without ORDER BY, which for
these tables InnoDB reads off the primary key. `FailWrite` is a call that fails
or a process that stops, with the statement run or not. `expected`, `disturbed`,
`carried`, `removed` and `overtaken` are history variables: what the last answer
said of a row, the rows on which requests overlapped or failed, the ids that
clients sent along, the rows that a statement took out of sight, and the saves
that were under way when it did.

The validation pipe has no whitelist (`setNestApp.ts:5-12`), `toEntity` of a post
and of a product copies what the body has (`createPostBody.ts:15-20`,
`createProduct.body.ts:26-28`), and `generateUuid` leaves an id that is set
(`base.entity.ts:31-34`). Bodies therefore have, besides their declared fields,
an `id` and a `deletedAt` (`deleted`) that may be sent or not: such a create
writes to the row of that id, whoever wrote it and deleted or not
(`CreatePostAs`, `CreateProductAs`), and `merge` takes them over in an update
(`UpdateProductAs`). The bodies of categories and of `PATCH posts/:id` are taken
field by field and are not affected.

`Posts` adds owner checks, soft deletion by authors and deletion for good by
administrators, with the role read at the guard (`RolesGuard`). `Admins` does
not change while the model runs: a role is set at sign-up, as sent, or by the
seeder.

`Catalogue` puts both tables into one `db`; names of categories are unique and a
product's category is a foreign key, so a statement that breaks either is refused and
answered with a 500 (`Execute`). `merge` takes over what the body has
(`Merged`). One reader is followed page by page (`walk`): it changes nothing
that anyone else sees, and what holds of it holds of any.

### LogQueue

| `place[l]` | Where the log is | Left by |
|---|---|---|
| `adding` | `createLog` awaits the queue; the request has been answered | `Add`, `AddFails`, `Crash` |
| `waiting` | a job in line | `Take` |
| `active` | the worker awaits `LogRepository.create` | `Write`, `FailAttempt`, `Crash` |
| `written` | the document is inserted, the consumer has not returned | `Complete`, `FailAttempt`, `Crash` |
| `delayed` | back-off before the next attempt | `Promote` |
| `orphan` | a job whose worker is gone | `CheckStalled` |
| `dropped`, `completed`, `failed` | the end | |

`create` inserts and `save` after it has nothing to write, so one attempt leaves
one document, at times without the worker's knowing (`MayBeInserted`). Jobs that
stalled go before the others, retried ones behind, as BullMQ does. Redis and
MongoDB go on when the process stops. A log that the schema refuses (`TooLong`)
fails every attempt: `plainToInstance` does not know the class of the nested error,
so its message is not cut to length before it is validated.

## 3. What is checked

| Run | Instance | Shows |
|---|---|---|
| `auth_memory` | 1 user, 2 requests, 6 ticks of a third of a second, access tokens and blacklist entries of 1 second, refresh tokens of 2, 1 restart, in memory, fair | signed-out tokens rejected, before and after their entries expire; newest token stored; a sign-out leaves no refresh token before the next sign-in; accepted token still stored; every request ends |
| `auth_redis` | 1 user, 2 requests, 4 ticks of half a second, lives as in `auth_memory`, 1 restart, Redis | signed-out tokens rejected and newest token stored though every cache call yields and may fail |
| `user_updates` | 1 user, 2 requests, 3 updates, TTL 2, 1 restart, fair | answered updates are kept, ranking and table agree, where updates of a user neither overlap nor fail; the cache converges to the table |
| `user_ranking` | 3 users, 3 scores, 3 updates, pages of 1 and 2 | the set stays sorted and free of duplicates, pages partition it, ranks are places |
| `posts` | 1 post, author and administrator, 3 requests, 4 bodies, 2 of them with an id | what was answered is what finds show, where nothing overlapped or failed; a deleted post comes back only by a save that was under way; only authors and administrators touch a post, unless a create brings its id along |
| `catalogue` | 2 categories that ask for one name, 2 products, 3 bodies of products, 2 writing and 1 reading client, pages of 1 and 2 | what was answered is what finds show, where nothing overlapped or failed; a deleted row comes back only by a save that was under way; pages and totals agree; a walk misses and repeats nothing |
| `log_queue` | 3 logs, one of which is too long, 2 attempts, 1 stall, 2 crashes, fair | documents are explained, completed jobs are stored, first attempts keep their order, `LogDelivery` with its liveness |
| `sign_ups` | 2 emails, 3 ids, 2 requests with and without an id, 1 failure, 1 restart, fair | sign-up implements `AccountRegistry`; mails go to those who get accounts; every sign-up ends, waiting ones as well |

Bounds. Two requests are the least that interleave, three the least in which an
overlap meets a third party. A second has two ticks or three and tokens live one
second or two, so that an entry can be too short-lived by less than a second, and
tokens and entries expire within the run: an access token signed in the first
tick has ended after `TicksPerSecond` ticks, and its entry no later than a second
after the sign-out. Tokens, store, profiles and updates are per user and no step
reads another user's, so one user is enough where the property is about one; the
theorems below hold for any number of users. Three updates are the least with an
overlap followed by an update of its own. Three users with three scores give ties
and every order. `MaxTime`, `MaxRestarts`, `MaxUpdates`, `MaxFailures` and
`MaxCrashes` stand in the guards of `Tick`, `Restart`, `Update`, `Fail` and
`Crash`.

In `sign_ups` the three ids are one for a row from before and one for the row of
each request; two requests are one that holds a lock and one that waits for it,
or two that race for an email or an id (190 715 states). That more may wait is
left to the theorem; that each of them gets the lock is InnoDB's order of waiters.

Rows are independent in `Posts`, so one post is enough, and three requests are
two saves that mix columns and a deletion between them (960 305 states up to
symmetry); `Posts` needs no bound. In `catalogue` the second category is what the
unique name and the foreign key are tested with, and two products make two pages
of one row and a last page that is full. Two requests that write overlap, so that
a product is deleted under its update and inserted again. To walk through pages at
the same time would take too many states, so the run has one more bound, the
constraint `DisturbsOneRowBeforeReads` of `MCCatalogue`: overlaps, failures and ids
sent along meet one row at a time and are over before the client begins to read;
from then on requests write one after the other, rows of their own (264 795
states). What the client reads depends on the rows alone and not on who wrote
them, and rows join, change and leave between any two of its queries all the same.

In `log_queue` two attempts instead of
the code's three have a first, a repeated and a last one; two crashes use up a
stall and go beyond it (204 073 states; with three attempts the same run takes
six times as long and finds the same). Deadlock is checked in every run but
`log_queue`, where the system stops when every log has its fate.

### Where code and documentation disagree

Each of these runs ends in a violation of one property that states what a
comment, test or API description says:

- `auth_same_second`: a valid token reaches protected routes
  (`test/e2e/auth.e2d-spec.ts:137`), but a sign-out and sign-in within the
  second of the sign-in give the blacklisted token again.
- `user_nickname_score`: `PATCH users/me` changes the nickname only
  (`user.controller.ts:84`); meeting a score update it writes the old score back.
- `sign_up_race`: an email that exists is answered 409
  (`auth.controller.ts:72`); the loser of a race is answered 500.
- `post_revived`: a post deleted by an administrator is deleted
  (`admin.controller.ts:32`); an update that had read it before inserts it again.

Some smaller disagreements met on the way have no run, because they show at
once: the comment "add user to blacklist" (`jwt.service.ts:147`) stands over
code that blacklists the one access token it is given; sign-out invalidates the
token (`auth.controller.ts:151`) until a restart empties the in-memory
blacklist; pages of the ranking are to be sorted by score
(`user.controller.ts:29`) but their rows come in the order of the primary key;
posts are to be listed newest first (`post.controller.ts:42`) but the query has
no order; a post is changed by its author only (`post.controller.ts:99`) but `POST
posts` with the id of a post saves to it, and whoever sent it becomes its owner; a
price bound of 0 passes validation (`getProducts.query.ts:13-19`) but is taken for
no bound (`product.repository.ts:27-33`). The models do what the code does in each case.

### Fairness

`AuthSession`: strong fairness of every request's next step or abort. The step
of a request is disabled again and again while others hold the turn; the event
loop's poll phase takes every answer that has arrived, so a request that could
go on infinitely often does. `UserProfile`: weak fairness of every request's
next step or failure (a database call answers or fails, and nothing disables
it) and of the clock; nothing forces a client to do anything. `Registration`:
strong fairness of every request's next step; only `Insert` can be disabled, by
the lock, which InnoDB grants in the order of the waiters. `LogQueue`: weak
fairness of the worker (BullMQ's worker loop takes the next job and each of its
calls is answered or fails), of `Add` or `AddFails`, and of `Promote` and
`CheckStalled`, which are Redis's delays and locks running out. `Report` and
`Crash` are not fair: no request has to fail. `Posts` and `Catalogue` have no
liveness property: each of their requests is a bounded series of statements.

## 4. What is proved

For every value of the constants that satisfies the assumptions (in
`AuthSession`: at least one tick a second, positive lives, and a blacklist TTL
no shorter than the access token's life, which strings such as "15m", "2h" and
"7d" give, by the theorem `UnitsAgree`; in the other modules: that `None` is not
a member of what it stands apart from, that ids, prices and scores are natural
numbers, page numbers and lengths positive, the first page among those asked for,
ids finitely many, bodies and filters well formed, administrators users, and that
there is at least one attempt).

- `TypeCorrect`: `Spec => []TypeOK`. `TypeOK` is not inductive: `StorePair` and
  `SignOut` index the store by the user of a request, so `RequestShape` (a
  request past its arrival has a user, past the credentials a token of that
  user) is added.
- `SignOutRevokes`: `Spec => []SignedOutTokenRejected`, either cache. A request
  with a revoked token may pass the blacklist guard, when the entry has just
  expired, and must then fail at the second guard. `RevokedAreCovered` says
  that a signed-out token is past its life or has an entry whose expiry is no
  earlier than the end of that life, counted in ticks from the second the token
  was signed in; `NoTokenFromTheFuture` gives the comparison of the sign-out's
  clock with that second; `RevokedAreStopped` says that a request with a revoked
  token stands between the guards only with a token past its life. The
  arithmetic is in `SecIsBelow`, `SecReaches` and `SecShift`.
- `MemorySessions`, `MemoryExchange`: with the in-memory cache,
  `SignedOutUserHasNoRefreshToken` and `AcceptedTokenIsStillStored`: a refresh
  replaces the very token it has checked, and two refreshes of a user do not
  overlap. That no token *string* is exchanged twice does not follow and is not
  so: within the second of its signing the successor is the same string. The invariant `TurnIsHeld` says that a
  request between two cache calls holds the turn, so no other request steps.
  The assumption is needed: with the Redis service a refresh that has passed its
  check stores a new token after a sign-out, and `SignedOutUserHasNoRefreshToken`
  added to `AuthRedis.cfg` is violated.
- `NewestIsStored`: `Spec => []StoredTokenIsNewest`, either cache: the stored
  token is of the latest second of those handed out, so an exchanged token is
  dead from the second after its own on, and not before. The proof works with
  `PendingPairIsNotNewer` for the tokens that Redis has stored and that are not
  answered yet.
- `RegistrationImplements`: `Spec => SignUpIsAtomic`, that is `Registration`
  implements `AccountRegistry` under the mapping that forgets where a request
  stands. `HoldersAreAlone` is the invariant: between insert and commit a
  transaction is alone with its email and its id, and no other row has the email;
  with `Unique(users)` it makes every commit, and every set of commits that get in
  while the process stops, one that leaves no email with two accounts.
- `WelcomeFollowsInsert`: `Spec => []WelcomedAreRegistered`. The two ways in which
  a mail may have gone to somebody without an account, a transaction that ends badly
  after it and an account that a later sign-up gives to another email, are kept in
  `lost`; there is no third.
- `RegistrationTypes`: `Spec => []TypeOK`, a part of the same invariant.
- `UpdatesKept`: `Spec => []UpdatesAreKept`. `UpdatesInv` says that the entity of
  an update that is alone with its user is the row with the one column changed
  (`InFlight`), and its columns to write are those that differ. An overlap makes
  the user `disturbed`, so only a request that is alone (`UpdateAlone`) has to
  meet it; a write then leaves exactly what was asked for.
- `RankingSorted`: `Spec => []RankingIsSorted`. `ZaddSorts` shows that dropping
  the user's entry, pushing the new one and sorting keep a list sorted and free of
  duplicates, and that its entries are the new one and the old ones of others
  (`InOrderLists`: every member of an ordered finite set has its place, the
  earlier before the later).
- `RanksArePages`, `PagesAreRanking`: `Spec => []RanksArePositions` and `Spec =>
  []PagesMakeUpRanking`, for rankings and pages of any length: in a list without
  duplicates the place found is the one searched for (`Ranks`), and consecutive
  offsets leave no gap (`PagesAdjoin`).
- `RankingFitsTable`: `Spec => []RankingShowsScores`. Between `Save` and
  `SaveWrite` the ranking is ahead of the table, so `ScoresInv` says of an entry
  whose user is undisturbed that it has the score of the row, or that of the
  entity of the one request that is about to write it; `UpdatesInv` tells that
  this write leaves the entity's score.
- `UserProfileTypes`: `Spec => []TypeOK`, with what requests carry while they
  await a row or a page (`TypeInv`).
- `AuthorsKeepTheirPosts`: `Spec => OnlyAuthorsAndAdmins`, of posts whose id no
  create has brought along. The owner was compared with a row read earlier than
  the one that is written, so `PostsInv` carries the comparison along: who wrote a
  post stays its owner (`OwnersAreAuthors`), and a write in flight is its author's
  or an administrator's deletion, of an id no new post can take
  (`WritesAreAllowed`).
- `DeletedPostsStay`, `DeletedRowsStay` (catalogue): `Spec => DeletedStaysDeleted`,
  of rows whose id no body has brought along. `DeletedInv` says that whoever is
  about to save a deleted row was under way when it was deleted: every other save
  begins with a find, and a find does not see it. What such a save does to the
  deletion is the violation that `post_revived` shows.
- `AnswersAreShown` (posts), `ChangesAreShown` (catalogue): `Spec =>
  []AnsweredIsShown`. `ShownInv` says that a row that is not disturbed either is
  what the last answer about it said, or has a single request at work, which does
  to the row it read what it was asked (`AsAsked`) and answers that.
  `RepositoryProofs` has one lemma for each statement, from `WritesFit`, which
  each of the two modules' invariants implies. Of the services it has to be shown
  that the entity they build is the one asked for: in the catalogue because all
  declared fields of an update are required, so that `merge` leaves nothing of the
  old row (`RowTyped`).
- `PostTypes`, `CatalogueTypes`: `Spec => []TypeOK`.
- `WalksMissNothing`, `WalksRepeatNothing`, `ListingsAgree`: `Spec =>
  []WalkMissesNothing` and so on, for any listing, page length and number of rows
  that come and go between two pages. None of the three is inductive: what the
  client has seen has to be related to where the rows it has not seen stand now.
  `WalkFits` does, by `Place`, the number of rows before a row: as long as no row
  left, the rows of the first listing that were not seen lie behind the page
  read last; as long as none joined, those that were seen lie before its end.
  Rows that join push others behind and rows that leave let them move up
  (`WalkChanges`, from `PlacesGrow`), and the next page takes exactly the places
  that follow (`WalkPages`, from `PageHolds`). `CountFits` carries what a page
  that is not full has told (`PageTells`) up to the answer.
- `LogTypes`, `DocumentsExplained`, `CompletedStored`: invariants of `LogQueue`
  for any number of attempts, stalls and crashes. `LogQueueInv` adds that jobs
  in line wait and stand there once (`InLine`), without which the worker could
  take a job that is done.
- `FateIsFinal`: `Spec => Delivery!Spec`, that is `LogQueue` implements
  `LogDelivery`, its liveness aside, under the mapping that shows what MongoDB has.
- `OrderIsKept`: `Spec => []FirstTriesInOrder`. `OrderInv` relates the line to
  the order in which the queue took the jobs: while the first attempt at a log is
  to come or under way, the logs taken later wait untouched, behind it
  (`LaterWait`); what fails or stalls shows it in its counters (`PlacesTell`).
- `NextPageBegins`, `PagesAdjoin`: `hasNext`, which rounds up a quotient, says the
  same as the next offset, and pages follow one another without gap or overlap.
- `UnitsAgree`, `FractionsAreLost`: `parseExpirationToSeconds` agrees with
  jsonwebtoken on whole seconds, minutes, hours and days, and never gives more
  with a fraction. Fewer it may: "1.5h" blacklists a token for an hour, and any
  other unit, such as "ms" or "w", is read by its last letter alone.

Every invariant that a run checks, and every action and refinement property but
for its liveness, is a theorem. TLC has checked each inductive invariant on the
instance of its run before. Model-checked only: the liveness properties
`EveryRequestEnds`, `CacheConverges`, `EverySignUpEnds` and the liveness part of
`LogsAreDelivered` (fairness and ENABLED are out of the prover's reach), and the
four violations. No definition that a theorem rests on is recursive; sorting is
described by the number of predecessors for that reason.

## 5. What is not modelled

- Logging and request ids, configuration, bootstrap, Swagger, module wiring: no
  state that requests share. DTO validation: bodies pass it. Of the fields a
  body may have beyond the declared ones, `id` (posts, products, sign-up) and
  `deletedAt` (posts, products) are modelled, as they decide which row is written
  and whether it shows; `createdAt` and the like are not, nor are related entities
  in a body, nor a `deletedAt` at sign-up.
- What a sign-up with the id of a user does to that user's row is modelled in
  `Registration` only: `AuthSession`, `UserProfile` and `Posts` take users, their
  rows and their roles as sign-ups with declared fields leave them.
- What is said of answered changes, of authors and of deleted rows is said of ids
  that no client has sent along (`carried`); the properties exempt the others, and the code promises nothing of them.
- The seeder (a script run by hand), test helpers, the generated coverage report.
- Cookies: a client may present any refresh token it was given. Signature
  forgery and the spelling of the authorization header.
- `MockCacheService.set` without TTL, which no caller modelled reaches; the error
  branches of the method cache, as `MockCacheService` does not throw.
- Finders of the generic repository that no service calls, and
  `deleteAllForTest`. Reads of one row (`GET posts/:postId`, one product, one
  category, one user) change nothing. The `User` in the answer of a post is
  always null, as the relation's join column is `UserId` and the row has `userId`.
- Fractional scores: the DTO takes a number, the column an int.
- The removal of finished jobs from the queue (`removeOnComplete`,
  `removeOnFail`), and a worker that loses its lock while it goes on.
- The database's own concurrency below the statement: a statement is atomic, and
  the transaction of sign-up sees what REPEATABLE READ shows it.

## 6. Plan

Done: `AuthSession`, `UserProfile`, `Registration`, `Posts`, `Catalogue`,
`LogQueue`, pages and expiration strings, with a theorem for every safety
property. Left, in order
of importance:

1. `CacheStore`: an abstract key-value store with expiry; `MockCacheService`
   and `CacheService` as two implementations, where they differ shown by a run.
2. The composition of guards, roles and handlers into one request pipeline.
3. Fractional scores in `UserProfile`: the table rounds, the ranking does not.
