----------------------------- MODULE Registration -----------------------------
(***************************************************************************)
(* POST auth/sign-up: AuthService.signUp inside one @Transactional         *)
(* transaction of the database.  It looks the email up, hashes the         *)
(* password, saves the row, sends the welcome mail and commits.  The look  *)
(* up and the save are apart: what keeps two requests from registering one *)
(* email is the unique index on user.email, whose lock a second save waits *)
(* for until the first transaction ends.                                   *)
(*                                                                         *)
(* toEntity spreads the whole body and the pipe has no whitelist: with an  *)
(* id that a client sends along, save writes to the row of that id, if     *)
(* there is one.  Of other fields that are not declared a deletedAt is     *)
(* left out here; role, score and the like are taken as sent, and no       *)
(* property of this module is about them.                                  *)
(***************************************************************************)
EXTENDS Naturals

CONSTANTS
    Emails,      \* email addresses
    Ids,         \* ids of users
    Bodies,      \* the bodies clients send
    Reqs,        \* slots for requests the process handles at a time
    None,        \* model value: no email, no id, no answer
    MaxFailures, \* bound on the failures of backend calls
    MaxRestarts  \* bound on the restarts of the process

ASSUME NoneAssumption == None \notin Emails \cup Ids \cup {"created", "conflict", "error"}
ASSUME BodyAssumption == Bodies \subseteq [email : Emails, id : Ids \cup {None}]

VARIABLES
    users,    \* the email in the committed row of each id, or None
    req,      \* what each request has done so far
    answer,   \* the last answer of each slot, or None
    mailed,   \* emails that were sent a welcome mail
    lost,     \* history: emails whose transaction ended badly after the mail, and
              \* emails whose row a sign-up with its id gave to another email
    failures, \* failures so far
    restarts  \* restarts so far

vars == <<users, req, answer, mailed, lost, failures, restarts>>
bounds == <<failures, restarts>>

Locations == {"find", "hash", "insert", "notify", "commit"}
Request == [pc : Locations, email : Emails, id : Ids, known : BOOLEAN]
Answers == {"created", "conflict", "error"}
Idle == [pc |-> "idle", email |-> None, id |-> None, known |-> FALSE]

Registered == {users[id] : id \in Ids} \ {None}

\* Emails that have an account and lose it in this step.
Ousted == Registered \ Registered'

Goto(r, pc) == req' = [req EXCEPT ![r].pc = pc]

\* Mutated form: the slot keeps the email of the request it has answered.
AnswerKeepingEmail(r, a) == Goto(r, "idle") /\ answer' = [answer EXCEPT ![r] = a]

Answer(r, a) == req' = [req EXCEPT ![r] = Idle] /\ answer' = [answer EXCEPT ![r] = a]

\* A transaction that has written its row and has not ended holds the lock of
\* the row, and those of the emails it has before and after in the unique index.
Holds(r) == req[r].pc \in {"notify", "commit"}
Locked(r) ==
    \E s \in Reqs : /\ Holds(s)
                    /\ \/ req[s].id = req[r].id
                       \/ req[r].email \in {req[s].email, users[req[s].id]}

Unique(table) ==
    \A i, j \in Ids : i # j /\ table[i] # None => table[i] # table[j]

\* The table may hold users from before, the seeder's for instance.
Init ==
    /\ users \in {table \in [Ids -> Emails \cup {None}] : Unique(table)}
    /\ req = [r \in Reqs |-> Idle]
    /\ answer = [r \in Reqs |-> None]
    /\ mailed = {} /\ lost = {}
    /\ failures = 0 /\ restarts = 0

\* The id is the one sent along, or a uuid that nobody has (bound: one of Ids).
SignUp(r, body, id) ==
    /\ req[r] = Idle
    /\ IF body.id # None THEN id = body.id
       ELSE users[id] = None /\ \A s \in Reqs : req[s].id # id
    /\ req' = [req EXCEPT ![r] =
           [pc |-> "find", email |-> body.email, id |-> id, known |-> FALSE]]
    /\ answer' = [answer EXCEPT ![r] = None]
    /\ UNCHANGED <<users, mailed, lost, bounds>>

\* findOneByFilters sees committed rows only; ConflictException rolls back.  The
\* rows that are there now are those that the transaction goes on to see.
FindExisting(r) ==
    /\ req[r].pc = "find"
    /\ IF req[r].email \in Registered THEN Answer(r, "conflict")
       ELSE /\ req' = [req EXCEPT ![r].pc = "hash", ![r].known = users[req[r].id] # None]
            /\ UNCHANGED answer
    /\ UNCHANGED <<users, mailed, lost, bounds>>

\* Mutated form: the mail goes out before the row is inserted.
HashAndNotify(r) ==
    /\ req[r].pc = "hash"
    /\ Goto(r, "insert")
    /\ mailed' = mailed \cup {req[r].email}
    /\ UNCHANGED <<users, answer, lost, bounds>>

Hash(r) ==
    /\ req[r].pc = "hash"
    /\ Goto(r, "insert")
    /\ UNCHANGED <<users, answer, mailed, lost, bounds>>

\* Mutated form: user.email has no unique index.
InsertUnchecked(r) ==
    /\ req[r].pc = "insert"
    /\ Goto(r, "notify")
    /\ UNCHANGED <<users, answer, mailed, lost, bounds>>

\* save makes an INSERT, or an UPDATE of the row the transaction sees under the
\* id.  It waits for the locks (a deadlock that the database breaks is a
\* failure).  A duplicate of an email or an id is a QueryFailedError, which
\* nothing turns into a ConflictException: ErrorFilter answers 500.
Insert(r) ==
    /\ req[r].pc = "insert"
    /\ ~Locked(r)
    /\ IF \/ \E id \in Ids \ {req[r].id} : users[id] = req[r].email
          \/ ~req[r].known /\ users[req[r].id] # None
       THEN Answer(r, "error")
       ELSE Goto(r, "notify") /\ UNCHANGED answer
    /\ UNCHANGED <<users, mailed, lost, bounds>>

\* Mutated form: the promise of the notification is never resolved.
NotifyUnresolved(r) ==
    /\ req[r].pc = "notify"
    /\ mailed' = mailed \cup {req[r].email}
    /\ UNCHANGED <<users, req, answer, lost, bounds>>

\* sendWelcomeNotification logs, waits on a timer and does not fail.
Notify(r) ==
    /\ req[r].pc = "notify"
    /\ mailed' = mailed \cup {req[r].email}
    /\ Goto(r, "commit")
    /\ UNCHANGED <<users, answer, lost, bounds>>

Commit(r) ==
    /\ req[r].pc = "commit"
    /\ users' = [users EXCEPT ![req[r].id] = req[r].email]
    /\ Answer(r, "created")
    /\ lost' = lost \cup Ousted
    /\ UNCHANGED <<mailed, bounds>>

\* A database call or bcrypt fails, or the wait for the lock times out: the
\* transaction is rolled back and ErrorFilter answers 500.  A commit whose
\* answer is lost may have been applied.
Fail(r) ==
    /\ failures < MaxFailures
    /\ failures' = failures + 1
    /\ req[r].pc \in {"find", "hash", "insert", "commit"}
    /\ IF req[r].pc = "commit"
       THEN /\ users' \in {users, [users EXCEPT ![req[r].id] = req[r].email]}
            /\ lost' = lost \cup Ousted \cup {req[r].email}
       ELSE UNCHANGED <<users, lost>>
    /\ Answer(r, "error")
    /\ UNCHANGED <<mailed, restarts>>

\* The database rolls open transactions back; commits on their way may get in.
Restart ==
    /\ restarts < MaxRestarts
    /\ restarts' = restarts + 1
    /\ LET committing == {r \in Reqs : req[r].pc = "commit"}
           after(id) == {users[id]} \cup {req[r].email : r \in {s \in committing : req[s].id = id}}
       IN  /\ users' \in {table \in [Ids -> Emails \cup {None}] : \A id \in Ids : table[id] \in after(id)}
           /\ lost' = lost \cup Ousted \cup {req[r].email : r \in committing}
    /\ req' = [r \in Reqs |-> Idle]
    /\ answer' = [r \in Reqs |-> None]
    /\ UNCHANGED <<mailed, failures>>

-----------------------------------------------------------------------------
Continue(r) ==
    \/ FindExisting(r) \/ Hash(r) \/ Insert(r) \/ Notify(r) \/ Commit(r)

Next ==
    \/ \E r \in Reqs :
          \/ \E body \in Bodies, id \in Ids : SignUp(r, body, id)
          \/ Continue(r)
          \/ Fail(r)
    \/ Restart

Spec == Init /\ [][Next]_vars

\* Every backend call answers, and the database grants a lock that becomes
\* free again and again to everyone who keeps waiting for it.
FairSpec == Spec /\ \A r \in Reqs : SF_vars(Continue(r))

-----------------------------------------------------------------------------
(* Properties *)

\* Every variable keeps its shape.
TypeOK ==
    /\ users \in [Ids -> Emails \cup {None}]
    /\ req \in [Reqs -> Request \cup {Idle}]
    /\ answer \in [Reqs -> Answers \cup {None}]
    /\ mailed \subseteq Emails /\ lost \subseteq Emails
    /\ failures \in Nat /\ restarts \in Nat

\* Sign-up does what AccountRegistry promises: one moment at which the account
\* of the request's id gets an email that no other account has, and 201 for the
\* request that made it only.
Registry == INSTANCE AccountRegistry WITH
    accounts <- users, want <- [r \in Reqs |-> [email |-> req[r].email, id |-> req[r].id]]
SignUpIsAtomic == Registry!Spec

\* Whoever was sent a welcome mail has an account, has the commit of it under
\* way, is one whose transaction failed after the mail had gone out, or one whose
\* account went to the email of another sign-up that sent its id along.
WelcomedAreRegistered ==
    \A e \in mailed : \/ e \in Registered \cup lost
                     \/ \E r \in Reqs : req[r].pc = "commit" /\ req[r].email = e

\* Every sign-up is answered or cut off, those that wait for a lock as well.
EverySignUpEnds ==
    \A r \in Reqs : req[r].pc # "idle" ~> req[r].pc = "idle"

-----------------------------------------------------------------------------
(* What the documentation says and the code does not do *)

\* An email that exists already is answered with 409 (auth.controller.ts:72):
\* where no backend call fails, no sign-up ends with 500.
DuplicateIsConflict ==
    failures = 0 => \A r \in Reqs : answer[r] # "error"

-----------------------------------------------------------------------------
(* The inductive invariant *)

\* A transaction that has written its row is the only one of its email and of
\* its id, and no other row has the email.
HoldersAreAlone ==
    \A r \in Reqs : Holds(r) =>
        /\ \A id \in Ids \ {req[r].id} : users[id] # req[r].email
        /\ \A s \in Reqs \ {r} :
              Holds(s) => req[s].email # req[r].email /\ req[s].id # req[r].id

RegistrationInv == TypeOK /\ Unique(users) /\ HoldersAreAlone

=============================================================================
