-------------------------- MODULE RegistrationProofs --------------------------
(***************************************************************************)
(* Sign-up implements AccountRegistry.  What makes the mapping work is that*)
(* a transaction between its insert and its commit is alone with its email *)
(* and with its id, and that no other row has the email: the commit is     *)
(* then the moment at which the account of the id gets an email that no    *)
(* other account has.                                                      *)
(***************************************************************************)
EXTENDS Registration, TLAPS

\* What the type invariant says of one request.
LEMMA RequestParts ==
  ASSUME TypeOK, NEW r \in Reqs
  PROVE  /\ req[r].pc # "idle" =>
              /\ req[r] \in Request /\ req[r].pc \in Locations
              /\ req[r].email \in Emails /\ req[r].id \in Ids
         /\ req[r].pc = "idle" => req[r] = Idle
  BY DEF TypeOK, Request, Idle, Locations

\* Moving a request on changes its place and nothing else.
LEMMA GotoMoves ==
  ASSUME TypeOK, NEW r \in Reqs, NEW pc, Goto(r, pc), NEW s \in Reqs
  PROVE  /\ req'[s].pc = IF s = r THEN pc ELSE req[s].pc
         /\ req'[s].email = req[s].email
         /\ req'[s].id = req[s].id
  BY DEF TypeOK, Request, Idle, Goto

\* Answering a request frees its slot and touches no other.
LEMMA AnswerFrees ==
  ASSUME TypeOK, NEW r \in Reqs, NEW a, Answer(r, a), NEW s \in Reqs
  PROVE  req'[s] = IF s = r THEN Idle ELSE req[s]
  BY DEF TypeOK, Answer

\* Looking the email up moves the request on, or answers it with a conflict.
LEMMA FindMoves ==
  ASSUME TypeOK, NEW r \in Reqs, FindExisting(r)
  PROVE  /\ req[r].pc = "find"
         /\ req' \in [Reqs -> Request \cup {Idle}]
         /\ \/ /\ req[r].email \in Registered
               /\ Answer(r, "conflict")
            \/ /\ UNCHANGED answer
               /\ \A s \in Reqs : /\ req'[s].pc = IF s = r THEN "hash" ELSE req[s].pc
                                  /\ req'[s].email = req[s].email
                                  /\ req'[s].id = req[s].id
<1>1. req[r].pc = "find" /\ req[r] \in Request
  BY RequestParts DEF FindExisting
<1>2. CASE req[r].email \in Registered
  <2>1. Answer(r, "conflict")
    BY <1>2 DEF FindExisting
  <2> QED BY <1>1, <1>2, <2>1 DEF Answer, TypeOK
<1>3. CASE req[r].email \notin Registered
  <2>1. /\ req' = [req EXCEPT ![r].pc = "hash", ![r].known = users[req[r].id] # None]
        /\ UNCHANGED answer
    BY <1>3 DEF FindExisting
  <2> DEFINE next(q, k) == [[q EXCEPT !.pc = "hash"] EXCEPT !.known = k]
             new == next(req[r], users[req[r].id] # None)
  <2>2. \A q \in Request, k \in BOOLEAN :
           /\ next(q, k) \in Request /\ next(q, k).pc = "hash"
           /\ next(q, k).email = q.email /\ next(q, k).id = q.id
    BY DEF Request, Locations
  <2>3. req' = [req EXCEPT ![r] = new]
    BY <1>1, <2>1 DEF TypeOK
  <2>4. new \in Request /\ new.pc = "hash" /\ new.email = req[r].email /\ new.id = req[r].id
    BY <1>1, <2>2
  <2> HIDE DEF new
  <2> QED BY <1>1, <2>1, <2>3, <2>4 DEF TypeOK
<1> QED BY <1>2, <1>3

\* Moving a request on keeps the types.
LEMMA GotoTypes ==
  ASSUME TypeOK, NEW r \in Reqs, NEW pc \in Locations, req[r].pc # "idle", Goto(r, pc)
  PROVE  req' \in [Reqs -> Request \cup {Idle}]
<1>1. req[r] \in Request
  BY RequestParts
<1>2. [req[r] EXCEPT !.pc = pc] \in Request
  BY <1>1 DEF Request
<1> QED BY <1>2 DEF TypeOK, Goto

\* Answering a request keeps the types.
LEMMA AnswerTypes ==
  ASSUME TypeOK, NEW r \in Reqs, NEW a \in Answers, Answer(r, a)
  PROVE  /\ req' \in [Reqs -> Request \cup {Idle}]
         /\ answer' \in [Reqs -> Answers \cup {None}]
  BY DEF TypeOK, Answer

\* The emails that lose their account are emails.
LEMMA OustedTypes == TypeOK => Ousted \subseteq Emails
  BY DEF TypeOK, Ousted, Registered

\* A step keeps the types.
LEMMA NextTypes == TypeOK /\ [Next]_vars => TypeOK'
<1> SUFFICES ASSUME TypeOK, [Next]_vars PROVE TypeOK'
  OBVIOUS
<1>1. ASSUME NEW r \in Reqs, NEW body \in Bodies, NEW id \in Ids, SignUp(r, body, id)
      PROVE  TypeOK'
  <2>1. [pc |-> "find", email |-> body.email, id |-> id, known |-> FALSE] \in Request
    BY BodyAssumption DEF Request, Locations
  <2> QED BY <1>1, <2>1 DEF SignUp, TypeOK, bounds
<1>2. ASSUME NEW r \in Reqs, FindExisting(r) PROVE TypeOK'
  BY <1>2, FindMoves, AnswerTypes DEF FindExisting, TypeOK, Answers, bounds
<1>3. ASSUME NEW r \in Reqs, Hash(r) PROVE TypeOK'
  BY <1>3, GotoTypes DEF Hash, TypeOK, Locations, bounds
<1>4. ASSUME NEW r \in Reqs, Insert(r) PROVE TypeOK'
  BY <1>4, GotoTypes, AnswerTypes DEF Insert, TypeOK, Locations, Answers, bounds
<1>5. ASSUME NEW r \in Reqs, Notify(r) PROVE TypeOK'
  BY <1>5, GotoTypes, RequestParts DEF Notify, TypeOK, Locations, bounds
<1>6. ASSUME NEW r \in Reqs, Commit(r) PROVE TypeOK'
  BY <1>6, AnswerTypes, RequestParts, OustedTypes DEF Commit, TypeOK, Answers, bounds
<1>7. ASSUME NEW r \in Reqs, Fail(r) PROVE TypeOK'
  <2>1. users' \in [Ids -> Emails \cup {None}] /\ lost' \subseteq Emails
    BY <1>7, RequestParts, OustedTypes DEF Fail, TypeOK
  <2> QED BY <1>7, <2>1, AnswerTypes DEF Fail, TypeOK, Answers
<1>8. ASSUME Restart PROVE TypeOK'
  <2>1. {req[s].email : s \in {t \in Reqs : req[t].pc = "commit"}} \subseteq Emails
    BY RequestParts
  <2>2. users' \in [Ids -> Emails \cup {None}] /\ lost' \subseteq Emails
    BY <1>8, <2>1, OustedTypes DEF Restart, TypeOK
  <2> QED BY <1>8, <2>2 DEF Restart, TypeOK
<1>9. CASE UNCHANGED vars
  BY <1>9 DEF vars, TypeOK
<1> QED BY <1>1, <1>2, <1>3, <1>4, <1>5, <1>6, <1>7, <1>8, <1>9 DEF Next, Continue

-----------------------------------------------------------------------------
(* Transactions past their insert are alone *)

\* What a commit leaves in the table: the row of the id has the email now.
LEMMA CommitWrites ==
  ASSUME TypeOK, NEW r \in Reqs, req[r].pc = "commit",
         users' = [users EXCEPT ![req[r].id] = req[r].email], NEW id \in Ids
  PROVE  users'[id] = IF id = req[r].id THEN req[r].email ELSE users[id]
  BY DEF TypeOK

\* A commit that gets in leaves no email with two accounts, and the
\* transactions that have not ended alone.
LEMMA CommitKeepsAlone ==
  ASSUME TypeOK, Unique(users), HoldersAreAlone, NEW r \in Reqs, req[r].pc = "commit",
         users' \in {users, [users EXCEPT ![req[r].id] = req[r].email]},
         NEW a, Answer(r, a)
  PROVE  Unique(users') /\ HoldersAreAlone'
<1>1. \A s \in Reqs : req'[s] = IF s = r THEN Idle ELSE req[s]
  BY AnswerFrees
<1>2. CASE users' = users
  BY <1>1, <1>2 DEF Unique, HoldersAreAlone, Holds, Idle
<1>3. CASE users' = [users EXCEPT ![req[r].id] = req[r].email]
  <2>1. \A id \in Ids : users'[id] = IF id = req[r].id THEN req[r].email ELSE users[id]
    BY <1>3, CommitWrites
  <2>2. /\ \A id \in Ids \ {req[r].id} : users[id] # req[r].email
        /\ \A s \in Reqs \ {r} :
              Holds(s) => req[s].email # req[r].email /\ req[s].id # req[r].id
    BY DEF HoldersAreAlone, Holds
  <2>3. Unique(users')
    BY <2>1, <2>2 DEF Unique
  <2>4. HoldersAreAlone'
    BY <1>1, <2>1, <2>2 DEF HoldersAreAlone, Holds, Idle
  <2> QED BY <2>3, <2>4
<1> QED BY <1>2, <1>3

\* Where the table stays and every transaction past its insert was there
\* before, nothing changes.
LEMMA StayAlone ==
  ASSUME Unique(users), HoldersAreAlone, users' = users,
         \A s \in Reqs : Holds(s)' => /\ Holds(s)
                                      /\ req'[s].email = req[s].email /\ req'[s].id = req[s].id
  PROVE  Unique(users') /\ HoldersAreAlone'
  BY DEF HoldersAreAlone

\* A step keeps the emails of the table apart, and every transaction past its
\* insert alone with its email and its id.
LEMMA NextAlone == RegistrationInv /\ [Next]_vars => Unique(users') /\ HoldersAreAlone'
<1> SUFFICES ASSUME TypeOK, Unique(users), HoldersAreAlone, [Next]_vars
             PROVE  Unique(users') /\ HoldersAreAlone'
  BY DEF RegistrationInv
<1> USE DEF Holds
<1>1. ASSUME NEW r \in Reqs, NEW body \in Bodies, NEW id \in Ids, SignUp(r, body, id)
      PROVE  Unique(users') /\ HoldersAreAlone'
  BY <1>1, StayAlone DEF SignUp, TypeOK
<1>2. ASSUME NEW r \in Reqs, FindExisting(r) PROVE Unique(users') /\ HoldersAreAlone'
  <2>1. users' = users
    BY <1>2 DEF FindExisting
  <2>2. \A s \in Reqs : Holds(s)' => /\ Holds(s)
                                     /\ req'[s].email = req[s].email /\ req'[s].id = req[s].id
    BY <1>2, FindMoves, AnswerFrees DEF Idle
  <2> QED BY <2>1, <2>2, StayAlone
<1>3. ASSUME NEW r \in Reqs, Hash(r) PROVE Unique(users') /\ HoldersAreAlone'
  BY <1>3, GotoMoves, StayAlone DEF Hash
<1>4. ASSUME NEW r \in Reqs, Insert(r) PROVE Unique(users') /\ HoldersAreAlone'
  <2> DEFINE duplicate == \/ \E id \in Ids \ {req[r].id} : users[id] = req[r].email
                          \/ ~req[r].known /\ users[req[r].id] # None
  <2>1. CASE duplicate
    <3>1. Answer(r, "error") /\ users' = users
      BY <1>4, <2>1 DEF Insert
    <3> QED BY <3>1, AnswerFrees, StayAlone DEF Idle
  <2>2. CASE ~duplicate
    <3>1. Goto(r, "notify") /\ users' = users /\ ~Locked(r)
      BY <1>4, <2>2 DEF Insert
    <3>2. \A id \in Ids \ {req[r].id} : users[id] # req[r].email
      BY <2>2
    <3>3. \A s \in Reqs : Holds(s) => req[s].email # req[r].email /\ req[s].id # req[r].id
      BY <3>1 DEF Locked
    <3>4. \A s \in Reqs : /\ req'[s].pc = IF s = r THEN "notify" ELSE req[s].pc
                          /\ req'[s].email = req[s].email /\ req'[s].id = req[s].id
      BY <3>1, GotoMoves
    <3> HIDE DEF duplicate
    <3> QED BY <3>1, <3>2, <3>3, <3>4 DEF HoldersAreAlone
  <2> QED BY <2>1, <2>2
<1>5. ASSUME NEW r \in Reqs, Notify(r) PROVE Unique(users') /\ HoldersAreAlone'
  BY <1>5, GotoMoves, StayAlone DEF Notify
<1>6. ASSUME NEW r \in Reqs, Commit(r) PROVE Unique(users') /\ HoldersAreAlone'
  BY <1>6, CommitKeepsAlone DEF Commit
<1>7. ASSUME NEW r \in Reqs, Fail(r) PROVE Unique(users') /\ HoldersAreAlone'
  <2>1. CASE req[r].pc = "commit"
    BY <1>7, <2>1, CommitKeepsAlone DEF Fail
  <2>2. CASE req[r].pc # "commit"
    <3>1. users' = users /\ Answer(r, "error")
      BY <1>7, <2>2 DEF Fail
    <3> QED BY <3>1, AnswerFrees, StayAlone DEF Idle
  <2> QED BY <2>1, <2>2
<1>8. ASSUME Restart PROVE Unique(users') /\ HoldersAreAlone'
  <2>1. \A id \in Ids : users'[id] # users[id] =>
            \E r \in Reqs : req[r].pc = "commit" /\ req[r].id = id /\ users'[id] = req[r].email
    BY <1>8 DEF Restart
  <2>2. ASSUME NEW i \in Ids, NEW j \in Ids, i # j, users'[i] # None
        PROVE  users'[i] # users'[j]
    <3>1. CASE users'[i] = users[i] /\ users'[j] = users[j]
      BY <2>2, <3>1 DEF Unique
    <3>2. CASE users'[i] # users[i]
      <4>1. PICK r \in Reqs : req[r].pc = "commit" /\ req[r].id = i /\ users'[i] = req[r].email
        BY <2>1, <3>2
      <4>2. CASE users'[j] = users[j]
        BY <2>2, <4>1, <4>2 DEF HoldersAreAlone
      <4>3. CASE users'[j] # users[j]
        <5>1. PICK s \in Reqs : req[s].pc = "commit" /\ req[s].id = j /\ users'[j] = req[s].email
          BY <2>1, <4>3
        <5> QED BY <2>2, <4>1, <5>1 DEF HoldersAreAlone
      <4> QED BY <4>2, <4>3
    <3>3. CASE users'[i] = users[i] /\ users'[j] # users[j]
      <4>1. PICK s \in Reqs : req[s].pc = "commit" /\ req[s].id = j /\ users'[j] = req[s].email
        BY <2>1, <3>3
      <4> QED BY <2>2, <3>3, <4>1 DEF HoldersAreAlone
    <3> QED BY <3>1, <3>2, <3>3
  <2>3. Unique(users')
    BY <2>2 DEF Unique
  <2>4. HoldersAreAlone'
    BY <1>8 DEF Restart, HoldersAreAlone, Idle
  <2> QED BY <2>3, <2>4
<1>9. CASE UNCHANGED vars
  BY <1>9, StayAlone DEF vars
<1> QED BY <1>1, <1>2, <1>3, <1>4, <1>5, <1>6, <1>7, <1>8, <1>9 DEF Next, Continue

\* At the start the invariant holds: no transaction is open.
LEMMA InitRegistration == Init => RegistrationInv
<1> SUFFICES ASSUME Init PROVE RegistrationInv
  OBVIOUS
<1>1. users \in [Ids -> Emails \cup {None}] /\ Unique(users)
  BY DEF Init
<1> QED BY <1>1 DEF Init, RegistrationInv, TypeOK, HoldersAreAlone, Holds, Idle

\* The invariant holds throughout.
LEMMA RegistrationInvariant == Spec => []RegistrationInv
<1>1. RegistrationInv /\ [Next]_vars => RegistrationInv'
  BY NextTypes, NextAlone DEF RegistrationInv, Unique
<1> QED BY <1>1, InitRegistration, PTL DEF Spec

\* Requests, the table and the mails keep their shape; a free slot keeps
\* nothing of the request it answered last.
THEOREM RegistrationTypes == Spec => []TypeOK
<1>1. RegistrationInv => TypeOK
  BY DEF RegistrationInv
<1> QED BY <1>1, RegistrationInvariant, PTL

-----------------------------------------------------------------------------
(* The refinement *)

\* What the requests of the registry ask for, in the terms of this module.
Wants == [r \in Reqs |-> [email |-> req[r].email, id |-> req[r].id]]

\* The initial states are the registry's.
LEMMA InitRefines == Init => Registry!Init
<1> SUFFICES ASSUME Init PROVE Registry!Init
  OBVIOUS
<1>1. users \in {table \in [Ids -> Emails \cup {None}] : Registry!Unique(table)}
  BY DEF Init, Unique, Registry!Unique
<1>2. [r \in Reqs |-> [email |-> req[r].email, id |-> req[r].id]] = [r \in Reqs |-> Registry!Nothing]
  BY DEF Init, Registry!Nothing, Idle
<1> QED BY <1>1, <1>2 DEF Init, Registry!Init

\* What an answer does to the registry's requests.
LEMMA AnswerCloses ==
  ASSUME TypeOK, NEW r \in Reqs, NEW a \in Answers, req[r].pc # "idle", Answer(r, a)
  PROVE  Registry!Close(r, a)
<1>1. req[r].email # None
  BY RequestParts, NoneAssumption
<1>2. \A s \in Reqs : req'[s] = IF s = r THEN Idle ELSE req[s]
  BY AnswerFrees
<1>3. Wants[r] # Registry!Nothing
  BY <1>1 DEF Wants, Registry!Nothing
<1>4. Wants' = [Wants EXCEPT ![r] = Registry!Nothing]
  <2>1. \A s \in Reqs : [email |-> req'[s].email, id |-> req'[s].id] =
           IF s = r THEN Registry!Nothing ELSE [email |-> req[s].email, id |-> req[s].id]
    BY <1>2 DEF Registry!Nothing, Idle
  <2> QED BY <2>1 DEF Wants
<1> QED BY <1>3, <1>4 DEF Answer, Registry!Close, Wants

\* A request that keeps its email and its id is no step of the registry.
LEMMA KeepStutters ==
  ASSUME \A s \in Reqs : req'[s].email = req[s].email /\ req'[s].id = req[s].id
  PROVE  UNCHANGED [s \in Reqs |-> [email |-> req[s].email, id |-> req[s].id]]
  OBVIOUS

\* Moving on is no step of the registry.
LEMMA GotoStutters ==
  ASSUME TypeOK, NEW r \in Reqs, NEW pc, Goto(r, pc)
  PROVE  UNCHANGED [s \in Reqs |-> [email |-> req[s].email, id |-> req[s].id]]
  BY GotoMoves, KeepStutters

\* A commit makes the account, or gives it the email, that the request wants.
LEMMA CommitMakes ==
  ASSUME HoldersAreAlone, NEW r \in Reqs, req[r].pc = "commit",
         users' = [users EXCEPT ![req[r].id] = req[r].email]
  PROVE  Registry!Make(Wants[r])
  BY DEF HoldersAreAlone, Holds, Wants, Registry!Make

\* Every step is a step of the registry or none.
LEMMA NextRefines == RegistrationInv /\ [Next]_vars => [Registry!Next]_Registry!vars
<1> SUFFICES ASSUME TypeOK, Unique(users), HoldersAreAlone, Next
             PROVE  [Registry!Next]_Registry!vars
  <2>1. ASSUME UNCHANGED vars PROVE UNCHANGED Registry!vars
    BY <2>1 DEF vars, Registry!vars
  <2> QED BY <2>1 DEF RegistrationInv
<1>1. ASSUME NEW r \in Reqs, NEW body \in Bodies, NEW id \in Ids, SignUp(r, body, id)
      PROVE  \E w \in [email : Emails, id : Ids] : Registry!Open(r, w)
  <2> DEFINE w == [email |-> body.email, id |-> id]
  <2>1. w \in [email : Emails, id : Ids]
    BY BodyAssumption
  <2>2. Wants[r] = Registry!Nothing
    BY <1>1 DEF SignUp, Idle, Wants, Registry!Nothing
  <2>3. \A s \in Reqs : [email |-> req'[s].email, id |-> req'[s].id] =
                            IF s = r THEN w ELSE [email |-> req[s].email, id |-> req[s].id]
    BY <1>1 DEF SignUp, TypeOK
  <2>4. Wants' = [Wants EXCEPT ![r] = w]
    BY <2>3 DEF Wants
  <2>5. answer' = [answer EXCEPT ![r] = None] /\ users' = users
    BY <1>1 DEF SignUp
  <2>6. Registry!Open(r, w)
    BY <2>2, <2>4, <2>5 DEF Registry!Open, Wants
  <2> QED BY <2>1, <2>6
<1>2. ASSUME NEW r \in Reqs, FindExisting(r)
      PROVE  Registry!Conflict(r) \/ UNCHANGED Registry!vars
  <2>1. users' = users /\ req[r].pc = "find"
    BY <1>2 DEF FindExisting
  <2>2. CASE req[r].email \in Registered /\ Answer(r, "conflict")
    <3>1. Registry!Close(r, "conflict")
      BY <2>1, <2>2, AnswerCloses DEF Answers
    <3>2. \E id \in Ids : users[id] = Wants[r].email
      BY <2>2 DEF Registered, Wants
    <3> QED BY <2>1, <3>1, <3>2 DEF Registry!Conflict, Wants
  <2>3. CASE /\ UNCHANGED answer
             /\ \A s \in Reqs : req'[s].email = req[s].email /\ req'[s].id = req[s].id
    BY <2>1, <2>3, KeepStutters DEF Registry!vars
  <2> QED BY <1>2, <2>2, <2>3, FindMoves
<1>3. ASSUME NEW r \in Reqs, Hash(r) PROVE UNCHANGED Registry!vars
  BY <1>3, GotoStutters DEF Hash, Registry!vars
<1>4. ASSUME NEW r \in Reqs, Insert(r)
      PROVE  Registry!Unclear(r) \/ UNCHANGED Registry!vars
  <2>1. users' = users /\ req[r].pc = "insert"
    BY <1>4 DEF Insert
  <2>2. CASE Answer(r, "error")
    BY <2>1, <2>2, AnswerCloses DEF Answers, Registry!Unclear
  <2>3. CASE Goto(r, "notify") /\ UNCHANGED answer
    BY <2>1, <2>3, GotoStutters DEF Registry!vars
  <2> QED BY <1>4, <2>2, <2>3 DEF Insert
<1>5. ASSUME NEW r \in Reqs, Notify(r) PROVE UNCHANGED Registry!vars
  BY <1>5, GotoStutters DEF Notify, Registry!vars
<1>6. ASSUME NEW r \in Reqs, Commit(r) PROVE Registry!Created(r)
  <2>1. Registry!Close(r, "created")
    BY <1>6, AnswerCloses DEF Commit, Answers
  <2>2. Registry!Make(Wants[r])
    BY <1>6, CommitMakes DEF Commit
  <2> QED BY <2>1, <2>2 DEF Registry!Created, Wants
<1>7. ASSUME NEW r \in Reqs, Fail(r) PROVE Registry!Unclear(r)
  <2>1. Registry!Close(r, "error")
    BY <1>7, AnswerCloses DEF Fail, Answers
  <2>2. Registry!Make(Wants[r]) \/ users' = users
    BY <1>7, CommitMakes DEF Fail
  <2> QED BY <2>1, <2>2 DEF Registry!Unclear, Wants
<1>8. ASSUME Restart PROVE Registry!CutOff
  <2>1. users' = [id \in Ids |-> users'[id]]
    BY <1>8 DEF Restart
  <2>2. Registry!Unique(users')
    BY <1>8, NextAlone DEF RegistrationInv, Next, Unique, Registry!Unique
  <2>3. ASSUME NEW id \in Ids, users'[id] # users[id]
        PROVE  \E r \in Reqs : Wants[r] = [email |-> users'[id], id |-> id]
    <3>1. PICK r \in Reqs : req[r].id = id /\ users'[id] = req[r].email
      BY <1>8, <2>3 DEF Restart
    <3> QED BY <3>1 DEF Wants
  <2>4. Wants' = [r \in Reqs |-> Registry!Nothing] /\ answer' = [r \in Reqs |-> None]
    BY <1>8 DEF Restart, Wants, Idle, Registry!Nothing
  <2> QED BY <2>1, <2>2, <2>3, <2>4 DEF Registry!CutOff, Wants
<1> QED BY <1>1, <1>2, <1>3, <1>4, <1>5, <1>6, <1>7, <1>8
        DEF Next, Continue, Registry!Next

\* Sign-up is atomic: whatever requests run at once, send an id along, fail or
\* are cut off, no email has two accounts, and 201 goes to the request that
\* gave its account the email.
THEOREM RegistrationImplements == Spec => SignUpIsAtomic
  BY InitRefines, NextRefines, RegistrationInvariant, PTL
  DEF SignUpIsAtomic, Spec, Registry!Spec

-----------------------------------------------------------------------------
(* Welcome mails *)

\* Those who lose their account in a step are in lost after it.
LEMMA StillKnown ==
  ASSUME lost \cup Ousted \subseteq lost', NEW e \in Registered \cup lost
  PROVE  e \in (Registered \cup lost)'
  BY DEF Ousted

\* A commit on its way leaves its email with an account or in lost.
LEMMA CommitAccounts ==
  ASSUME TypeOK, WelcomedAreRegistered, NEW r \in Reqs, req[r].pc = "commit",
         NEW a, Answer(r, a), mailed' = mailed,
         lost \cup Ousted \subseteq lost',
         req[r].email \in (Registered \cup lost)'
  PROVE  WelcomedAreRegistered'
<1>1. \A s \in Reqs : req'[s] = IF s = r THEN Idle ELSE req[s]
  BY AnswerFrees
<1>2. ASSUME NEW e \in mailed
      PROVE  \/ e \in (Registered \cup lost)'
             \/ \E s \in Reqs : req'[s].pc = "commit" /\ req'[s].email = e
  <2>1. CASE e \in Registered \cup lost
    BY <2>1, StillKnown
  <2>2. ASSUME NEW s \in Reqs, req[s].pc = "commit", req[s].email = e
        PROVE  \/ e \in (Registered \cup lost)'
               \/ \E t \in Reqs : req'[t].pc = "commit" /\ req'[t].email = e
    BY <1>1, <2>2
  <2> QED BY <2>1, <2>2 DEF WelcomedAreRegistered
<1> QED BY <1>2 DEF WelcomedAreRegistered

\* A step that commits nothing keeps what was known of the welcomed.
LEMMA KeepAccounts ==
  ASSUME WelcomedAreRegistered, UNCHANGED <<users, mailed, lost>>,
         \A s \in Reqs : req[s].pc = "commit" =>
            req'[s].pc = "commit" /\ req'[s].email = req[s].email
  PROVE  WelcomedAreRegistered'
  BY DEF WelcomedAreRegistered, Registered

\* A step leaves nobody with a mail and neither account nor failure.
LEMMA NextWelcomed ==
  RegistrationInv /\ WelcomedAreRegistered /\ [Next]_vars => WelcomedAreRegistered'
<1> SUFFICES ASSUME TypeOK, WelcomedAreRegistered, [Next]_vars PROVE WelcomedAreRegistered'
  BY DEF RegistrationInv
<1>1. ASSUME NEW r \in Reqs, NEW body \in Bodies, NEW id \in Ids, SignUp(r, body, id)
      PROVE  WelcomedAreRegistered'
  BY <1>1, KeepAccounts DEF SignUp, TypeOK, Idle
<1>2. ASSUME NEW r \in Reqs, FindExisting(r) PROVE WelcomedAreRegistered'
  <2>1. \A s \in Reqs : req[s].pc = "commit" =>
            req'[s].pc = "commit" /\ req'[s].email = req[s].email
    BY <1>2, FindMoves, AnswerFrees
  <2> QED BY <1>2, <2>1, KeepAccounts DEF FindExisting
<1>3. ASSUME NEW r \in Reqs, Hash(r) PROVE WelcomedAreRegistered'
  BY <1>3, GotoMoves, KeepAccounts DEF Hash
<1>4. ASSUME NEW r \in Reqs, Insert(r) PROVE WelcomedAreRegistered'
  <2>1. \A s \in Reqs : req[s].pc = "commit" =>
            req'[s].pc = "commit" /\ req'[s].email = req[s].email
    BY <1>4, GotoMoves, AnswerFrees DEF Insert
  <2> QED BY <1>4, <2>1, KeepAccounts DEF Insert
<1>5. ASSUME NEW r \in Reqs, Notify(r) PROVE WelcomedAreRegistered'
  <2>1. /\ mailed' = mailed \cup {req[r].email} /\ UNCHANGED <<users, lost>>
        /\ Goto(r, "commit") /\ req[r].pc = "notify"
    BY <1>5 DEF Notify
  <2>2. \A s \in Reqs : /\ req'[s].pc = IF s = r THEN "commit" ELSE req[s].pc
                        /\ req'[s].email = req[s].email
    BY <2>1, GotoMoves
  <2>3. Registered' = Registered
    BY <2>1 DEF Registered
  <2>4. ASSUME NEW e \in mailed'
        PROVE  \/ e \in (Registered \cup lost)'
               \/ \E s \in Reqs : req'[s].pc = "commit" /\ req'[s].email = e
    <3>1. CASE e = req[r].email
      BY <3>1, <2>2
    <3>2. CASE e \in mailed
      BY <3>2, <2>1, <2>2, <2>3 DEF WelcomedAreRegistered
    <3> QED BY <3>1, <3>2, <2>1
  <2> QED BY <2>4 DEF WelcomedAreRegistered
<1>6. ASSUME NEW r \in Reqs, Commit(r) PROVE WelcomedAreRegistered'
  <2>1. /\ req[r].pc = "commit" /\ Answer(r, "created")
        /\ lost' = lost \cup Ousted /\ mailed' = mailed
        /\ users' = [users EXCEPT ![req[r].id] = req[r].email]
    BY <1>6 DEF Commit
  <2>2. req[r].id \in Ids /\ req[r].email \in Emails
    BY <2>1, RequestParts
  <2>3. users'[req[r].id] = req[r].email
    BY <2>1, <2>2, CommitWrites
  <2>4. req[r].email \in Registered'
    BY <2>2, <2>3, NoneAssumption DEF Registered
  <2> QED BY <2>1, <2>4, CommitAccounts
<1>7. ASSUME NEW r \in Reqs, Fail(r) PROVE WelcomedAreRegistered'
  <2>1. CASE req[r].pc = "commit"
    <3>1. /\ lost' = lost \cup Ousted \cup {req[r].email} /\ mailed' = mailed
          /\ Answer(r, "error")
      BY <1>7, <2>1 DEF Fail
    <3> QED BY <2>1, <3>1, CommitAccounts
  <2>2. CASE req[r].pc # "commit"
    <3>1. UNCHANGED <<users, mailed, lost>> /\ Answer(r, "error")
      BY <1>7, <2>2 DEF Fail
    <3> QED BY <2>2, <3>1, AnswerFrees, KeepAccounts
  <2> QED BY <2>1, <2>2
<1>8. ASSUME Restart PROVE WelcomedAreRegistered'
  <2>1. /\ lost' = lost \cup Ousted \cup {req[s].email : s \in {t \in Reqs : req[t].pc = "commit"}}
        /\ mailed' = mailed
    BY <1>8 DEF Restart
  <2>2. ASSUME NEW e \in mailed PROVE e \in (Registered \cup lost)'
    <3>1. CASE e \in Registered \cup lost
      BY <2>1, <3>1, StillKnown
    <3>2. CASE e \notin Registered \cup lost
      BY <2>1, <3>2 DEF WelcomedAreRegistered
    <3> QED BY <3>1, <3>2
  <2> QED BY <2>1, <2>2 DEF WelcomedAreRegistered
<1>9. CASE UNCHANGED vars
  BY <1>9, KeepAccounts DEF vars
<1> QED BY <1>1, <1>2, <1>3, <1>4, <1>5, <1>6, <1>7, <1>8, <1>9 DEF Next, Continue

\* A welcome mail goes to nobody but those who get the account, save where the
\* transaction fails after the mail, or the account goes to another email later.
THEOREM WelcomeFollowsInsert == Spec => []WelcomedAreRegistered
<1>1. Init => WelcomedAreRegistered
  BY DEF Init, WelcomedAreRegistered
<1> QED BY <1>1, NextWelcomed, RegistrationInvariant, PTL DEF Spec

=============================================================================
