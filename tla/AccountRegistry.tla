---------------------------- MODULE AccountRegistry ----------------------------
(***************************************************************************)
(* What POST auth/sign-up promises: every request gets one answer, at one  *)
(* moment, and no email has two accounts.  "created" (201) is the moment   *)
(* the account of the request's id gets its email; "conflict" (409) is a   *)
(* moment at which the email has an account.  After "error" (500) the      *)
(* client does not know whether the account was made.                      *)
(***************************************************************************)
EXTENDS Naturals

CONSTANTS
    Emails, \* email addresses
    Ids,    \* ids of accounts
    Reqs,   \* slots for the requests handled at a time
    None    \* model value: no email, no id, no answer

VARIABLES
    accounts, \* the email of the account of each id, or None
    want,     \* the email and the id that each open request asks an account for
    answer    \* the last answer of each slot, or None

vars == <<accounts, want, answer>>

Nothing == [email |-> None, id |-> None]

\* No email has two accounts.
Unique(table) ==
    \A i, j \in Ids : i # j /\ table[i] # None => table[i] # table[j]

Init ==
    /\ accounts \in {table \in [Ids -> Emails \cup {None}] : Unique(table)}
    /\ want = [r \in Reqs |-> Nothing]
    /\ answer = [r \in Reqs |-> None]

Open(r, w) ==
    /\ want[r] = Nothing
    /\ want' = [want EXCEPT ![r] = w]
    /\ answer' = [answer EXCEPT ![r] = None]
    /\ UNCHANGED accounts

Close(r, a) ==
    /\ want[r] # Nothing
    /\ want' = [want EXCEPT ![r] = Nothing]
    /\ answer' = [answer EXCEPT ![r] = a]

\* The account that w asks for is made, or gets another email.
Make(w) ==
    /\ \A id \in Ids \ {w.id} : accounts[id] # w.email
    /\ accounts' = [accounts EXCEPT ![w.id] = w.email]

Created(r) == Close(r, "created") /\ Make(want[r])

Conflict(r) ==
    /\ Close(r, "conflict")
    /\ \E id \in Ids : accounts[id] = want[r].email
    /\ UNCHANGED accounts

Unclear(r) ==
    /\ Close(r, "error")
    /\ Make(want[r]) \/ UNCHANGED accounts

\* The process goes down: open requests get no answer, and some their account.
CutOff ==
    /\ want' = [r \in Reqs |-> Nothing]
    /\ answer' = [r \in Reqs |-> None]
    /\ accounts' = [id \in Ids |-> accounts'[id]]
    /\ Unique(accounts')
    /\ \A id \in Ids : accounts'[id] # accounts[id] =>
          \E r \in Reqs : want[r] = [email |-> accounts'[id], id |-> id]

Next ==
    \/ \E r \in Reqs :
          \/ \E w \in [email : Emails, id : Ids] : Open(r, w)
          \/ Created(r) \/ Conflict(r) \/ Unclear(r)
    \/ CutOff

Spec == Init /\ [][Next]_vars

=============================================================================
