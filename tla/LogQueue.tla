------------------------------ MODULE LogQueue ------------------------------
(***************************************************************************)
(* The way of an error log: ErrorInterceptor reports it, LogService adds a *)
(* job to a BullMQ queue without waiting for it, and one worker writes it  *)
(* to MongoDB, in up to three attempts.  Redis and MongoDB outlive a crash *)
(* of the process; what is not yet in the queue does not.                  *)
(***************************************************************************)
EXTENDS Naturals, Sequences, FiniteSets, SequencesExt

CONSTANTS
    Logs,       \* the errors that requests end in
    TooLong,    \* those whose message or stack the schema does not take
    Attempts,   \* attempts of a job
    MaxStalled, \* how often a job may lose its worker
    MaxCrashes, \* bound: how often the process stops
    None        \* model value: no job

ASSUME LogAssumption == TooLong \subseteq Logs /\ None \notin Logs
ASSUME AttemptAssumption ==
    /\ Attempts \in Nat \ {0} /\ MaxStalled \in Nat /\ MaxCrashes \in Nat

VARIABLES
    place,    \* where each log is
    waiting,  \* the jobs the worker takes next, first come first served
    job,      \* the job the worker is at, or None
    failures, \* attempts of each job that failed
    stalls,   \* how often each job lost its worker
    docs,     \* documents of each log in MongoDB
    added,    \* history: the logs in the order in which the queue took them
    crashes   \* crashes so far

counts == <<failures, stalls>>
vars == <<place, waiting, job, counts, docs, added, crashes>>

Places == {"none", "adding", "dropped", "waiting", "active", "written",
           "delayed", "orphan", "completed", "failed"}

Init ==
    /\ place = [l \in Logs |-> "none"]
    /\ waiting = <<>> /\ added = <<>>
    /\ job = None
    /\ failures = [l \in Logs |-> 0] /\ stalls = failures /\ docs = failures
    /\ crashes = 0

\* The schema takes the log.  Messages are not cut to length before, as
\* plainToInstance does not know the class of the nested error.
Valid(l) == l \notin TooLong

Put(l, p) == place' = [place EXCEPT ![l] = p]

-----------------------------------------------------------------------------
(* The request *)

\* ErrorInterceptor: the error is caught and answered, its log on its way.
Report(l) ==
    /\ place[l] = "none"
    /\ Put(l, "adding")
    /\ UNCHANGED <<waiting, job, counts, docs, added, crashes>>

\* Mutated form: the newest job is taken first.
AddFirst(l) ==
    /\ place[l] = "adding"
    /\ Put(l, "waiting")
    /\ waiting' = <<l>> \o waiting /\ added' = Append(added, l)
    /\ UNCHANGED <<job, counts, docs, crashes>>

\* addLogJob: the queue takes the job, though its answer may be lost.
Add(l) ==
    /\ place[l] = "adding"
    /\ Put(l, "waiting")
    /\ waiting' = Append(waiting, l) /\ added' = Append(added, l)
    /\ UNCHANGED <<job, counts, docs, crashes>>

\* addLogJob fails; LogService writes that to the console and goes on.
AddFails(l) ==
    /\ place[l] = "adding"
    /\ Put(l, "dropped")
    /\ UNCHANGED <<waiting, job, counts, docs, added, crashes>>

-----------------------------------------------------------------------------
(* The worker *)

Take ==
    /\ job = None /\ waiting # <<>>
    /\ job' = Head(waiting) /\ waiting' = Tail(waiting)
    /\ Put(job', "active")
    /\ UNCHANGED <<counts, docs, added, crashes>>

\* Mutated form: create and save both insert.
WriteTwice ==
    /\ job # None /\ place[job] = "active" /\ Valid(job)
    /\ docs' = [docs EXCEPT ![job] = @ + 2]
    /\ Put(job, "written")
    /\ UNCHANGED <<waiting, job, counts, added, crashes>>

\* LogRepository.create: the document is inserted; the save that follows finds
\* nothing to write, but asks the database.
Write ==
    /\ job # None /\ place[job] = "active" /\ Valid(job)
    /\ docs' = [docs EXCEPT ![job] = @ + 1]
    /\ Put(job, "written")
    /\ UNCHANGED <<waiting, job, counts, added, crashes>>

\* Mutated form: the worker does not come back from a job that is done.
CompleteBusy ==
    /\ job # None /\ place[job] = "written"
    /\ Put(job, "completed")
    /\ UNCHANGED <<waiting, job, counts, docs, added, crashes>>

Complete ==
    /\ job # None /\ place[job] = "written"
    /\ Put(job, "completed")
    /\ job' = None
    /\ UNCHANGED <<waiting, counts, docs, added, crashes>>

\* A document the worker has sent to MongoDB may be inserted without its knowing.
MayBeInserted ==
    \/ UNCHANGED docs
    \/ /\ job # None /\ place[job] = "active" /\ Valid(job)
       /\ docs' = [docs EXCEPT ![job] = @ + 1]

\* Mutated form: the error is logged and not thrown again.
FailAttemptSwallowed ==
    /\ job # None
    /\ MayBeInserted
    /\ Put(job, "completed")
    /\ job' = None
    /\ UNCHANGED <<waiting, counts, added, crashes>>

\* Mutated form: a job is tried again however often it failed.
FailAttemptForever ==
    /\ job # None
    /\ MayBeInserted
    /\ Put(job, "delayed")
    /\ job' = None
    /\ UNCHANGED <<waiting, counts, added, crashes>>

\* create or save fails and the error is thrown again: the job is tried later
\* or given up.
FailAttempt ==
    /\ job # None
    /\ MayBeInserted
    /\ failures' = [failures EXCEPT ![job] = @ + 1]
    /\ Put(job, IF failures'[job] < Attempts THEN "delayed" ELSE "failed")
    /\ job' = None
    /\ UNCHANGED <<waiting, stalls, added, crashes>>

-----------------------------------------------------------------------------
(* The queue *)

\* The delay of a job is over.
Promote(l) ==
    /\ place[l] = "delayed"
    /\ Put(l, "waiting")
    /\ waiting' = Append(waiting, l)
    /\ UNCHANGED <<job, counts, docs, added, crashes>>

\* The lock of a job without a worker has expired: it is given to the next
\* worker before all others, or given up.
CheckStalled(l) ==
    /\ place[l] = "orphan"
    /\ stalls' = [stalls EXCEPT ![l] = @ + 1]
    /\ IF stalls'[l] > MaxStalled
       THEN Put(l, "failed") /\ UNCHANGED waiting
       ELSE Put(l, "waiting") /\ waiting' = <<l>> \o waiting
    /\ UNCHANGED <<job, failures, docs, added, crashes>>

\* The process stops and starts again.
Crash ==
    /\ crashes < MaxCrashes
    /\ crashes' = crashes + 1
    /\ MayBeInserted
    /\ place' = [l \in Logs |-> IF place[l] = "adding" THEN "dropped"
                               ELSE IF l = job THEN "orphan" ELSE place[l]]
    /\ job' = None
    /\ UNCHANGED <<waiting, counts, added>>

-----------------------------------------------------------------------------
Worker == Take \/ Write \/ Complete \/ FailAttempt

Next ==
    \/ \E l \in Logs : Report(l) \/ Add(l) \/ AddFails(l) \/ Promote(l) \/ CheckStalled(l)
    \/ Worker
    \/ Crash

Spec == Init /\ [][Next]_vars

\* Calls are answered, the worker runs, and Redis keeps to its delays and locks.
FairSpec ==
    /\ Spec
    /\ WF_vars(Worker)
    /\ \A l \in Logs : WF_vars(Add(l) \/ AddFails(l))
                       /\ WF_vars(Promote(l)) /\ WF_vars(CheckStalled(l))

-----------------------------------------------------------------------------
(* Properties *)

\* Every variable keeps its shape, and the worker's job is the one that is
\* active.
TypeOK ==
    /\ place \in [Logs -> Places]
    /\ waiting \in Seq(Logs) /\ added \in Seq(Logs)
    /\ {failures, stalls, docs} \subseteq [Logs -> Nat]
    /\ crashes \in 0 .. MaxCrashes
    /\ job \in Logs \cup {None}
    /\ \A l \in Logs : l = job <=> place[l] \in {"active", "written"}

\* Each document but one belongs to an attempt that failed or lost its worker:
\* without failure and crash a log is stored once.
DocumentsAreExplained ==
    \A l \in Logs :
        docs[l] <= failures[l] + stalls[l]
                     + (IF place[l] \in {"written", "orphan", "completed"} THEN 1 ELSE 0)

\* A job that is done has left a document.
CompletedIsStored == \A l \in Logs : place[l] = "completed" => docs[l] > 0

\* Retries aside, logs are stored in the order in which the queue took them.
FirstTriesInOrder ==
    \A i, j \in 1 .. Len(added) :
        /\ i < j /\ place[added[j]] = "completed"
        /\ failures[added[i]] = 0 /\ stalls[added[i]] = 0 /\ place[added[i]] # "orphan"
        => place[added[i]] = "completed"

\* What becomes of a log, as far as MongoDB shows it.
Fate(l) ==
    IF docs[l] > 0 THEN "stored"
    ELSE IF place[l] = "none" THEN "none"
    ELSE IF place[l] \in {"dropped", "failed"} THEN "lost" ELSE "pending"

Delivery == INSTANCE LogDelivery WITH fate <- [l \in Logs |-> Fate(l)]

\* Every log is stored or lost in the end, and that is final: no retry stores
\* what was given up, no crash undoes what is stored.
LogsAreDelivered == Delivery!FairSpec

-----------------------------------------------------------------------------
(* The inductive invariant *)

\* The jobs in line are the ones that wait, each of them once.
InLine ==
    /\ \A i \in DOMAIN waiting : place[waiting[i]] = "waiting"
    /\ \A i, j \in DOMAIN waiting : i # j => waiting[i] # waiting[j]

\* A document is there as soon as the worker has been told so.
WrittenIsStored == \A l \in Logs : place[l] \in {"written", "completed"} => docs[l] > 0

LogQueueInv == TypeOK /\ InLine /\ DocumentsAreExplained /\ WrittenIsStored

\* No attempt at a job has failed or lost its worker.
Fresh(l) == failures[l] = 0 /\ stalls[l] = 0

\* What a log's place says of its counters, and the line of all that wait.
PlacesTell ==
    \A l \in Logs :
        /\ place[l] \in {"none", "adding"} => Fresh(l)
        /\ place[l] \in {"delayed", "failed"} => ~Fresh(l)
        /\ place[l] = "waiting" => \E a \in DOMAIN waiting : waiting[a] = l

Before(k, l) ==
    \E a, b \in DOMAIN waiting : a < b /\ waiting[a] = k /\ waiting[b] = l

\* While the first attempt at a log is to come or under way, the logs that the
\* queue took later wait untouched, behind it.
LaterWait ==
    \A i, j \in DOMAIN added :
        /\ i < j /\ Fresh(added[i]) /\ place[added[i]] \in {"waiting", "active", "written"}
        => /\ Fresh(added[j]) /\ place[added[j]] = "waiting"
           /\ place[added[i]] = "waiting" => Before(added[i], added[j])

OrderInv ==
    /\ PlacesTell /\ LaterWait
    /\ \A i \in DOMAIN added : place[added[i]] \notin {"none", "adding", "dropped"}

=============================================================================
