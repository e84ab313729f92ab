--------------------------- MODULE LogQueueProofs ---------------------------
(***************************************************************************)
(* What becomes of a log is settled once and for good, for any logs,       *)
(* attempts, stalls and crashes.  What makes it work is that a job stands  *)
(* in line once and only while it waits: what has been given up is never   *)
(* taken again.  The line also keeps the order of first attempts.          *)
(***************************************************************************)
EXTENDS LogQueue, TLAPS

\* Moving a log to another place moves no other.
LEMMA PutMoves ==
  ASSUME TypeOK, NEW l \in Logs, NEW p \in Places, Put(l, p)
  PROVE  /\ place' \in [Logs -> Places]
         /\ \A k \in Logs : place'[k] = IF k = l THEN p ELSE place[k]
  BY DEF TypeOK, Put

\* The job at the head of the line, and the rest of the line.
LEMMA HeadWaits ==
  ASSUME TypeOK, InLine, waiting # <<>>
  PROVE  /\ Head(waiting) \in Logs /\ Tail(waiting) \in Seq(Logs)
         /\ place[Head(waiting)] = "waiting"
         /\ \A i \in DOMAIN Tail(waiting) :
               /\ Tail(waiting)[i] # Head(waiting)
               /\ place[Tail(waiting)[i]] = "waiting"
               /\ \A j \in DOMAIN Tail(waiting) :
                     i # j => Tail(waiting)[i] # Tail(waiting)[j]
<1>1. waiting \in Seq(Logs) /\ Len(waiting) \in Nat \ {0}
  BY DEF TypeOK
<1>2. /\ Head(waiting) = waiting[1] /\ 1 \in DOMAIN waiting
      /\ Tail(waiting) \in Seq(Logs)
      /\ \A i \in DOMAIN Tail(waiting) :
            i + 1 \in DOMAIN waiting /\ i \in Nat \ {0} /\ Tail(waiting)[i] = waiting[i + 1]
  BY <1>1
<1>3. Head(waiting) \in Logs
  BY <1>1, <1>2
<1> QED BY <1>2, <1>3 DEF InLine

\* A job that joins the line from elsewhere, at either end.
LEMMA Joins ==
  ASSUME TypeOK, InLine, NEW l \in Logs, place[l] # "waiting", Put(l, "waiting"),
         waiting' \in {Append(waiting, l), <<l>> \o waiting}
  PROVE  waiting' \in Seq(Logs) /\ InLine'
<1>1. waiting \in Seq(Logs) /\ Len(waiting) \in Nat
  BY DEF TypeOK
<1>2. /\ \A i \in DOMAIN waiting : waiting[i] \in Logs /\ waiting[i] # l
      /\ \A k \in Logs : place'[k] = IF k = l THEN "waiting" ELSE place[k]
  BY <1>1, PutMoves DEF InLine, Places
<1>3. CASE waiting' = Append(waiting, l)
  <2>1. /\ waiting' \in Seq(Logs) /\ DOMAIN waiting' = 1 .. Len(waiting) + 1
        /\ \A i \in DOMAIN waiting' :
              waiting'[i] = IF i = Len(waiting) + 1 THEN l ELSE waiting[i]
        /\ \A i \in DOMAIN waiting' : i # Len(waiting) + 1 => i \in DOMAIN waiting
    BY <1>1, <1>3
  <2> QED BY <2>1, <1>2 DEF InLine
<1>4. CASE waiting' = <<l>> \o waiting
  <2>1. /\ waiting' \in Seq(Logs) /\ DOMAIN waiting' = 1 .. Len(waiting) + 1
        /\ \A i \in DOMAIN waiting' :
              waiting'[i] = IF i = 1 THEN l ELSE waiting[i - 1]
        /\ \A i \in DOMAIN waiting' : i # 1 => i - 1 \in DOMAIN waiting
        /\ DOMAIN waiting' \subseteq Nat
    BY <1>1, <1>4
  <2>2. \A i, j \in DOMAIN waiting' : i # j => waiting'[i] # waiting'[j]
    <3> SUFFICES ASSUME NEW i \in DOMAIN waiting', NEW j \in DOMAIN waiting', i # j
                 PROVE  waiting'[i] # waiting'[j]
      OBVIOUS
    <3>1. i # 1 /\ j # 1 => i - 1 # j - 1
      BY <2>1
    <3> QED BY <2>1, <3>1, <1>2 DEF InLine
  <2> QED BY <2>1, <2>2, <1>2 DEF InLine
<1> QED BY <1>3, <1>4

-----------------------------------------------------------------------------
(* Types and the line *)

\* What a document the worker does not know of comes to.
LEMMA Inserted ==
  ASSUME TypeOK, MayBeInserted
  PROVE  /\ docs' \in [Logs -> Nat]
         /\ \A l \in Logs : docs'[l] \in {docs[l], docs[l] + 1}
         /\ \A l \in Logs : docs'[l] # docs[l] => l = job /\ place[l] = "active"
<1>1. docs \in [Logs -> Nat]
  BY DEF TypeOK
<1>2. CASE UNCHANGED docs
  BY <1>1, <1>2
<1>3. CASE /\ job # None /\ place[job] = "active"
           /\ docs' = [docs EXCEPT ![job] = @ + 1]
  <2>1. job \in Logs
    BY <1>3 DEF TypeOK
  <2> QED BY <1>1, <1>3, <2>1
<1> QED BY <1>2, <1>3 DEF MayBeInserted

\* A step keeps the types.
LEMMA NextTypes == TypeOK /\ InLine /\ [Next]_vars => TypeOK'
<1> SUFFICES ASSUME TypeOK, InLine, [Next]_vars PROVE TypeOK'
  OBVIOUS
<1> USE DEF counts
<1>1. ASSUME NEW l \in Logs, Report(l) PROVE TypeOK'
  BY <1>1, PutMoves DEF Report, TypeOK, Places
<1>2. ASSUME NEW l \in Logs, Add(l) PROVE TypeOK'
  <2>1. Append(added, l) \in Seq(Logs)
    BY DEF TypeOK
  <2>2. waiting' \in Seq(Logs)
    BY <1>2, Joins DEF Add
  <2> QED BY <1>2, <2>1, <2>2, PutMoves DEF Add, TypeOK, Places
<1>3. ASSUME NEW l \in Logs, AddFails(l) PROVE TypeOK'
  BY <1>3, PutMoves DEF AddFails, TypeOK, Places
<1>4. ASSUME NEW l \in Logs, Promote(l) PROVE TypeOK'
  <2>1. waiting' \in Seq(Logs)
    BY <1>4, Joins DEF Promote
  <2> QED BY <1>4, <2>1, PutMoves DEF Promote, TypeOK, Places
<1>5. ASSUME NEW l \in Logs, CheckStalled(l) PROVE TypeOK'
  <2>1. stalls' \in [Logs -> Nat]
    BY <1>5 DEF CheckStalled, TypeOK
  <2>2. CASE stalls'[l] > MaxStalled
    <3>1. /\ Put(l, "failed") /\ UNCHANGED <<waiting, job, failures, docs, added, crashes>>
          /\ place[l] = "orphan"
      BY <1>5, <2>2 DEF CheckStalled
    <3>2. /\ place' \in [Logs -> Places]
          /\ \A k \in Logs : place'[k] = IF k = l THEN "failed" ELSE place[k]
      BY <3>1, PutMoves DEF Places
    <3> QED BY <2>1, <3>1, <3>2 DEF TypeOK
  <2>3. CASE ~(stalls'[l] > MaxStalled)
    <3>1. waiting' \in Seq(Logs)
      BY <1>5, <2>3, Joins DEF CheckStalled
    <3>2. /\ Put(l, "waiting") /\ UNCHANGED <<job, failures, docs, added, crashes>>
          /\ place[l] = "orphan"
      BY <1>5, <2>3 DEF CheckStalled
    <3>3. /\ place' \in [Logs -> Places]
          /\ \A k \in Logs : place'[k] = IF k = l THEN "waiting" ELSE place[k]
      BY <3>2, PutMoves DEF Places
    <3> QED BY <2>1, <3>1, <3>2, <3>3 DEF TypeOK
  <2> QED BY <2>2, <2>3
<1>6. CASE Take
  <2>1. /\ Head(waiting) \in Logs /\ Tail(waiting) \in Seq(Logs)
        /\ job = None /\ job' = Head(waiting) /\ waiting' = Tail(waiting)
        /\ Put(Head(waiting), "active")
        /\ UNCHANGED <<failures, stalls, docs, added, crashes>>
    BY <1>6, HeadWaits DEF Take
  <2>2. /\ place' \in [Logs -> Places]
        /\ \A k \in Logs : place'[k] = IF k = Head(waiting) THEN "active" ELSE place[k]
    BY <2>1, PutMoves DEF Places
  <2> QED BY <2>1, <2>2, LogAssumption DEF TypeOK
<1>7. CASE Write
  <2>1. job \in Logs /\ docs' \in [Logs -> Nat]
    BY <1>7 DEF Write, TypeOK
  <2>2. /\ place' \in [Logs -> Places]
        /\ \A k \in Logs : place'[k] = IF k = job THEN "written" ELSE place[k]
    BY <1>7, <2>1, PutMoves DEF Write, Places
  <2> QED BY <1>7, <2>1, <2>2 DEF Write, TypeOK
<1>8. CASE Complete
  <2>1. job \in Logs
    BY <1>8 DEF Complete, TypeOK
  <2>2. /\ place' \in [Logs -> Places]
        /\ \A k \in Logs : place'[k] = IF k = job THEN "completed" ELSE place[k]
    BY <1>8, <2>1, PutMoves DEF Complete, Places
  <2> QED BY <1>8, <2>1, <2>2, LogAssumption DEF Complete, TypeOK
<1>9. CASE FailAttempt
  <2>1. job \in Logs /\ failures' \in [Logs -> Nat] /\ docs' \in [Logs -> Nat]
    BY <1>9, Inserted DEF FailAttempt, TypeOK
  <2>2. PICK p \in {"delayed", "failed"} : Put(job, p)
    BY <1>9 DEF FailAttempt
  <2>3. /\ place' \in [Logs -> Places]
        /\ \A k \in Logs : place'[k] = IF k = job THEN p ELSE place[k]
    BY <2>1, <2>2, PutMoves DEF Places
  <2> QED BY <1>9, <2>1, <2>2, <2>3, LogAssumption DEF FailAttempt, TypeOK
<1>10. CASE Crash
  <2>1. docs' \in [Logs -> Nat] /\ crashes' \in 0 .. MaxCrashes
    BY <1>10, Inserted, AttemptAssumption DEF Crash, TypeOK
  <2>2. place' \in [Logs -> Places]
    BY <1>10 DEF Crash, TypeOK, Places
  <2>3. \A l \in Logs : place'[l] \notin {"active", "written"}
    BY <1>10 DEF Crash, TypeOK
  <2> QED BY <1>10, <2>1, <2>2, <2>3, LogAssumption DEF Crash, TypeOK
<1>11. CASE UNCHANGED vars
  BY <1>11 DEF vars, TypeOK
<1> QED
  BY <1>1, <1>2, <1>3, <1>4, <1>5, <1>6, <1>7, <1>8, <1>9, <1>10, <1>11 DEF Next, Worker

\* A log that moves without joining or leaving the line leaves the line as it is.
LEMMA LineStays ==
  ASSUME TypeOK, InLine, waiting' = waiting,
         \A l \in Logs : place[l] = "waiting" => place'[l] = "waiting"
  PROVE  InLine'
<1>1. \A i \in DOMAIN waiting : waiting[i] \in Logs
  BY DEF TypeOK
<1> QED BY <1>1 DEF InLine

\* A step keeps the line in order.
LEMMA NextInLine == TypeOK /\ InLine /\ [Next]_vars => InLine'
<1> SUFFICES ASSUME TypeOK, InLine, [Next]_vars PROVE InLine'
  OBVIOUS
<1>1. ASSUME NEW l \in Logs, Report(l) \/ AddFails(l) PROVE InLine'
  BY <1>1, PutMoves, LineStays DEF Report, AddFails, Places
<1>2. ASSUME NEW l \in Logs, Add(l) \/ Promote(l) PROVE InLine'
  BY <1>2, Joins DEF Add, Promote
<1>3. ASSUME NEW l \in Logs, CheckStalled(l) PROVE InLine'
  <2>1. CASE Put(l, "failed") /\ UNCHANGED waiting
    BY <1>3, <2>1, PutMoves, LineStays DEF CheckStalled, Places
  <2>2. CASE Put(l, "waiting") /\ waiting' = <<l>> \o waiting
    BY <1>3, <2>2, Joins DEF CheckStalled
  <2> QED BY <1>3, <2>1, <2>2 DEF CheckStalled
<1>4. CASE Take
  <2>1. /\ Head(waiting) \in Logs /\ Put(Head(waiting), "active")
        /\ waiting' = Tail(waiting) /\ waiting # <<>>
    BY <1>4, HeadWaits DEF Take
  <2>2. \A k \in Logs \ {Head(waiting)} : place'[k] = place[k]
    BY <2>1, PutMoves DEF Places
  <2>3. \A i \in DOMAIN Tail(waiting) : Tail(waiting)[i] \in Logs
    BY <2>1, HeadWaits
  <2> QED BY <2>1, <2>2, <2>3, HeadWaits DEF InLine
<1>5. CASE Write \/ Complete
  <2>1. PICK p \in {"written", "completed"} : Put(job, p)
    BY <1>5 DEF Write, Complete
  <2>2. job \in Logs /\ place[job] # "waiting" /\ waiting' = waiting
    BY <1>5 DEF Write, Complete, TypeOK
  <2> QED BY <2>1, <2>2, PutMoves, LineStays DEF Places
<1>6. CASE FailAttempt
  <2>1. PICK p \in {"delayed", "failed"} : Put(job, p)
    BY <1>6 DEF FailAttempt
  <2>2. job \in Logs /\ place[job] # "waiting" /\ waiting' = waiting
    BY <1>6 DEF FailAttempt, TypeOK
  <2> QED BY <2>1, <2>2, PutMoves, LineStays DEF Places
<1>7. CASE Crash
  BY <1>7, LineStays DEF Crash, TypeOK
<1>8. CASE UNCHANGED vars
  BY <1>8, LineStays DEF vars
<1> QED BY <1>1, <1>2, <1>3, <1>4, <1>5, <1>6, <1>7, <1>8 DEF Next, Worker

-----------------------------------------------------------------------------
(* Documents *)

\* The counters of a log never go back.
LEMMA CountsGrow ==
  ASSUME TypeOK, [Next]_vars, NEW l \in Logs
  PROVE  /\ failures[l] \in Nat /\ stalls[l] \in Nat /\ docs[l] \in Nat
         /\ failures'[l] \in Nat /\ stalls'[l] \in Nat /\ docs'[l] \in Nat
         /\ failures'[l] >= failures[l] /\ stalls'[l] >= stalls[l] /\ docs'[l] >= docs[l]
<1> USE DEF counts
<1>1. /\ failures \in [Logs -> Nat] /\ stalls \in [Logs -> Nat] /\ docs \in [Logs -> Nat]
  BY DEF TypeOK
<1>2. CASE UNCHANGED <<failures, stalls, docs>>
  BY <1>1, <1>2
<1>3. ASSUME NEW k \in Logs, CheckStalled(k)
      PROVE  /\ stalls' = [stalls EXCEPT ![k] = @ + 1]
             /\ UNCHANGED <<failures, docs>>
  BY <1>3 DEF CheckStalled
<1>4. CASE Write
  <2>1. job \in Logs /\ docs' = [docs EXCEPT ![job] = @ + 1] /\ UNCHANGED <<failures, stalls>>
    BY <1>4 DEF Write, TypeOK
  <2> QED BY <1>1, <2>1
<1>5. CASE FailAttempt
  <2>1. /\ job \in Logs /\ failures' = [failures EXCEPT ![job] = @ + 1]
        /\ stalls' = stalls /\ docs'[l] \in {docs[l], docs[l] + 1}
    BY <1>5, Inserted DEF FailAttempt, TypeOK
  <2> QED BY <1>1, <2>1
<1>6. CASE Crash
  BY <1>1, <1>6, Inserted DEF Crash
<1>7. ASSUME NEW k \in Logs,
             \/ Report(k) \/ Add(k) \/ AddFails(k) \/ Promote(k)
             \/ Take \/ Complete \/ UNCHANGED vars
      PROVE  UNCHANGED <<failures, stalls, docs>>
  BY <1>7 DEF Report, Add, AddFails, Promote, Take, Complete, vars
<1>8. ASSUME NEW k \in Logs, CheckStalled(k)
      PROVE  /\ failures' = failures /\ docs' = docs
             /\ stalls'[l] \in Nat /\ stalls'[l] >= stalls[l]
  BY <1>1, <1>3, <1>8
<1> QED
  BY <1>1, <1>2, <1>4, <1>5, <1>6, <1>7, <1>8 DEF Next, Worker

\* What a step may do to one log: one case for each place it can leave.
LEMMA LogMoves ==
  ASSUME TypeOK, InLine, [Next]_vars, NEW l \in Logs
  PROVE  \/ /\ place'[l] = place[l]
            /\ docs'[l] = docs[l] /\ failures'[l] = failures[l] /\ stalls'[l] = stalls[l]
         \/ /\ docs'[l] = docs[l]
            /\ \/ Report(l) /\ place[l] = "none" /\ place'[l] = "adding"
               \/ place[l] = "adding" /\ place'[l] \in {"waiting", "dropped"}
               \/ place[l] = "delayed" /\ place'[l] = "waiting"
               \/ place[l] = "waiting" /\ place'[l] = "active"
               \/ place[l] = "written" /\ place'[l] = "completed"
               \/ /\ place[l] = "orphan" /\ place'[l] \in {"waiting", "failed"}
                  /\ stalls'[l] = stalls[l] + 1
               \/ /\ place[l] = "written" /\ place'[l] \in {"delayed", "failed"}
                  /\ failures'[l] = failures[l] + 1
               \/ place[l] = "written" /\ place'[l] = "orphan"
         \/ /\ place[l] = "active" /\ place'[l] = "written" /\ docs'[l] = docs[l] + 1
         \/ /\ place[l] = "active" /\ docs'[l] \in {docs[l], docs[l] + 1}
            /\ \/ /\ place'[l] \in {"delayed", "failed"}
                  /\ failures'[l] = failures[l] + 1
               \/ place'[l] = "orphan"
<1> USE DEF counts
<1>1. /\ place \in [Logs -> Places] /\ failures \in [Logs -> Nat]
      /\ stalls \in [Logs -> Nat] /\ docs \in [Logs -> Nat]
      /\ job \in Logs => place[job] \in {"active", "written"}
      /\ \A k \in Logs : k # job => place[k] \notin {"active", "written"}
  BY DEF TypeOK
<1>2. ASSUME NEW k \in Logs, NEW p \in Places, Put(k, p)
      PROVE  place'[l] = IF l = k THEN p ELSE place[l]
  BY <1>2, PutMoves
<1>3. ASSUME NEW k \in Logs, Report(k) \/ Add(k) \/ AddFails(k) \/ Promote(k)
      PROVE  /\ UNCHANGED <<docs, failures, stalls>>
             /\ \/ place'[l] = place[l]
                \/ Report(l) /\ place[l] = "none" /\ place'[l] = "adding"
                \/ place[l] = "adding" /\ place'[l] \in {"waiting", "dropped"}
                \/ place[l] = "delayed" /\ place'[l] = "waiting"
  <2>1. CASE Report(k)
    BY <2>1, <1>2 DEF Report, Places
  <2>2. CASE Add(k)
    BY <2>2, <1>2 DEF Add, Places
  <2>3. CASE AddFails(k)
    BY <2>3, <1>2 DEF AddFails, Places
  <2>4. CASE Promote(k)
    BY <2>4, <1>2 DEF Promote, Places
  <2> QED BY <1>3, <2>1, <2>2, <2>3, <2>4
<1>4. ASSUME NEW k \in Logs, CheckStalled(k)
      PROVE  /\ UNCHANGED <<docs, failures>>
             /\ \/ place'[l] = place[l] /\ stalls'[l] = stalls[l]
                \/ /\ place[l] = "orphan" /\ place'[l] \in {"waiting", "failed"}
                   /\ stalls'[l] = stalls[l] + 1
  <2>1. PICK p \in {"waiting", "failed"} : Put(k, p)
    BY <1>4 DEF CheckStalled
  <2>2. place'[l] = IF l = k THEN p ELSE place[l]
    BY <2>1, <1>2 DEF Places
  <2>3. stalls'[l] = IF l = k THEN stalls[l] + 1 ELSE stalls[l]
    BY <1>1, <1>4 DEF CheckStalled
  <2> QED BY <1>4, <2>1, <2>2, <2>3 DEF CheckStalled
<1>5. CASE Take
  <2>1. /\ Head(waiting) \in Logs /\ place[Head(waiting)] = "waiting"
        /\ Put(Head(waiting), "active") /\ UNCHANGED <<docs, failures, stalls>>
    BY <1>5, HeadWaits DEF Take
  <2> QED BY <2>1, <1>2 DEF Places
<1>6. CASE Write
  <2>1. /\ job \in Logs /\ place[job] = "active" /\ Put(job, "written")
        /\ docs' = [docs EXCEPT ![job] = @ + 1] /\ UNCHANGED <<failures, stalls>>
    BY <1>6 DEF Write, TypeOK
  <2>2. place'[l] = IF l = job THEN "written" ELSE place[l]
    BY <2>1, <1>2 DEF Places
  <2> QED BY <1>1, <2>1, <2>2
<1>7. CASE Complete
  <2>1. /\ job \in Logs /\ place[job] = "written" /\ Put(job, "completed")
        /\ UNCHANGED <<docs, failures, stalls>>
    BY <1>7 DEF Complete, TypeOK
  <2> QED BY <2>1, <1>2 DEF Places
<1>8. CASE FailAttempt
  <2>1. PICK p \in {"delayed", "failed"} : Put(job, p)
    BY <1>8 DEF FailAttempt
  <2>2. /\ job \in Logs /\ failures' = [failures EXCEPT ![job] = @ + 1]
        /\ stalls' = stalls /\ docs'[l] \in {docs[l], docs[l] + 1}
        /\ docs'[l] # docs[l] => l = job /\ place[l] = "active"
    BY <1>8, Inserted DEF FailAttempt, TypeOK
  <2>3. place'[l] = IF l = job THEN p ELSE place[l]
    BY <2>1, <2>2, <1>2 DEF Places
  <2> QED BY <1>1, <2>1, <2>2, <2>3
<1>9. CASE Crash
  <2>1. /\ place'[l] = IF place[l] = "adding" THEN "dropped"
                       ELSE IF l = job THEN "orphan" ELSE place[l]
        /\ docs'[l] \in {docs[l], docs[l] + 1}
        /\ docs'[l] # docs[l] => l = job /\ place[l] = "active"
        /\ UNCHANGED <<failures, stalls>>
    BY <1>9, Inserted DEF Crash
  <2> QED BY <1>1, <2>1
<1>10. CASE UNCHANGED vars
  BY <1>10 DEF vars
<1> QED BY <1>3, <1>4, <1>5, <1>6, <1>7, <1>8, <1>9, <1>10 DEF Next, Worker

\* A step keeps every document explained.
LEMMA NextExplained ==
  TypeOK /\ InLine /\ DocumentsAreExplained /\ [Next]_vars => DocumentsAreExplained'
<1> SUFFICES ASSUME TypeOK, InLine, DocumentsAreExplained, [Next]_vars, NEW l \in Logs
             PROVE  docs'[l] <= failures'[l] + stalls'[l]
                      + (IF place'[l] \in {"written", "orphan", "completed"} THEN 1 ELSE 0)
  BY DEF DocumentsAreExplained
<1>1. docs[l] <= failures[l] + stalls[l]
                   + (IF place[l] \in {"written", "orphan", "completed"} THEN 1 ELSE 0)
  BY DEF DocumentsAreExplained
<1> QED BY <1>1, LogMoves, CountsGrow

\* A step keeps what is written.
LEMMA NextWritten ==
  TypeOK /\ InLine /\ WrittenIsStored /\ [Next]_vars => WrittenIsStored'
<1> SUFFICES ASSUME TypeOK, InLine, WrittenIsStored, [Next]_vars, NEW l \in Logs,
                    place'[l] \in {"written", "completed"}
             PROVE  docs'[l] > 0
  BY DEF WrittenIsStored
<1>1. place[l] \in {"written", "completed"} => docs[l] > 0
  BY DEF WrittenIsStored
<1> QED BY <1>1, LogMoves, CountsGrow

\* The invariant that the theorems below rest on.
LEMMA LogQueueInvariant == Spec => []LogQueueInv
<1>1. Init => LogQueueInv
  <2> SUFFICES ASSUME Init PROVE LogQueueInv
    OBVIOUS
  <2>1. TypeOK
    BY LogAssumption, AttemptAssumption DEF Init, TypeOK, Places
  <2>2. InLine
    BY DEF Init, InLine
  <2>3. DocumentsAreExplained /\ WrittenIsStored
    BY DEF Init, DocumentsAreExplained, WrittenIsStored
  <2> QED BY <2>1, <2>2, <2>3 DEF LogQueueInv
<1>2. LogQueueInv /\ [Next]_vars => LogQueueInv'
  BY NextTypes, NextInLine, NextExplained, NextWritten DEF LogQueueInv
<1> QED BY <1>1, <1>2, PTL DEF Spec

-----------------------------------------------------------------------------
(* Theorems *)

\* Every variable of the queue keeps its shape, and the worker's job is the
\* one that is active.
THEOREM LogTypes == Spec => []TypeOK
<1>1. LogQueueInv => TypeOK
  BY DEF LogQueueInv
<1> QED BY <1>1, LogQueueInvariant, PTL

\* A log is written again only by an attempt after one that failed or lost its
\* worker, however many documents lost answers leave behind.
THEOREM DocumentsExplained == Spec => []DocumentsAreExplained
<1>1. LogQueueInv => DocumentsAreExplained
  BY DEF LogQueueInv
<1> QED BY <1>1, LogQueueInvariant, PTL

\* A job the worker reports as done has left its document.
THEOREM CompletedStored == Spec => []CompletedIsStored
<1>1. LogQueueInv => CompletedIsStored
  BY DEF LogQueueInv, WrittenIsStored, CompletedIsStored
<1> QED BY <1>1, LogQueueInvariant, PTL

-----------------------------------------------------------------------------
(* The refinement *)

\* What a step makes of the fate of one log.
LEMMA FateMoves ==
  ASSUME LogQueueInv, [Next]_vars, NEW l \in Logs
  PROVE  /\ Fate(l) \in {"none", "pending", "stored", "lost"}
         /\ \/ Fate(l)' = Fate(l)
            \/ Fate(l) = "none" /\ Fate(l)' = "pending" /\ Report(l)
            \/ Fate(l) = "pending" /\ Fate(l)' \in {"stored", "lost"}
<1>1. TypeOK /\ InLine /\ place[l] \in Places /\ docs[l] \in Nat
  BY DEF LogQueueInv, TypeOK
<1>2. /\ docs'[l] \in Nat /\ docs'[l] >= docs[l]
  BY <1>1, CountsGrow
<1>3. CASE docs[l] > 0
  BY <1>1, <1>2, <1>3 DEF Fate
<1>4. CASE docs[l] = 0
  <2>1. /\ place'[l] = place[l] \/ place[l] \notin {"dropped", "failed"}
        /\ place'[l] = place[l] \/ place'[l] # "none"
        /\ place'[l] # place[l] /\ place[l] = "none" => Report(l) /\ place'[l] = "adding"
        /\ place[l] \in {"none", "dropped", "failed"} => docs'[l] = docs[l]
    BY <1>1, LogMoves
  <2>2. CASE place[l] = "none"
    BY <2>1, <2>2, <1>4 DEF Fate
  <2>3. CASE place[l] \in {"dropped", "failed"}
    BY <2>1, <2>3, <1>4 DEF Fate
  <2>4. CASE place[l] \notin {"none", "dropped", "failed"}
    BY <2>1, <2>4, <1>2, <1>4 DEF Fate
  <2> QED BY <2>2, <2>3, <2>4
<1> QED BY <1>1, <1>3, <1>4

\* A report changes the fate of no other log.
LEMMA ReportAlone ==
  ASSUME LogQueueInv, NEW k \in Logs, Report(k), NEW l \in Logs, l # k
  PROVE  Fate(l)' = Fate(l)
<1>1. TypeOK /\ Put(k, "adding") /\ docs' = docs
  BY DEF LogQueueInv, Report
<1>2. place'[l] = place[l]
  BY <1>1, PutMoves DEF Places
<1> QED BY <1>1, <1>2 DEF Fate

\* The queue does what LogDelivery promises, its liveness aside: a log is
\* stored or lost, one of the two, and no retry or crash changes that again.
THEOREM FateIsFinal == Spec => Delivery!Spec
<1> DEFINE fate == [l \in Logs |-> Fate(l)]
<1>1. Init => Delivery!Init
  BY DEF Init, Delivery!Init, Fate
<1>2. LogQueueInv /\ [Next]_vars => [Delivery!Next]_fate
  <2> SUFFICES ASSUME LogQueueInv, [Next]_vars PROVE Delivery!Next \/ fate' = fate
    OBVIOUS
  <2>0. fate' = [l \in Logs |-> Fate(l)']
    OBVIOUS
  <2>1. CASE \E k \in Logs : Fate(k) = "none" /\ Fate(k)' = "pending" /\ Report(k)
    <3>1. PICK k \in Logs : Fate(k) = "none" /\ Fate(k)' = "pending" /\ Report(k)
      BY <2>1
    <3>2. \A l \in Logs : l # k => Fate(l)' = Fate(l)
      BY <3>1, ReportAlone
    <3>3. fate' = [fate EXCEPT ![k] = "pending"] /\ fate[k] = "none"
      BY <2>0, <3>1, <3>2
    <3> QED BY <3>3 DEF Delivery!Next, Delivery!Report
  <2>2. CASE ~ \E k \in Logs : Fate(k) = "none" /\ Fate(k)' = "pending" /\ Report(k)
    <3> DEFINE lost == {l \in Logs : Fate(l) = "pending" /\ Fate(l)' = "lost"}
               stored == {l \in Logs : Fate(l) = "pending" /\ Fate(l)' = "stored"}
    <3>1. /\ lost \in SUBSET Logs /\ stored \in SUBSET Logs /\ lost \cap stored = {}
          /\ \A l \in lost \cup stored : fate[l] = "pending"
      OBVIOUS
    <3>2. fate' = [l \in Logs |-> IF l \in lost THEN "lost"
                                  ELSE IF l \in stored THEN "stored" ELSE fate[l]]
      BY <2>0, <2>2, FateMoves
    <3>3. Delivery!CutOff(lost, stored)
      BY <3>1, <3>2 DEF Delivery!CutOff
    <3> QED BY <3>1, <3>3 DEF Delivery!Next
  <2> QED BY <2>1, <2>2
<1> QED BY <1>1, <1>2, LogQueueInvariant, PTL DEF Spec, Delivery!Spec

-----------------------------------------------------------------------------
(* Order *)

\* The ways in which the line and the list of what the queue took may change.
LineMoves ==
    \/ waiting' = waiting /\ added' = added
    \/ Take /\ waiting' = Tail(waiting) /\ added' = added
    \/ \E m \in Logs :
          /\ place[m] # "waiting" /\ place'[m] = "waiting"
          /\ \/ /\ waiting' \in {Append(waiting, m), <<m>> \o waiting}
                /\ added' = added /\ place[m] \in {"delayed", "orphan"}
             \/ /\ waiting' = Append(waiting, m) /\ added' = Append(added, m)
                /\ place[m] = "adding"

\* A job leaves the line from its head only, and a job that begins to wait
\* stands in it.
LineStep ==
    /\ LineMoves
    /\ \A l \in Logs : place[l] = "waiting" =>
          place'[l] = "waiting" \/ (Take /\ l = Head(waiting))
    /\ \A l \in Logs : place'[l] = "waiting" =>
          place[l] = "waiting" \/ \E a \in DOMAIN waiting' : waiting'[a] = l

LEMMA NextLine ==
  ASSUME TypeOK, InLine, [Next]_vars
  PROVE  LineStep
<1>1. ASSUME NEW k \in Logs, NEW p \in Places, Put(k, p), place[k] # "waiting", p # "waiting",
             waiting' = waiting, added' = added
      PROVE  LineStep
  <2>1. \A l \in Logs : place'[l] = IF l = k THEN p ELSE place[l]
    BY <1>1, PutMoves
  <2> QED BY <1>1, <2>1 DEF LineStep, LineMoves
<1>2. ASSUME NEW k \in Logs, Put(k, "waiting"), place[k] # "waiting",
             \/ /\ waiting' \in {Append(waiting, k), <<k>> \o waiting}
                /\ added' = added /\ place[k] \in {"delayed", "orphan"}
             \/ /\ waiting' = Append(waiting, k) /\ added' = Append(added, k)
                /\ place[k] = "adding"
      PROVE  LineStep
  <2>1. \A l \in Logs : place'[l] = IF l = k THEN "waiting" ELSE place[l]
    BY <1>2, PutMoves DEF Places
  <2>2. \E a \in DOMAIN waiting' : waiting'[a] = k
    <3>1. waiting \in Seq(Logs) /\ Len(waiting) \in Nat
      BY DEF TypeOK
    <3>2. CASE waiting' = Append(waiting, k)
      BY <3>1, <3>2
    <3>3. CASE waiting' = <<k>> \o waiting
      BY <3>1, <3>3
    <3> QED BY <1>2, <3>2, <3>3
  <2> QED BY <1>2, <2>1, <2>2 DEF LineStep, LineMoves
<1>3. ASSUME NEW l \in Logs, Report(l) \/ AddFails(l) PROVE LineStep
  BY <1>1, <1>3 DEF Report, AddFails, Places
<1>4. ASSUME NEW l \in Logs, Add(l) \/ Promote(l) PROVE LineStep
  BY <1>2, <1>4 DEF Add, Promote
<1>5. ASSUME NEW l \in Logs, CheckStalled(l) PROVE LineStep
  <2>1. CASE Put(l, "failed") /\ UNCHANGED waiting
    BY <1>1, <1>5, <2>1 DEF CheckStalled, Places
  <2>2. CASE Put(l, "waiting") /\ waiting' = <<l>> \o waiting
    BY <1>2, <1>5, <2>2 DEF CheckStalled
  <2> QED BY <1>5, <2>1, <2>2 DEF CheckStalled
<1>6. CASE Take
  <2>1. /\ Head(waiting) \in Logs /\ Put(Head(waiting), "active")
        /\ waiting' = Tail(waiting) /\ added' = added
    BY <1>6, HeadWaits DEF Take
  <2>2. \A k \in Logs : place'[k] = IF k = Head(waiting) THEN "active" ELSE place[k]
    BY <2>1, PutMoves DEF Places
  <2> QED BY <1>6, <2>1, <2>2 DEF LineStep, LineMoves
<1>7. CASE Write \/ Complete \/ FailAttempt
  <2>1. PICK p \in {"written", "completed", "delayed", "failed"} : Put(job, p)
    BY <1>7 DEF Write, Complete, FailAttempt
  <2>2. job \in Logs /\ place[job] # "waiting" /\ waiting' = waiting /\ added' = added
    BY <1>7 DEF Write, Complete, FailAttempt, TypeOK
  <2> QED BY <1>1, <2>1, <2>2 DEF Places
<1>8. CASE Crash
  <2>1. /\ waiting' = waiting /\ added' = added
        /\ \A l \in Logs : place[l] = "waiting" <=> place'[l] = "waiting"
    BY <1>8 DEF Crash, TypeOK
  <2> QED BY <2>1 DEF LineStep, LineMoves
<1>9. CASE UNCHANGED vars
  BY <1>9 DEF vars, LineStep, LineMoves
<1> QED BY <1>3, <1>4, <1>5, <1>6, <1>7, <1>8, <1>9 DEF Next, Worker

\* Counters change only for a job at work or without its worker.
LEMMA CountsStay ==
  ASSUME TypeOK, [Next]_vars, NEW l \in Logs, place[l] \notin {"active", "written", "orphan"}
  PROVE  Fresh(l)' <=> Fresh(l)
<1> USE DEF counts, Fresh
<1>1. /\ failures \in [Logs -> Nat] /\ stalls \in [Logs -> Nat]
      /\ job \in Logs => place[job] \in {"active", "written"}
  BY DEF TypeOK
<1>2. ASSUME NEW k \in Logs, CheckStalled(k) PROVE Fresh(l)' <=> Fresh(l)
  <2>1. k # l /\ stalls' = [stalls EXCEPT ![k] = @ + 1] /\ failures' = failures
    BY <1>2 DEF CheckStalled
  <2> QED BY <1>1, <2>1
<1>3. CASE FailAttempt
  <2>1. job # l /\ failures' = [failures EXCEPT ![job] = @ + 1] /\ stalls' = stalls
    BY <1>1, <1>3 DEF FailAttempt, TypeOK
  <2> QED BY <1>1, <2>1
<1>4. ASSUME NEW k \in Logs,
             \/ Report(k) \/ Add(k) \/ AddFails(k) \/ Promote(k)
             \/ Take \/ Write \/ Complete \/ Crash \/ UNCHANGED vars
      PROVE  UNCHANGED <<failures, stalls>>
  BY <1>4 DEF Report, Add, AddFails, Promote, Take, Write, Complete, Crash, vars
<1> QED BY <1>2, <1>3, <1>4 DEF Next, Worker

\* A step keeps what places tell.
LEMMA NextPlacesTell ==
  ASSUME TypeOK, InLine, PlacesTell, [Next]_vars
  PROVE  PlacesTell'
<1>1. LineStep
  BY NextLine
<1>2. waiting \in Seq(Logs) /\ Len(waiting) \in Nat
  BY DEF TypeOK
<1> SUFFICES ASSUME NEW l \in Logs
             PROVE  /\ place'[l] \in {"none", "adding"} => Fresh(l)'
                    /\ place'[l] \in {"delayed", "failed"} => ~Fresh(l)'
                    /\ place'[l] = "waiting" => \E a \in DOMAIN waiting' : waiting'[a] = l
  BY DEF PlacesTell
<1>3. place'[l] \in {"none", "adding"} => Fresh(l)'
  <2> SUFFICES ASSUME place'[l] \in {"none", "adding"} PROVE Fresh(l)'
    OBVIOUS
  <2>1. place[l] \in {"none", "adding"}
    BY LogMoves
  <2> QED BY <2>1, CountsStay DEF PlacesTell
<1>4. place'[l] \in {"delayed", "failed"} => ~Fresh(l)'
  <2> SUFFICES ASSUME place'[l] \in {"delayed", "failed"} PROVE ~Fresh(l)'
    OBVIOUS
  <2>1. CASE place[l] \in {"delayed", "failed"}
    BY <2>1, CountsStay DEF PlacesTell
  <2>2. CASE place[l] \notin {"delayed", "failed"}
    <3>1. failures'[l] = failures[l] + 1 \/ stalls'[l] = stalls[l] + 1
      BY <2>2, LogMoves
    <3> QED BY <3>1, CountsGrow DEF Fresh
  <2> QED BY <2>1, <2>2
<1>5. ASSUME place'[l] = "waiting" PROVE \E a \in DOMAIN waiting' : waiting'[a] = l
  <2>1. CASE place[l] # "waiting"
    BY <1>1, <1>5, <2>1 DEF LineStep
  <2>2. CASE place[l] = "waiting"
    <3>1. PICK a \in DOMAIN waiting : waiting[a] = l
      BY <2>2 DEF PlacesTell
    <3>2. CASE waiting' = waiting
      BY <3>1, <3>2
    <3>3. CASE Take /\ waiting' = Tail(waiting)
      <4>1. waiting # <<>> /\ Put(Head(waiting), "active")
        BY <3>3 DEF Take
      <4>2. place'[Head(waiting)] = "active" /\ Head(waiting) = waiting[1]
        BY <4>1, <1>2, HeadWaits, PutMoves DEF Places
      <4>3. a # 1
        BY <1>5, <3>1, <4>2
      <4>4. a - 1 \in DOMAIN Tail(waiting) /\ Tail(waiting)[a - 1] = waiting[a]
        BY <1>2, <3>1, <4>1, <4>3
      <4> QED BY <3>1, <3>3, <4>4
    <3>4. ASSUME NEW m \in Logs, waiting' = Append(waiting, m)
          PROVE  \E b \in DOMAIN waiting' : waiting'[b] = l
      <4>1. a \in DOMAIN waiting' /\ waiting'[a] = waiting[a]
        BY <1>2, <3>1, <3>4
      <4> QED BY <3>1, <4>1
    <3>5. ASSUME NEW m \in Logs, waiting' = <<m>> \o waiting
          PROVE  \E b \in DOMAIN waiting' : waiting'[b] = l
      <4>1. a + 1 \in DOMAIN waiting' /\ waiting'[a + 1] = waiting[a]
        BY <1>2, <3>1, <3>5
      <4> QED BY <3>1, <4>1
    <3> QED BY <1>1, <3>2, <3>3, <3>4, <3>5 DEF LineStep, LineMoves
  <2> QED BY <2>1, <2>2
<1> QED BY <1>3, <1>4, <1>5

\* Who stands before another goes on to, unless it is taken.
LEMMA BeforeStays ==
  ASSUME TypeOK, InLine, [Next]_vars, NEW k \in Logs, NEW l \in Logs, Before(k, l),
         place'[k] = "waiting"
  PROVE  Before(k, l)'
<1>1. waiting \in Seq(Logs) /\ Len(waiting) \in Nat
  BY DEF TypeOK
<1>2. PICK a \in DOMAIN waiting, b \in DOMAIN waiting :
         a < b /\ waiting[a] = k /\ waiting[b] = l
  BY DEF Before
<1>3. CASE waiting' = waiting
  BY <1>3 DEF Before
<1>4. CASE Take /\ waiting' = Tail(waiting)
  <2>1. waiting # <<>> /\ Put(Head(waiting), "active")
    BY <1>4 DEF Take
  <2>2. place'[Head(waiting)] = "active" /\ Head(waiting) = waiting[1]
    BY <2>1, <1>1, HeadWaits, PutMoves DEF Places
  <2>3. a # 1
    BY <1>2, <2>2
  <2>4. /\ a - 1 \in DOMAIN Tail(waiting) /\ Tail(waiting)[a - 1] = waiting[a]
        /\ b - 1 \in DOMAIN Tail(waiting) /\ Tail(waiting)[b - 1] = waiting[b]
        /\ a - 1 < b - 1
    BY <1>1, <1>2, <2>1, <2>3
  <2> QED BY <1>2, <1>4, <2>4 DEF Before
<1>5. ASSUME NEW m \in Logs, waiting' = Append(waiting, m) PROVE Before(k, l)'
  <2>1. /\ a \in DOMAIN waiting' /\ waiting'[a] = waiting[a]
        /\ b \in DOMAIN waiting' /\ waiting'[b] = waiting[b]
    BY <1>1, <1>2, <1>5
  <2> QED BY <1>2, <2>1 DEF Before
<1>6. ASSUME NEW m \in Logs, waiting' = <<m>> \o waiting PROVE Before(k, l)'
  <2>1. /\ a + 1 \in DOMAIN waiting' /\ waiting'[a + 1] = waiting[a]
        /\ b + 1 \in DOMAIN waiting' /\ waiting'[b + 1] = waiting[b]
        /\ a + 1 < b + 1
    BY <1>1, <1>2, <1>6
  <2> QED BY <1>2, <2>1 DEF Before
<1> QED BY <1>3, <1>4, <1>5, <1>6, NextLine DEF LineStep, LineMoves

\* Two logs that the queue had taken before the step.
LEMMA PairStays ==
  ASSUME TypeOK, InLine, OrderInv, [Next]_vars, NEW k \in Logs, NEW l \in Logs,
         NEW i \in DOMAIN added, NEW j \in DOMAIN added, i < j, k = added[i], l = added[j],
         Fresh(k)', place'[k] \in {"waiting", "active", "written"}
  PROVE  /\ Fresh(l)' /\ place'[l] = "waiting"
         /\ place'[k] = "waiting" => Before(k, l)'
<1>1. place[k] \notin {"none", "adding", "dropped"}
  BY DEF OrderInv
<1>2. Fresh(k)
  BY CountsGrow DEF Fresh
<1>3. place[k] \in {"waiting", "active", "written"}
  <2>1. place[k] # "delayed"
    BY <1>2 DEF OrderInv, PlacesTell
  <2>2. place[k] # "orphan"
    <3> SUFFICES ASSUME place[k] = "orphan" PROVE FALSE
      OBVIOUS
    <3>1. stalls'[k] = stalls[k] + 1
      BY LogMoves
    <3>2. stalls[k] \in Nat /\ stalls'[k] = 0
      BY DEF TypeOK, Fresh
    <3> QED BY <3>1, <3>2
  <2>3. place[k] \in Places
    BY DEF TypeOK
  <2>4. place[k] \notin {"completed", "failed"}
    BY LogMoves
  <2> QED BY <1>1, <2>1, <2>2, <2>3, <2>4 DEF Places
<1>4. Fresh(l) /\ place[l] = "waiting" /\ (place[k] = "waiting" => Before(k, l))
  BY <1>2, <1>3 DEF OrderInv, LaterWait
<1>5. Fresh(l)'
  BY <1>4, CountsStay
<1>6. place'[l] = "waiting"
  <2> SUFFICES ASSUME Take, l = Head(waiting) PROVE FALSE
    BY <1>4, NextLine DEF LineStep
  <2>1. place[k] \notin {"active", "written"}
    BY LogAssumption DEF Take, TypeOK
  <2>2. PICK a \in DOMAIN waiting, b \in DOMAIN waiting : a < b /\ waiting[b] = l
    BY <1>3, <1>4, <2>1 DEF Before
  <2>3. waiting \in Seq(Logs)
    BY DEF TypeOK
  <2>4. b # 1 /\ 1 \in DOMAIN waiting /\ waiting[1] = l
    BY <2>2, <2>3
  <2> QED BY <2>2, <2>4 DEF InLine
<1>7. place'[k] = "waiting" => place[k] = "waiting"
  BY <1>3, LogMoves
<1>8. place'[k] = "waiting" => Before(k, l)'
  BY <1>4, <1>7, BeforeStays
<1> QED BY <1>5, <1>6, <1>8

\* The log that the queue takes comes behind all that wait.
LEMMA LastWaits ==
  ASSUME TypeOK, InLine, OrderInv, [Next]_vars, NEW m \in Logs, place[m] = "adding",
         place'[m] = "waiting", waiting' = Append(waiting, m),
         NEW k \in Logs, k # m, place'[k] = "waiting"
  PROVE  Fresh(m)' /\ Before(k, m)'
<1>1. Fresh(m)'
  BY CountsStay DEF OrderInv, PlacesTell
<1>2. PICK a \in DOMAIN waiting' : waiting'[a] = k
  BY NextPlacesTell DEF OrderInv, PlacesTell
<1>3. waiting \in Seq(Logs)
  BY DEF TypeOK
<1>4. /\ Len(waiting) + 1 \in DOMAIN waiting' /\ waiting'[Len(waiting) + 1] = m
      /\ a < Len(waiting) + 1
  BY <1>2, <1>3
<1> QED BY <1>1, <1>2, <1>4 DEF Before

LEMMA NextOrder == TypeOK /\ InLine /\ OrderInv /\ [Next]_vars => OrderInv'
<1> SUFFICES ASSUME TypeOK, InLine, OrderInv, [Next]_vars PROVE OrderInv'
  OBVIOUS
<1>1. PlacesTell'
  BY NextPlacesTell DEF OrderInv
<1>2. \A l \in Logs : place'[l] \in {"none", "adding", "dropped"} =>
         place[l] \in {"none", "adding", "dropped"}
  BY LogMoves
<1>3. \A i \in DOMAIN added :
         added[i] \in Logs /\ place'[added[i]] \notin {"none", "adding", "dropped"}
  BY <1>2 DEF OrderInv, TypeOK
<1>4. CASE added' = added
  <2> SUFFICES ASSUME NEW i \in DOMAIN added, NEW j \in DOMAIN added, i < j,
                      NEW k \in Logs, NEW l \in Logs, k = added[i], l = added[j],
                      Fresh(k)', place'[k] \in {"waiting", "active", "written"}
               PROVE  /\ Fresh(l)' /\ place'[l] = "waiting"
                      /\ place'[k] = "waiting" => Before(k, l)'
    BY <1>1, <1>3, <1>4 DEF OrderInv, LaterWait, Fresh, Before
  <2> QED BY PairStays
<1>5. ASSUME NEW m \in Logs, place[m] = "adding", place'[m] = "waiting",
             waiting' = Append(waiting, m), added' = Append(added, m)
      PROVE  OrderInv'
  <2>1. added \in Seq(Logs) /\ Len(added) \in Nat
    BY DEF TypeOK
  <2>2. /\ \A i \in DOMAIN added : i \in DOMAIN added' /\ added'[i] = added[i]
        /\ \A i \in DOMAIN added' : i \in DOMAIN added \/ i = Len(added) + 1
        /\ added'[Len(added) + 1] = m
        /\ \A i, j \in DOMAIN added' : i < j => i \in DOMAIN added
    BY <1>5, <2>1
  <2>3. \A i \in DOMAIN added : added[i] # m
    BY <1>5 DEF OrderInv
  <2>4. ASSUME NEW i \in DOMAIN added', NEW j \in DOMAIN added', i < j,
               NEW k \in Logs, NEW l \in Logs, k = added'[i], l = added'[j],
               Fresh(k)', place'[k] \in {"waiting", "active", "written"}
        PROVE  /\ Fresh(l)' /\ place'[l] = "waiting"
               /\ place'[k] = "waiting" => Before(k, l)'
    <3>1. i \in DOMAIN added /\ k = added[i] /\ k # m
      BY <2>2, <2>3, <2>4
    <3>2. CASE j \in DOMAIN added
      <4>1. l = added[j]
        BY <2>2, <2>4, <3>2
      <4> QED BY <2>4, <3>1, <3>2, <4>1, PairStays
    <3>3. CASE j = Len(added) + 1
      <4>1. l = m
        BY <2>2, <2>4, <3>3
      <4>2. Fresh(m)'
        BY <1>5, CountsStay DEF OrderInv, PlacesTell
      <4>3. place'[k] = "waiting" => Before(k, m)'
        BY <1>5, <3>1, LastWaits
      <4> QED BY <1>5, <4>1, <4>2, <4>3
    <3> QED BY <2>2, <3>2, <3>3
  <2>5. \A i \in DOMAIN added' : added'[i] \in Logs
    BY <1>3, <1>5, <2>2
  <2>6. LaterWait'
    BY <2>4, <2>5 DEF LaterWait, Fresh, Before
  <2>7. \A i \in DOMAIN added' : place'[added'[i]] \notin {"none", "adding", "dropped"}
    BY <1>3, <1>5, <2>2
  <2> QED BY <1>1, <2>6, <2>7 DEF OrderInv
<1> QED BY <1>4, <1>5, NextLine DEF LineStep, LineMoves

\* Logs whose first attempt does not fail or lose its worker are stored in the
\* order in which the queue took them, whatever is retried in between.
THEOREM OrderIsKept == Spec => []FirstTriesInOrder
<1>1. Init => OrderInv
  BY DEF Init, OrderInv, PlacesTell, LaterWait, Fresh
<1>2. LogQueueInv /\ OrderInv /\ [Next]_vars => OrderInv'
  BY NextOrder DEF LogQueueInv
<1>3. LogQueueInv /\ OrderInv => FirstTriesInOrder
  <2> SUFFICES ASSUME LogQueueInv, OrderInv, NEW i \in 1 .. Len(added), NEW j \in 1 .. Len(added),
                      i < j, place[added[j]] = "completed", Fresh(added[i]),
                      place[added[i]] # "orphan"
               PROVE  place[added[i]] = "completed"
    BY DEF FirstTriesInOrder, Fresh
  <2>1. added \in Seq(Logs) /\ i \in DOMAIN added /\ j \in DOMAIN added
    BY DEF LogQueueInv, TypeOK
  <2>2. added[i] \in Logs /\ place[added[i]] \in Places
    BY <2>1 DEF LogQueueInv, TypeOK
  <2>3. place[added[i]] \notin {"waiting", "active", "written"}
    BY <2>1 DEF OrderInv, LaterWait
  <2>4. place[added[i]] \notin {"none", "adding", "dropped", "delayed", "failed"}
    BY <2>1, <2>2 DEF OrderInv, PlacesTell
  <2> QED BY <2>2, <2>3, <2>4 DEF Places
<1> QED BY <1>1, <1>2, <1>3, LogQueueInvariant, PTL DEF Spec

=============================================================================
