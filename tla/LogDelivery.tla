---------------------------- MODULE LogDelivery -----------------------------
(***************************************************************************)
(* What LogService.createLog comes to for each log: it is stored in the    *)
(* end or lost, one of the two, and that is final.  Nobody is told which.  *)
(***************************************************************************)
CONSTANT Logs \* the errors that requests end in

VARIABLE fate \* "none", "pending", "stored" or "lost"

Init == fate = [l \in Logs |-> "none"]

Report(l) ==
    /\ fate[l] = "none"
    /\ fate' = [fate EXCEPT ![l] = "pending"]

Settle(l) ==
    /\ fate[l] = "pending"
    /\ \E end \in {"stored", "lost"} : fate' = [fate EXCEPT ![l] = end]

\* The process goes down: logs that wait for the queue to take them are lost,
\* and the one that is being written may be stored.
CutOff(lost, stored) ==
    /\ \A l \in lost \cup stored : fate[l] = "pending"
    /\ fate' = [l \in Logs |-> IF l \in lost THEN "lost"
                               ELSE IF l \in stored THEN "stored" ELSE fate[l]]

Next ==
    \/ \E l \in Logs : Report(l) \/ Settle(l)
    \/ \E lost, stored \in SUBSET Logs : lost \cap stored = {} /\ CutOff(lost, stored)

Spec == Init /\ [][Next]_fate

FairSpec == Spec /\ \A l \in Logs : WF_fate(Settle(l))

=============================================================================
