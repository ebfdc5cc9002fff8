----------------------------- MODULE JobStatus -----------------------------
(***************************************************************************)
(* What the job API promises about the Status column of a brownfield job:  *)
(* a job appears as "queued", settles in one of the terminal statuses, and *)
(* never becomes active again.  The promise is deliberately weaker than    *)
(* the state diagram of the repository's README: a settled job may still   *)
(* be re-settled in another terminal status, because neither the cancel    *)
(* handler nor the worker-event handler re-reads the row when it writes.   *)
(***************************************************************************)
CONSTANT Jobs          \* the ids of the jobs that may ever be created

VARIABLE status        \* status[j]: the Status column, "absent" before the row exists

Terminal == {"completed", "failed", "cancelled"}
Statuses == {"absent", "queued"} \cup Terminal

Init == status = [j \in Jobs |-> "absent"]

Submit(j) ==
  /\ status[j] = "absent"
  /\ status' = [status EXCEPT ![j] = "queued"]

Settle(j, s) ==
  /\ status[j] # "absent"
  /\ status' = [status EXCEPT ![j] = s]

Next == \E j \in Jobs : Submit(j) \/ \E s \in Terminal : Settle(j, s)

Spec == Init /\ [][Next]_status
============================================================================
