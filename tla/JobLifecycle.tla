---------------------------- MODULE JobLifecycle ----------------------------
(***************************************************************************)
(* What the jobs table promises to its readers (the admin job list, the    *)
(* clients that poll GET /jobs/:id): the status of a job only ever moves   *)
(* forward.  A job id is used once, a finished job is never reopened, and  *)
(* only finished jobs are ever deleted.  JobQueue implements this.         *)
(***************************************************************************)
CONSTANT Jobs

VARIABLE status     \* status[j]: the row of job j, as a reader sees it

\* The row's status column; "none" and "deleted" both mean that no row exists,
\* before the insert and after the pruning.
Statuses == {"none", "pending", "running", "completed", "failed", "deleted"}
Finished == {"completed", "failed"}
Unfinished == {"pending", "running"}

Init == status = [j \in Jobs |-> "none"]

Create(j) ==
  /\ status[j] = "none"
  /\ status' = [status EXCEPT ![j] = "pending"]

Begin(j) ==
  /\ status[j] = "pending"
  /\ status' = [status EXCEPT ![j] = "running"]

\* A job may finish from "pending": it is refused, or its start went unrecorded.
Finish(j) ==
  /\ status[j] \in Unfinished
  /\ \E s \in Finished : status' = [status EXCEPT ![j] = s]

\* One statement fails every job that was running when the server went down.
Interrupt ==
  status' = [j \in Jobs |-> IF status[j] = "running" THEN "failed" ELSE status[j]]

Delete ==
  \E old \in SUBSET {j \in Jobs : status[j] \in Finished} :
    status' = [j \in Jobs |-> IF j \in old THEN "deleted" ELSE status[j]]

Next ==
  \/ \E j \in Jobs : Create(j) \/ Begin(j) \/ Finish(j)
  \/ Interrupt
  \/ Delete

Spec == Init /\ [][Next]_status
=============================================================================
