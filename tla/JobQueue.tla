------------------------------ MODULE JobQueue ------------------------------
(***************************************************************************)
(* The background job queue (src/pkg/worker/queue.go) together with the    *)
(* service that persists its jobs and recovers them at boot                *)
(* (src/internal/services/jobService.go) and the SQL it runs.              *)
(*                                                                         *)
(* A job is a row of the jobs table plus, while a process is up, one copy  *)
(* in memory: in the buffered channel q.jobs, in the submit queue of the   *)
(* worker pool, or on a worker.  Everything in memory is lost when the     *)
(* process exits; the rows survive and Recover() rebuilds the channel.     *)
(*                                                                         *)
(* Bounds: MaxRestarts process exits, MaxFaults status writes that fail.   *)
(***************************************************************************)
EXTENDS Naturals, Sequences, FiniteSets

CONSTANTS
  Jobs,          \* job ids; every trigger draws a fresh one (uuid v7)
  Workers,       \* the pool's workers (JOB_WORKERS)
  BufferSize,    \* capacity of the channel q.jobs
  Keep,          \* keepFinishedJobs, the finished rows the pruning leaves
  NoJob,         \* what an idle worker holds
  MaxRestarts,   \* bound: exits of the process, graceful or not
  MaxFaults      \* bound: status updates the database refuses

ASSUME JobsAssumption == IsFiniteSet(Jobs) /\ NoJob \notin Jobs
ASSUME BufferAssumption == BufferSize \in Nat \ {0}
ASSUME KeepAssumption == Keep \in Nat
ASSUME BoundsAssumption == MaxRestarts \in Nat /\ MaxFaults \in Nat

VARIABLES
  row,         \* persisted: row[j] is the status column of job j
  call,        \* call[j]: where the call Enqueue(j) stands
  chan,        \* the buffered channel q.jobs
  pool,        \* jobs handed to pool.Submit that no worker has taken yet
  pc,          \* pc[w]: where worker w stands in process()
  cur,         \* cur[w]: the job worker w is processing
  attempt,     \* attempt[w]: which of the attempts of process() is under way
  ctxDone,     \* q.ctx is cancelled
  stopped,     \* q.stopped
  loop,        \* the dispatcher goroutine of Start(): "off", "on" or "exited"
  phase,       \* how far the boot sequence is; "up" once the server serves
  recovering,  \* rows listed by Recover() that it has still to requeue
  leftover,    \* pending rows that this boot's batch did not list
  restarts,    \* exits so far
  faults,      \* refused status writes so far
  starts,      \* history: how many process() calls of j reached the handler
  lostWrites   \* history: <<j, s, life>>, the status writes that did not reach the table

rowVars == <<row, faults, lostWrites>>
queueVars == <<chan, pool>>
workerVars == <<pc, cur, attempt>>
bootVars == <<loop, phase, recovering, leftover, restarts>>
stopVars == <<ctxDone, stopped>>
vars == <<rowVars, call, queueVars, workerVars, stopVars, bootVars, starts>>

Statuses == {"none", "pending", "running", "completed", "failed", "deleted"}
Finished == {"completed", "failed"}
Unfinished == {"pending", "running"}
CallStates == {"new", "checked", "persisted", "rejecting", "accepted", "rejected", "lost"}
InCall == {"checked", "persisted", "rejecting"}
WorkerStates == {"idle", "start", "handler", "backoff", "ok", "failing", "cancelled"}
Phases == {"mark", "list", "requeue", "prune", "start", "up"}
MaxAttempts == 3

JobsIn(s) == {s[i] : i \in 1..Len(s)}
OnWorker == {cur[w] : w \in {v \in Workers : pc[v] # "idle"}}
InMemory == JobsIn(chan) \cup JobsIn(pool) \cup OnWorker
RowsIn(S) == {j \in Jobs : row[j] \in S}

-----------------------------------------------------------------------------
(* UpdateJobStatus.  The update of a missing row changes nothing.  Every   *)
(* caller drops the error it returns, so a lost write changes nothing      *)
(* either and is only remembered here, in lostWrites.                      *)

Exists(j) == row[j] \notin {"none", "deleted"}

WriteOK(j, s) ==
  /\ row' = IF Exists(j) THEN [row EXCEPT ![j] = s] ELSE row
  /\ UNCHANGED <<faults, lostWrites>>

LoseWrite(j, s) ==
  /\ lostWrites' = lostWrites \cup {<<j, s, restarts>>}
  /\ UNCHANGED row

\* The database refuses the update (busy, disk full, I/O error).
WriteFault(j, s) ==
  /\ faults < MaxFaults
  /\ faults' = faults + 1
  /\ LoseWrite(j, s)

\* A write under context.Background() survives the cancellation of q.ctx.
WriteBackground(j, s) == WriteOK(j, s) \/ WriteFault(j, s)

\* A write under q.ctx is not even attempted once Stop has cancelled it.
WriteQueueCtx(j, s) ==
  \/ /\ ~ctxDone
     /\ WriteBackground(j, s)
  \/ /\ ctxDone
     /\ LoseWrite(j, s)
     /\ UNCHANGED faults

-----------------------------------------------------------------------------
(* enqueue(ctx, job, persist = TRUE), in the goroutine of its caller: a    *)
(* request handler, the scheduler, or the handler of another job.          *)

\* q.stopped is read under the mutex, once, before anything else.
EnqueueStart(j) ==
  /\ phase = "up"
  /\ call[j] = "new"
  /\ call' = [call EXCEPT ![j] = IF stopped THEN "rejected" ELSE "checked"]
  /\ UNCHANGED <<rowVars, queueVars, workerVars, stopVars, bootVars, starts>>

\* lc.Queued: the row is inserted as "pending" before the channel is tried.
Queued(j) ==
  /\ call[j] = "checked"
  /\ row' = [row EXCEPT ![j] = "pending"]
  /\ call' = [call EXCEPT ![j] = "persisted"]
  /\ UNCHANGED <<faults, lostWrites, queueVars, workerVars, stopVars, bootVars, starts>>

\* lc.Queued fails (the caller's context expired, the insert was refused).
QueuedError(j) ==
  /\ call[j] = "checked"
  /\ call' = [call EXCEPT ![j] = "rejected"]
  /\ UNCHANGED <<rowVars, queueVars, workerVars, stopVars, bootVars, starts>>

\* Faulty variant: the send does not wait for room in the channel.
AcceptWhenFull(j) ==
  /\ call[j] = "persisted"
  /\ chan' = Append(chan, j)
  /\ call' = [call EXCEPT ![j] = "accepted"]
  /\ UNCHANGED <<rowVars, pool, workerVars, stopVars, bootVars, starts>>

\* The select picks any ready case: the send is open to it whenever the
\* channel has room, also when q.ctx or the caller's context is already done.
Accept(j) ==
  /\ call[j] = "persisted"
  /\ Len(chan) < BufferSize
  /\ chan' = Append(chan, j)
  /\ call' = [call EXCEPT ![j] = "accepted"]
  /\ UNCHANGED <<rowVars, pool, workerVars, stopVars, bootVars, starts>>

\* Channel full and nothing else ready (default), q.ctx done, or the caller's
\* own context done, which may happen at any moment.
Reject(j) ==
  /\ call[j] = "persisted"
  /\ call' = [call EXCEPT ![j] = "rejecting"]
  /\ UNCHANGED <<rowVars, queueVars, workerVars, stopVars, bootVars, starts>>

\* Faulty variant: the error goes to the caller and the row stays "pending".
RejectSilently(j) ==
  /\ call[j] = "rejecting"
  /\ call' = [call EXCEPT ![j] = "rejected"]
  /\ UNCHANGED <<rowVars, queueVars, workerVars, stopVars, bootVars, starts>>

\* lc.Failed(context.Background(), ...), then the error goes to the caller.
RejectFailed(j) ==
  /\ call[j] = "rejecting"
  /\ WriteBackground(j, "failed")
  /\ call' = [call EXCEPT ![j] = "rejected"]
  /\ UNCHANGED <<queueVars, workerVars, stopVars, bootVars, starts>>

Enqueue(j) ==
  EnqueueStart(j) \/ Queued(j) \/ QueuedError(j) \/ Accept(j) \/ Reject(j) \/ RejectFailed(j)

-----------------------------------------------------------------------------
(* Start(): one goroutine moves jobs from the channel to the pool.         *)

\* Faulty variant: the job is looked at and not taken from the channel.
DispatchPeek ==
  /\ loop = "on"
  /\ chan # <<>>
  /\ Len(pool) < 3
  /\ pool' = Append(pool, Head(chan))
  /\ UNCHANGED <<rowVars, call, chan, workerVars, stopVars, bootVars, starts>>

\* pool.Submit never blocks: pond's submit queue is unbounded.  The select may
\* take this case although q.ctx is done.
Dispatch ==
  /\ loop = "on"
  /\ chan # <<>>
  /\ chan' = Tail(chan)
  /\ pool' = Append(pool, Head(chan))
  /\ UNCHANGED <<rowVars, call, workerVars, stopVars, bootVars, starts>>

\* Faulty variant: the loop ends with the channel, which nobody closes.
DispatchExitNever == FALSE /\ UNCHANGED vars

DispatchExit ==
  /\ loop = "on"
  /\ ctxDone
  /\ loop' = "exited"
  /\ UNCHANGED <<rowVars, call, queueVars, workerVars, stopVars, phase, recovering, leftover,
                 restarts, starts>>

-----------------------------------------------------------------------------
(* process(job) on worker w of the pool.                                   *)

Goto(w, label) == pc' = [pc EXCEPT ![w] = label]

Return(w) ==
  /\ Goto(w, "idle")
  /\ cur' = [cur EXCEPT ![w] = NoJob]
  /\ attempt' = [attempt EXCEPT ![w] = 0]

Pick(w) ==
  /\ pc[w] = "idle"
  /\ pool # <<>>
  /\ pool' = Tail(pool)
  /\ cur' = [cur EXCEPT ![w] = Head(pool)]
  /\ Goto(w, "start")
  /\ UNCHANGED <<rowVars, call, chan, attempt, stopVars, bootVars, starts>>

NoHandler(w) ==
  /\ pc[w] = "start"
  /\ Goto(w, "failing")
  /\ UNCHANGED <<rowVars, call, queueVars, cur, attempt, stopVars, bootVars, starts>>

\* lc.Running(q.ctx, job), whose error is dropped, and the first handler call.
Begin(w) ==
  /\ pc[w] = "start"
  /\ WriteQueueCtx(cur[w], "running")
  /\ starts' = [starts EXCEPT ![cur[w]] = @ + 1]
  /\ attempt' = [attempt EXCEPT ![w] = 1]
  /\ Goto(w, "handler")
  /\ UNCHANGED <<call, queueVars, cur, stopVars, bootVars>>

HandlerOK(w) ==
  /\ pc[w] = "handler"
  /\ Goto(w, "ok")
  /\ UNCHANGED <<rowVars, call, queueVars, cur, attempt, stopVars, bootVars, starts>>

HandlerError(w) ==
  /\ pc[w] = "handler"
  /\ Goto(w, IF attempt[w] < MaxAttempts THEN "backoff" ELSE "failing")
  /\ UNCHANGED <<rowVars, call, queueVars, cur, attempt, stopVars, bootVars, starts>>

\* The deferred recover() turns a panic of the handler into Failed(q.ctx).
HandlerPanic(w) ==
  /\ pc[w] = "handler"
  /\ Goto(w, "failing")
  /\ UNCHANGED <<rowVars, call, queueVars, cur, attempt, stopVars, bootVars, starts>>

\* time.After(attempt * 500ms) fires and the handler is called again.
BackoffElapsed(w) ==
  /\ pc[w] = "backoff"
  /\ attempt' = [attempt EXCEPT ![w] = @ + 1]
  /\ Goto(w, "handler")
  /\ UNCHANGED <<rowVars, call, queueVars, cur, stopVars, bootVars, starts>>

BackoffCancelled(w) ==
  /\ pc[w] = "backoff"
  /\ ctxDone
  /\ Goto(w, "cancelled")
  /\ UNCHANGED <<rowVars, call, queueVars, cur, attempt, stopVars, bootVars, starts>>

Completed(w) ==
  /\ pc[w] = "ok"
  /\ WriteQueueCtx(cur[w], "completed")
  /\ Return(w)
  /\ UNCHANGED <<call, queueVars, stopVars, bootVars, starts>>

\* No handler, a panic or the last attempt: lc.Failed(q.ctx, ...).
FailedQueueCtx(w) ==
  /\ pc[w] = "failing"
  /\ WriteQueueCtx(cur[w], "failed")
  /\ Return(w)
  /\ UNCHANGED <<call, queueVars, stopVars, bootVars, starts>>

\* Cancelled between two attempts: lc.Failed(context.Background(), ...).
FailedBackground(w) ==
  /\ pc[w] = "cancelled"
  /\ WriteBackground(cur[w], "failed")
  /\ Return(w)
  /\ UNCHANGED <<call, queueVars, stopVars, bootVars, starts>>

HandlerReturns(w) == HandlerOK(w) \/ HandlerError(w) \/ HandlerPanic(w)

Process(w) ==
  \/ Pick(w) \/ NoHandler(w) \/ Begin(w) \/ HandlerReturns(w)
  \/ BackoffElapsed(w) \/ BackoffCancelled(w)
  \/ Completed(w) \/ FailedQueueCtx(w) \/ FailedBackground(w)

-----------------------------------------------------------------------------
(* PruneFinishedJobs deletes all but the Keep most recently updated of the *)
(* finished rows.  updated_at has a resolution of one second, so among     *)
(* rows of the same second the choice is the database's.                   *)

Surplus(n) == IF n > Keep THEN n - Keep ELSE 0

\* Faulty variant: every row that is not "running" counts as finished.
DeleteOldOrPending ==
  \E old \in SUBSET RowsIn(Finished \cup {"pending"}) :
    /\ Cardinality(old) = Surplus(Cardinality(RowsIn(Finished \cup {"pending"})))
    /\ row' = [j \in Jobs |-> IF j \in old THEN "deleted" ELSE row[j]]

DeleteOld ==
  \E old \in SUBSET RowsIn(Finished) :
    /\ Cardinality(old) = Surplus(Cardinality(RowsIn(Finished)))
    /\ row' = [j \in Jobs |-> IF j \in old THEN "deleted" ELSE row[j]]

\* The prune_finished_jobs task; the job that runs it is not one of Jobs.
PruneTask ==
  /\ phase = "up"
  /\ Cardinality(RowsIn(Finished)) > Keep
  /\ DeleteOld
  /\ UNCHANGED <<faults, lostWrites, call, queueVars, workerVars, stopVars, bootVars, starts>>

-----------------------------------------------------------------------------
(* Boot: Recover(), before any worker or caller exists, then Start().      *)

\* Faulty variant: the batch limit and the channel capacity drift apart.
RecoverBatchTooLarge == BufferSize + 1

RecoverBatchSize == BufferSize

\* Faulty variant: interrupted jobs are put back in line.
BootMarkRequeues ==
  /\ phase = "mark"
  /\ row' = [j \in Jobs |-> IF row[j] = "running" THEN "pending" ELSE row[j]]
  /\ phase' = "list"
  /\ UNCHANGED <<faults, lostWrites, call, queueVars, workerVars, stopVars, loop, recovering,
                 leftover, restarts, starts>>

\* MarkRunningJobsInterrupted
BootMark ==
  /\ phase = "mark"
  /\ row' = [j \in Jobs |-> IF row[j] = "running" THEN "failed" ELSE row[j]]
  /\ phase' = "list"
  /\ UNCHANGED <<faults, lostWrites, call, queueVars, workerVars, stopVars, loop, recovering,
                 leftover, restarts, starts>>

\* ListUnfinishedJobs(recoverBatchSize, 0): the oldest first, where created_at
\* too has a resolution of one second.
BootList ==
  /\ phase = "list"
  /\ \E batch \in SUBSET RowsIn(Unfinished) :
       /\ Cardinality(batch) = IF Cardinality(RowsIn(Unfinished)) < RecoverBatchSize
                               THEN Cardinality(RowsIn(Unfinished)) ELSE RecoverBatchSize
       /\ recovering' = {j \in batch : row[j] = "pending"}
       /\ leftover' = RowsIn(Unfinished) \ batch
  /\ phase' = "requeue"
  /\ UNCHANGED <<rowVars, call, queueVars, workerVars, stopVars, loop, restarts, starts>>

\* EnqueueExisting, that is enqueue with persist = FALSE
Requeue(j) ==
  /\ phase = "requeue"
  /\ j \in recovering
  /\ recovering' = recovering \ {j}
  /\ \/ /\ Len(chan) < BufferSize
        /\ chan' = Append(chan, j)
        /\ UNCHANGED rowVars
     \/ /\ Len(chan) = BufferSize
        /\ WriteBackground(j, "failed")
        /\ UNCHANGED chan
  /\ UNCHANGED <<call, pool, workerVars, stopVars, loop, phase, leftover, restarts, starts>>

RequeueDone ==
  /\ phase = "requeue"
  /\ recovering = {}
  /\ phase' = "prune"
  /\ UNCHANGED <<rowVars, call, queueVars, workerVars, stopVars, loop, recovering, leftover,
                 restarts, starts>>

BootPrune ==
  /\ phase = "prune"
  /\ DeleteOld
  /\ phase' = "start"
  /\ UNCHANGED <<faults, lostWrites, call, queueVars, workerVars, stopVars, loop, recovering,
                 leftover, restarts, starts>>

\* Faulty variant: the server serves and the queue was never started.
BootWithoutStart ==
  /\ phase = "start"
  /\ phase' = "up"
  /\ UNCHANGED <<rowVars, call, queueVars, workerVars, stopVars, loop, recovering, leftover,
                 restarts, starts>>

\* The handlers are registered, jobQueue.Start() runs, requests are served.
BootStart ==
  /\ phase = "start"
  /\ phase' = "up"
  /\ loop' = "on"
  /\ UNCHANGED <<rowVars, call, queueVars, workerVars, stopVars, recovering, leftover, restarts,
                 starts>>

Boot == BootMark \/ BootList \/ (\E j \in Jobs : Requeue(j)) \/ RequeueDone \/ BootPrune \/ BootStart

-----------------------------------------------------------------------------
(* StopContext, and the end of the process.                                *)

\* q.cancel(): the workers and the dispatcher see it before q.stopped is set.
StopCancel ==
  /\ phase = "up"
  /\ ~ctxDone
  /\ ctxDone' = TRUE
  /\ UNCHANGED <<rowVars, call, queueVars, workerVars, stopped, bootVars, starts>>

StopSetStopped ==
  /\ ctxDone
  /\ ~stopped
  /\ stopped' = TRUE
  /\ UNCHANGED <<rowVars, call, queueVars, workerVars, ctxDone, bootVars, starts>>

\* The process ends: it is killed, a boot step fails (log.Fatal), or a
\* graceful stop returns, with its workers drained or not (the wait gives up
\* after five seconds).  The next process starts with the rows alone.
Exit ==
  /\ restarts < MaxRestarts
  /\ restarts' = restarts + 1
  /\ call' = [j \in Jobs |-> IF call[j] \in InCall THEN "lost" ELSE call[j]]
  /\ chan' = <<>>
  /\ pool' = <<>>
  /\ pc' = [w \in Workers |-> "idle"]
  /\ cur' = [w \in Workers |-> NoJob]
  /\ attempt' = [w \in Workers |-> 0]
  /\ ctxDone' = FALSE
  /\ stopped' = FALSE
  /\ loop' = "off"
  /\ phase' = "mark"
  /\ recovering' = {}
  /\ leftover' = {}
  /\ UNCHANGED <<rowVars, starts>>

-----------------------------------------------------------------------------
Init ==
  /\ row = [j \in Jobs |-> "none"]
  /\ call = [j \in Jobs |-> "new"]
  /\ chan = <<>>
  /\ pool = <<>>
  /\ pc = [w \in Workers |-> "idle"]
  /\ cur = [w \in Workers |-> NoJob]
  /\ attempt = [w \in Workers |-> 0]
  /\ ctxDone = FALSE
  /\ stopped = FALSE
  /\ loop = "off"
  /\ phase = "mark"
  /\ recovering = {}
  /\ leftover = {}
  /\ restarts = 0
  /\ faults = 0
  /\ starts = [j \in Jobs |-> 0]
  /\ lostWrites = {}

Next ==
  \/ \E j \in Jobs : Enqueue(j)
  \/ Dispatch \/ DispatchExit
  \/ \E w \in Workers : Process(w)
  \/ PruneTask
  \/ Boot
  \/ StopCancel \/ StopSetStopped
  \/ Exit

Spec == Init /\ [][Next]_vars

\* Goroutines that can run do run: the dispatcher, the workers, the boot
\* sequence.  A handler returns because it is called with a one-hour timeout.
\* Nothing forces a caller, an administrator or an exit.
Fairness ==
  /\ WF_vars(Dispatch) /\ WF_vars(DispatchExit)
  /\ WF_vars(Boot)
  /\ \A w \in Workers : WF_vars(Process(w))

FairSpec == Spec /\ Fairness

-----------------------------------------------------------------------------
(* Properties.                                                             *)

\* Every variable has its type (the persisted rows, the control states and the
\* history of queue.go and jobService.go).
TypeOK ==
  /\ row \in [Jobs -> Statuses]
  /\ call \in [Jobs -> CallStates]
  /\ chan \in Seq(Jobs) /\ Len(chan) <= BufferSize
  /\ pool \in Seq(Jobs)
  /\ pc \in [Workers -> WorkerStates]
  /\ cur \in [Workers -> Jobs \cup {NoJob}]
  /\ attempt \in [Workers -> 0..MaxAttempts]
  /\ ctxDone \in BOOLEAN /\ stopped \in BOOLEAN
  /\ loop \in {"off", "on", "exited"}
  /\ phase \in Phases
  /\ recovering \subseteq Jobs /\ leftover \subseteq Jobs
  /\ restarts \in 0..MaxRestarts /\ faults \in 0..MaxFaults
  /\ starts \in [Jobs -> Nat]
  /\ lostWrites \subseteq Jobs \X Statuses \X (0..MaxRestarts)

Distinct(s) == \A i, k \in 1..Len(s) : s[i] = s[k] => i = k

\* A job has at most one copy in memory, so no two workers ever process it at the
\* same time, also right after a recovery (queue.go:90-149, jobService.go:144).
SingleCopy ==
  /\ Distinct(chan) /\ Distinct(pool)
  /\ JobsIn(chan) \cap JobsIn(pool) = {}
  /\ OnWorker \cap (JobsIn(chan) \cup JobsIn(pool)) = {}
  /\ \A v, w \in Workers : pc[v] # "idle" /\ pc[w] # "idle" /\ cur[v] = cur[w] => v = w

\* What waits in memory is still "pending" in the table and what a worker holds is
\* "pending" or "running": the pruning and the boot's failing of interrupted jobs
\* never take the row of a job that is about to run (jobService.go:144-177).
InFlightUnfinished ==
  /\ \A j \in JobsIn(chan) \cup JobsIn(pool) : row[j] = "pending"
  /\ \A w \in Workers : pc[w] # "idle" => row[cur[w]] \in Unfinished

LostThisLife(j) == \E s \in Finished : <<j, s, restarts>> \in lostWrites

\* While the server is up, an unfinished row always has someone who will finish
\* it: a copy in memory or the caller that is still enqueueing it.  The two ways
\* to be left behind are the recovery batch limit and a lost final write.
NoOrphanRow ==
  phase = "up" /\ ~ctxDone =>
    \A j \in RowsIn(Unfinished) :
      \/ j \in InMemory
      \/ call[j] \in {"persisted", "rejecting"}
      \/ j \in leftover
      \/ LostThisLife(j)

EverLost(j, s) == \E life \in 0..restarts : <<j, s, life>> \in lostWrites

\* A job reaches its handler again after a restart only when the earlier
\* "running" write was lost: a recorded start makes the boot fail the job
\* instead of repeating its effects (jobService.go:145, operations.sql:13).
RerunOnlyUnrecorded ==
  \A j \in Jobs : starts[j] > 1 => EverLost(j, "running")

\* A caller that was refused (queue full, stopped, context done) may retry with a
\* new job: the refused one never runs, in this process or after a restart,
\* unless the write that marks it failed was lost (queue.go:110-128).
RejectedNeverRuns ==
  \A j \in Jobs : call[j] = "rejected" /\ starts[j] > 0 => EverLost(j, "failed")

\* The recovery batch always fits the channel, so no job that survived a restart
\* is failed for lack of room (jobService.go:22, jobRecover_test.go:11).
RecoveryFits ==
  phase = "requeue" => Len(chan) + Cardinality(recovering) <= BufferSize

\* The table, as its readers see it, keeps the promise of JobLifecycle.
Lifecycle == INSTANCE JobLifecycle WITH status <- row
LifecycleSpec == Lifecycle!Spec

\* A job that is in memory of a serving process reaches a final status, or the
\* process is stopped or dies first, or its final write is lost (queue.go:131-202).
AcceptedFinishes ==
  \A j \in Jobs :
    phase = "up" /\ j \in InMemory ~>
      \/ row[j] \in Finished \cup {"deleted"}
      \/ ctxDone
      \/ phase # "up"
      \/ LostThisLife(j)

\* Once the queue is cancelled, everything handed to the pool is processed to its
\* end and the dispatcher leaves, so wg.Wait() of StopContext returns
\* (queue.go:208-229), unless the process exits before.
StopDrains ==
  ctxDone ~> \/ loop = "exited" /\ pool = <<>> /\ OnWorker = {}
             \/ phase # "up"

\* The comment on Enqueue (queue.go:89): the channel is the only bound, overflow is
\* refused and never handed to the pool.  Then, with every worker busy, the accepted
\* jobs that wait fit the channel, but for the one the dispatcher has in hand.
ChannelIsOnlyBound ==
  (\A w \in Workers : pc[w] # "idle") => Len(chan) + Len(pool) <= BufferSize + 1

\* The message the boot writes on every row it finds "running" (operations.sql:15):
\* "server restarted while job was running".  Then, in a serving process whose
\* writes never fail, a row says "running" only while a worker has the job.
RunningIsRunning ==
  phase = "up" => \A j \in RowsIn({"running"}) : j \in OnWorker
=============================================================================
