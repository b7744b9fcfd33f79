--------------------------- MODULE JobQueueProofs ---------------------------
(***************************************************************************)
(* Proofs about JobQueue, for any number of jobs and workers, any channel  *)
(* capacity and any number of restarts and refused writes.                 *)
(***************************************************************************)
EXTENDS JobQueue, FiniteSetTheorems, TLAPS

-----------------------------------------------------------------------------
(* Sequences of jobs.                                                      *)

LEMMA AppendJobs ==
  ASSUME NEW s \in Seq(Jobs), NEW j \in Jobs
  PROVE  /\ Append(s, j) \in Seq(Jobs)
         /\ Len(Append(s, j)) = Len(s) + 1
         /\ JobsIn(Append(s, j)) = JobsIn(s) \cup {j}
         /\ Distinct(s) /\ j \notin JobsIn(s) => Distinct(Append(s, j))
<1>1. /\ Append(s, j) \in Seq(Jobs)
      /\ Len(Append(s, j)) = Len(s) + 1
      /\ Len(s) \in Nat
  OBVIOUS
<1>2. \A i \in 1..Len(s) : Append(s, j)[i] = s[i]
  OBVIOUS
<1>3. Append(s, j)[Len(s) + 1] = j
  OBVIOUS
<1>4. 1..Len(Append(s, j)) = (1..Len(s)) \cup {Len(s) + 1}
  BY <1>1
<1>5. JobsIn(Append(s, j)) = JobsIn(s) \cup {j}
  BY <1>2, <1>3, <1>4 DEF JobsIn
<1>6. ASSUME Distinct(s), j \notin JobsIn(s)
      PROVE  Distinct(Append(s, j))
  BY <1>2, <1>3, <1>4, <1>6 DEF Distinct, JobsIn
<1> QED BY <1>1, <1>5, <1>6

LEMMA TailJobs ==
  ASSUME NEW s \in Seq(Jobs), s # <<>>
  PROVE  /\ Tail(s) \in Seq(Jobs)
         /\ Head(s) \in Jobs
         /\ Len(Tail(s)) <= Len(s)
         /\ JobsIn(s) = JobsIn(Tail(s)) \cup {Head(s)}
         /\ Distinct(s) => Distinct(Tail(s)) /\ Head(s) \notin JobsIn(Tail(s))
<1>1. /\ Tail(s) \in Seq(Jobs)
      /\ Head(s) = s[1]
      /\ s[1] \in Jobs
      /\ Len(s) \in Nat \ {0}
      /\ Len(Tail(s)) = Len(s) - 1
  OBVIOUS
<1>2. \A i \in 1..(Len(s) - 1) : Tail(s)[i] = s[i + 1]
  OBVIOUS
<1>3. \A k \in 1..Len(s) : k = 1 \/ (k - 1) \in 1..(Len(s) - 1)
  BY <1>1
<1>4. \A i \in 1..(Len(s) - 1) : (i + 1) \in 1..Len(s)
  BY <1>1
<1>5. JobsIn(s) = JobsIn(Tail(s)) \cup {Head(s)}
  <2>1. ASSUME NEW k \in 1..Len(s)
        PROVE  s[k] \in JobsIn(Tail(s)) \cup {Head(s)}
    <3>1. CASE k = 1
      BY <1>1, <3>1
    <3>2. CASE (k - 1) \in 1..(Len(s) - 1)
      <4>1. Tail(s)[k - 1] = s[k]
        BY <1>2, <3>2
      <4> QED BY <1>1, <3>2, <4>1 DEF JobsIn
    <3> QED BY <1>3, <3>1, <3>2
  <2>2. ASSUME NEW i \in 1..Len(Tail(s))
        PROVE  Tail(s)[i] \in JobsIn(s)
    BY <1>1, <1>2, <1>4 DEF JobsIn
  <2>3. Head(s) \in JobsIn(s)
    BY <1>1 DEF JobsIn
  <2> QED BY <2>1, <2>2, <2>3 DEF JobsIn
<1>6. ASSUME Distinct(s)
      PROVE  Distinct(Tail(s)) /\ Head(s) \notin JobsIn(Tail(s))
  <2>1. ASSUME NEW i \in 1..Len(Tail(s)), NEW k \in 1..Len(Tail(s)), Tail(s)[i] = Tail(s)[k]
        PROVE  i = k
    <3>1. s[i + 1] = s[k + 1]
      BY <1>1, <1>2, <2>1
    <3>2. i + 1 = k + 1
      BY <1>1, <1>4, <1>6, <3>1 DEF Distinct
    <3> QED BY <3>2
  <2>2. ASSUME NEW i \in 1..Len(Tail(s))
        PROVE  Tail(s)[i] # Head(s)
    <3>1. (i + 1) \in 1..Len(s) /\ 1 \in 1..Len(s) /\ i + 1 # 1
      BY <1>1, <1>4
    <3> QED BY <1>1, <1>2, <1>6, <3>1 DEF Distinct
  <2> QED BY <2>1, <2>2 DEF Distinct, JobsIn
<1> QED BY <1>1, <1>5, <1>6

LEMMA EmptyJobs == JobsIn(<<>>) = {} /\ Distinct(<<>>) /\ <<>> \in Seq(Jobs) /\ Len(<<>>) = 0
  BY DEF JobsIn, Distinct

-----------------------------------------------------------------------------
(* Status writes.                                                          *)

\* A status write leaves the row as it is or, if there is one, replaces it.
RowStep(j, s) ==
  \/ row' = row
  \/ Exists(j) /\ row' = [row EXCEPT ![j] = s]

RowTypes ==
  /\ row \in [Jobs -> Statuses]
  /\ restarts \in 0..MaxRestarts /\ faults \in 0..MaxFaults
  /\ lostWrites \subseteq Jobs \X Statuses \X (0..MaxRestarts)

LEMMA WriteEffect ==
  ASSUME NEW j \in Jobs, NEW s \in Statuses, RowTypes, UNCHANGED restarts,
         WriteBackground(j, s) \/ WriteQueueCtx(j, s)
  PROVE  RowTypes' /\ RowStep(j, s)
<1> USE BoundsAssumption
<1>1. CASE WriteOK(j, s)
  BY <1>1 DEF WriteOK, RowTypes, RowStep
<1>2. CASE LoseWrite(j, s) /\ faults' \in 0..MaxFaults
  BY <1>2 DEF LoseWrite, RowTypes, RowStep
<1>3. WriteFault(j, s) => LoseWrite(j, s) /\ faults' \in 0..MaxFaults
  BY DEF WriteFault, RowTypes
<1>4. LoseWrite(j, s) /\ UNCHANGED faults => faults' \in 0..MaxFaults
  BY DEF RowTypes
<1> QED BY <1>1, <1>2, <1>3, <1>4 DEF WriteBackground, WriteQueueCtx

-----------------------------------------------------------------------------
(* Type correctness.  A busy worker holds a job and only retries while it  *)
(* has attempts left: without these two facts TypeOK is not inductive.     *)

WorkerTypes ==
  /\ pc \in [Workers -> WorkerStates]
  /\ cur \in [Workers -> Jobs \cup {NoJob}]
  /\ attempt \in [Workers -> 0..MaxAttempts]
  /\ \A w \in Workers : pc[w] # "idle" => cur[w] \in Jobs
  /\ \A w \in Workers : pc[w] = "backoff" => attempt[w] < MaxAttempts

QueueTypes ==
  /\ chan \in Seq(Jobs) /\ Len(chan) <= BufferSize
  /\ pool \in Seq(Jobs)

ControlTypes ==
  /\ call \in [Jobs -> CallStates]
  /\ ctxDone \in BOOLEAN /\ stopped \in BOOLEAN
  /\ loop \in {"off", "on", "exited"}
  /\ phase \in Phases
  /\ recovering \subseteq Jobs /\ leftover \subseteq Jobs
  /\ starts \in [Jobs -> Nat]

TypeInv == RowTypes /\ WorkerTypes /\ QueueTypes /\ ControlTypes

LEMMA TypeInvInit == Init => TypeInv
<1> SUFFICES ASSUME Init
             PROVE  TypeInv
  OBVIOUS
<1>1. RowTypes
  BY BoundsAssumption DEF Init, RowTypes, Statuses
<1>2. WorkerTypes
  BY DEF Init, WorkerTypes, WorkerStates, MaxAttempts
<1>3. QueueTypes
  BY EmptyJobs, BufferAssumption DEF Init, QueueTypes
<1>4. ControlTypes
  BY DEF Init, ControlTypes, CallStates, Phases
<1> QED BY <1>1, <1>2, <1>3, <1>4 DEF TypeInv

LEMMA WorkerReturns ==
  ASSUME WorkerTypes, NEW w \in Workers, Return(w)
  PROVE  WorkerTypes'
  BY DEF WorkerTypes, Return, Goto, WorkerStates, MaxAttempts

LEMMA TypeInvNext == TypeInv /\ [Next]_vars => TypeInv'
<1> SUFFICES ASSUME TypeInv, [Next]_vars
             PROVE  TypeInv'
  OBVIOUS
<1> USE DEF TypeInv
<1>1. ASSUME NEW j \in Jobs, Enqueue(j)
      PROVE  TypeInv'
  <2>1. UNCHANGED <<workerVars, stopVars, bootVars, starts>>
    BY <1>1 DEF Enqueue, EnqueueStart, Queued, QueuedError, Accept, Reject, RejectFailed
  <2>2. WorkerTypes'
    BY <2>1 DEF WorkerTypes, workerVars
  <2>3. call' \in [Jobs -> CallStates]
    BY <1>1 DEF Enqueue, EnqueueStart, Queued, QueuedError, Accept, Reject, RejectFailed,
                ControlTypes, CallStates
  <2>4. ControlTypes'
    BY <2>1, <2>3 DEF ControlTypes, stopVars, bootVars
  <2>5. QueueTypes'
    <3>1. CASE UNCHANGED queueVars
      BY <3>1 DEF QueueTypes, queueVars
    <3>2. CASE Accept(j)
      BY <3>2, AppendJobs, BufferAssumption DEF Accept, QueueTypes
    <3> QED BY <1>1, <3>1, <3>2
        DEF Enqueue, EnqueueStart, Queued, QueuedError, Reject, RejectFailed
  <2>6. RowTypes'
    <3>1. CASE UNCHANGED rowVars
      BY <2>1, <3>1 DEF RowTypes, rowVars, bootVars
    <3>2. CASE Queued(j)
      BY <2>1, <3>2 DEF Queued, RowTypes, Statuses, bootVars
    <3>3. CASE RejectFailed(j)
      BY <2>1, <3>3, WriteEffect DEF RejectFailed, Statuses, bootVars
    <3> QED BY <1>1, <3>1, <3>2, <3>3
        DEF Enqueue, EnqueueStart, QueuedError, Accept, Reject
  <2> QED BY <2>2, <2>4, <2>5, <2>6
<1>2. CASE Dispatch
  <2>1. QueueTypes'
    BY <1>2, TailJobs, AppendJobs, BufferAssumption DEF Dispatch, QueueTypes
  <2> QED BY <1>2, <2>1
      DEF Dispatch, RowTypes, WorkerTypes, ControlTypes, rowVars, workerVars, stopVars, bootVars
<1>3. CASE DispatchExit
  BY <1>3 DEF DispatchExit, RowTypes, WorkerTypes, QueueTypes, ControlTypes, rowVars, queueVars,
              workerVars, stopVars
<1>4. ASSUME NEW w \in Workers, Process(w)
      PROVE  TypeInv'
  <2>1. UNCHANGED <<call, stopVars, bootVars, chan>>
    BY <1>4 DEF Process, Pick, NoHandler, Begin, HandlerReturns, HandlerOK, HandlerError,
                HandlerPanic, BackoffElapsed, BackoffCancelled, Completed, FailedQueueCtx,
                FailedBackground, queueVars
  <2>2. CASE Pick(w)
    <3>1. QueueTypes' /\ Head(pool) \in Jobs
      BY <2>2, TailJobs DEF Pick, QueueTypes
    <3>2. WorkerTypes'
      BY <2>2, <3>1 DEF Pick, Goto, WorkerTypes, WorkerStates
    <3> QED BY <2>1, <2>2, <3>1, <3>2
        DEF Pick, RowTypes, ControlTypes, rowVars, stopVars, bootVars
  <2>3. CASE UNCHANGED pool
    <3>1. QueueTypes'
      BY <2>1, <2>3 DEF QueueTypes
    <3>2. RowTypes' /\ WorkerTypes' /\ starts' \in [Jobs -> Nat]
      <4>0. /\ pc[w] # "idle" => cur[w] \in Jobs
            /\ attempt[w] \in 0..MaxAttempts
            /\ pc[w] = "backoff" => attempt[w] < MaxAttempts
        BY DEF WorkerTypes
      <4>1. ASSUME UNCHANGED <<rowVars, cur, attempt, starts>>,
                   NEW label \in WorkerStates \ {"backoff"}, Goto(w, label), pc[w] # "idle"
            PROVE  RowTypes' /\ WorkerTypes' /\ starts' \in [Jobs -> Nat]
        BY <2>1, <4>0, <4>1 DEF RowTypes, WorkerTypes, ControlTypes, Goto, rowVars, bootVars
      <4>2. CASE NoHandler(w) \/ HandlerOK(w) \/ HandlerPanic(w) \/ BackoffCancelled(w)
        BY <4>1, <4>2 DEF NoHandler, HandlerOK, HandlerPanic, BackoffCancelled, WorkerStates
      <4>3. CASE HandlerError(w)
        <5>1. CASE attempt[w] < MaxAttempts
          BY <2>1, <4>0, <4>3, <5>1
          DEF HandlerError, RowTypes, WorkerTypes, ControlTypes, Goto, rowVars, bootVars,
              WorkerStates
        <5>2. CASE ~(attempt[w] < MaxAttempts)
          BY <4>1, <4>3, <5>2 DEF HandlerError, WorkerStates
        <5> QED BY <5>1, <5>2
      <4>4. CASE BackoffElapsed(w)
        <5>1. attempt[w] + 1 \in 0..MaxAttempts
          BY <4>0, <4>4 DEF BackoffElapsed, MaxAttempts
        <5>2. WorkerTypes'
          BY <4>0, <4>4, <5>1 DEF BackoffElapsed, WorkerTypes, Goto, WorkerStates
        <5> QED BY <2>1, <4>4, <5>2
            DEF BackoffElapsed, RowTypes, ControlTypes, rowVars, bootVars
      <4>5. CASE Begin(w)
        <5>1. cur[w] \in Jobs
          BY <4>0, <4>5 DEF Begin
        <5>2. RowTypes'
          BY <2>1, <4>5, <5>1, WriteEffect DEF Begin, Statuses, bootVars
        <5>3. WorkerTypes'
          BY <4>5, <5>1 DEF Begin, WorkerTypes, Goto, WorkerStates, MaxAttempts
        <5>4. starts' \in [Jobs -> Nat]
          BY <4>5, <5>1 DEF Begin, ControlTypes
        <5> QED BY <5>2, <5>3, <5>4
      <4>6. CASE Completed(w) \/ FailedQueueCtx(w) \/ FailedBackground(w)
        <5>1. cur[w] \in Jobs
          BY <4>0, <4>6 DEF Completed, FailedQueueCtx, FailedBackground
        <5>2. RowTypes'
          BY <2>1, <4>6, <5>1, WriteEffect
          DEF Completed, FailedQueueCtx, FailedBackground, Statuses, bootVars
        <5>3. WorkerTypes'
          BY <4>6, WorkerReturns DEF Completed, FailedQueueCtx, FailedBackground
        <5> QED BY <4>6, <5>2, <5>3
            DEF Completed, FailedQueueCtx, FailedBackground, ControlTypes
      <4>7. CASE Pick(w)
        BY <2>3, <4>7 DEF Pick, RowTypes, WorkerTypes, ControlTypes, Goto, rowVars, bootVars, QueueTypes, WorkerStates
      <4> QED BY <1>4, <4>2, <4>3, <4>4, <4>5, <4>6, <4>7 DEF Process, HandlerReturns
    <3> QED BY <2>1, <3>1, <3>2 DEF ControlTypes, stopVars, bootVars
  <2> QED BY <1>4, <2>2, <2>3
      DEF Process, NoHandler, Begin, HandlerReturns, HandlerOK, HandlerError, HandlerPanic,
          BackoffElapsed, BackoffCancelled, Completed, FailedQueueCtx, FailedBackground, queueVars
<1>5. ASSUME DeleteOld, UNCHANGED <<faults, lostWrites, call, queueVars, workerVars, stopVars,
                                    loop, recovering, leftover, restarts, starts>>,
             phase' \in Phases
      PROVE  TypeInv'
  BY <1>5 DEF DeleteOld, RowTypes, WorkerTypes, QueueTypes, ControlTypes, queueVars, workerVars,
              stopVars, Statuses
<1>6. CASE PruneTask
  BY <1>5, <1>6 DEF PruneTask, bootVars, ControlTypes
<1>7. CASE Boot
  <2>1. CASE BootMark
    BY <2>1 DEF BootMark, RowTypes, WorkerTypes, QueueTypes, ControlTypes, queueVars, workerVars,
                stopVars, Statuses, Phases
  <2>2. CASE BootList
    <3>1. recovering' \subseteq Jobs /\ leftover' \subseteq Jobs
      BY <2>2 DEF BootList, RowsIn
    <3> QED BY <2>2, <3>1
        DEF BootList, RowTypes, WorkerTypes, QueueTypes, ControlTypes, rowVars, queueVars,
            workerVars, stopVars, Phases
  <2>3. ASSUME NEW j \in Jobs, Requeue(j)
        PROVE  TypeInv'
    <3>1. RowTypes'
      <4>1. CASE UNCHANGED rowVars
        BY <2>3, <4>1 DEF Requeue, RowTypes, rowVars
      <4>2. CASE WriteBackground(j, "failed")
        BY <2>3, <4>2, WriteEffect DEF Requeue, Statuses
      <4> QED BY <2>3, <4>1, <4>2 DEF Requeue
    <3>2. QueueTypes'
      BY <2>3, AppendJobs, BufferAssumption DEF Requeue, QueueTypes
    <3> QED BY <2>3, <3>1, <3>2 DEF Requeue, WorkerTypes, ControlTypes, workerVars, stopVars
  <2>4. CASE RequeueDone
    BY <2>4 DEF RequeueDone, RowTypes, WorkerTypes, QueueTypes, ControlTypes, rowVars, queueVars,
                workerVars, stopVars, Phases
  <2>5. CASE BootPrune
    BY <1>5, <2>5 DEF BootPrune, Phases
  <2>6. CASE BootStart
    BY <2>6 DEF BootStart, RowTypes, WorkerTypes, QueueTypes, ControlTypes, rowVars, queueVars,
                workerVars, stopVars, Phases
  <2> QED BY <1>7, <2>1, <2>2, <2>3, <2>4, <2>5, <2>6 DEF Boot
<1>8. CASE StopCancel \/ StopSetStopped
  BY <1>8 DEF StopCancel, StopSetStopped, RowTypes, WorkerTypes, QueueTypes, ControlTypes, rowVars,
              queueVars, workerVars, bootVars
<1>9. CASE Exit
  <2>1. RowTypes'
    BY <1>9, BoundsAssumption DEF Exit, RowTypes, rowVars
  <2>2. WorkerTypes'
    BY <1>9 DEF Exit, WorkerTypes, WorkerStates, MaxAttempts
  <2>3. QueueTypes'
    BY <1>9, EmptyJobs, BufferAssumption DEF Exit, QueueTypes
  <2>4. ControlTypes'
    BY <1>9 DEF Exit, ControlTypes, CallStates, Phases
  <2> QED BY <2>1, <2>2, <2>3, <2>4
<1>10. CASE UNCHANGED vars
  BY <1>10 DEF vars, RowTypes, WorkerTypes, QueueTypes, ControlTypes, rowVars, queueVars,
               workerVars, stopVars, bootVars
<1> QED BY <1>1, <1>2, <1>3, <1>4, <1>6, <1>7, <1>8, <1>9, <1>10 DEF Next

\* Type correctness of the queue and of the rows it persists (queue.go, jobService.go).
THEOREM TypeCorrect == Spec => []TypeOK
<1>1. TypeInv => TypeOK
  BY DEF TypeInv, TypeOK, RowTypes, WorkerTypes, QueueTypes, ControlTypes
<1> QED BY <1>1, TypeInvInit, TypeInvNext, PTL DEF Spec

-----------------------------------------------------------------------------
(* The inductive invariant behind SingleCopy, InFlightUnfinished and the   *)
(* refinement.  SingleCopy is not inductive: that Accept and Requeue add a *)
(* job that is not in memory yet follows from where its call, or the boot, *)
(* stands, and that ties the calls to the rows.                            *)

Busy(w) == pc[w] # "idle"

CopyInv ==
  /\ Distinct(chan) /\ Distinct(pool)
  /\ \A j \in JobsIn(chan) : j \notin JobsIn(pool)
  /\ \A w \in Workers : Busy(w) => cur[w] \notin JobsIn(chan) /\ cur[w] \notin JobsIn(pool)
  /\ \A v, w \in Workers : Busy(v) /\ Busy(w) /\ cur[v] = cur[w] => v = w

RowInv ==
  /\ \A j \in JobsIn(chan) : row[j] = "pending"
  /\ \A j \in JobsIn(pool) : row[j] = "pending"
  /\ \A w \in Workers : Busy(w) => row[cur[w]] \in Unfinished

\* A row is inserted by the call that persists it, and until that call gets the
\* job into the channel nothing else has it.
CallInv ==
  \A j \in Jobs :
    /\ call[j] \in {"new", "checked"} => row[j] = "none"
    /\ call[j] \in {"persisted", "rejecting"} =>
         /\ row[j] = "pending"
         /\ j \notin JobsIn(chan)
         /\ j \notin JobsIn(pool)
         /\ \A w \in Workers : Busy(w) => cur[w] # j

\* Until the server is up there is no call, no worker and no dispatcher.
BootInv ==
  /\ phase # "up" =>
       /\ pool = <<>>
       /\ loop = "off"
       /\ \A w \in Workers : ~Busy(w)
       /\ \A j \in Jobs : call[j] \notin InCall
  /\ phase \in {"mark", "list"} => chan = <<>>
  /\ \A j \in recovering : phase = "requeue" /\ row[j] = "pending" /\ j \notin JobsIn(chan)

IInv == CopyInv /\ RowInv /\ CallInv /\ BootInv

LEMMA IInvInit == Init => IInv
  BY EmptyJobs
  DEF Init, IInv, CopyInv, RowInv, CallInv, BootInv, Busy, InCall

\* A write to the row of job j, which no queue holds and no call is inserting,
\* by the worker that has it or by the call that gives it up.
LEMMA IInvNext == TypeInv /\ IInv /\ [Next]_vars => IInv'
<1> SUFFICES ASSUME TypeInv, IInv, [Next]_vars
             PROVE  IInv'
  OBVIOUS
<1> USE DEF IInv
<1>q. chan \in Seq(Jobs) /\ pool \in Seq(Jobs)
  BY DEF TypeInv, QueueTypes
<1>w. \A w \in Workers : Busy(w) => cur[w] \in Jobs
  BY DEF TypeInv, WorkerTypes, Busy
<1>r. row \in [Jobs -> Statuses] /\ call \in [Jobs -> CallStates]
  BY DEF TypeInv, RowTypes, ControlTypes
<1>m. /\ \A j \in JobsIn(chan) : j \in Jobs
      /\ \A j \in JobsIn(pool) : j \in Jobs
  BY <1>q DEF JobsIn
<1>1. ASSUME NEW j \in Jobs, Enqueue(j)
      PROVE  IInv'
  <2>1. UNCHANGED <<pool, pc, cur, phase, loop, recovering>>
    BY <1>1 DEF Enqueue, EnqueueStart, Queued, QueuedError, Accept, Reject, RejectFailed,
                queueVars, workerVars, bootVars
  <2>2. CASE EnqueueStart(j) \/ QueuedError(j) \/ Reject(j)
    <3>1. UNCHANGED <<row, chan>>
      BY <2>2 DEF EnqueueStart, QueuedError, Reject, rowVars, queueVars
    <3>2. CallInv'
      BY <1>r, <2>1, <2>2, <3>1
      DEF EnqueueStart, QueuedError, Reject, CallInv, Busy
    <3>3. BootInv'
      BY <1>r, <2>1, <2>2, <3>1
      DEF EnqueueStart, QueuedError, Reject, BootInv, Busy, InCall
    <3> QED BY <2>1, <3>1, <3>2, <3>3 DEF CopyInv, RowInv, Busy
  <2>3. CASE Queued(j)
    <3>1. row[j] = "none" /\ row' = [row EXCEPT ![j] = "pending"] /\ UNCHANGED chan
      BY <2>3 DEF Queued, CallInv, queueVars
    <3>2. /\ j \notin JobsIn(chan) /\ j \notin JobsIn(pool)
          /\ \A w \in Workers : Busy(w) => cur[w] # j
      BY <3>1 DEF RowInv, Unfinished
    <3>3. RowInv'
      BY <1>r, <1>m, <1>w, <2>1, <3>1, <3>2 DEF RowInv, Busy
    <3>4. CallInv'
      BY <1>r, <2>1, <2>3, <3>1, <3>2 DEF Queued, CallInv, Busy
    <3>5. BootInv'
      BY <1>r, <2>1, <2>3, <3>1 DEF Queued, BootInv, Busy, InCall
    <3> QED BY <2>1, <3>1, <3>3, <3>4, <3>5 DEF CopyInv, Busy
  <2>4. CASE Accept(j)
    <3>1. /\ row[j] = "pending" /\ j \notin JobsIn(chan) /\ j \notin JobsIn(pool)
          /\ \A w \in Workers : Busy(w) => cur[w] # j
          /\ UNCHANGED row
      BY <2>4 DEF Accept, CallInv, rowVars
    <3>2. JobsIn(chan') = JobsIn(chan) \cup {j} /\ Distinct(chan')
      BY <1>q, <2>4, <3>1, AppendJobs DEF Accept, CopyInv
    <3>3. phase = "up"
      BY <2>4 DEF Accept, BootInv, InCall
    <3>4. CopyInv'
      BY <2>1, <3>1, <3>2 DEF CopyInv, Busy
    <3>5. RowInv'
      BY <2>1, <3>1, <3>2 DEF RowInv, Busy
    <3>6. CallInv'
      BY <1>r, <2>1, <2>4, <3>1, <3>2 DEF Accept, CallInv, Busy
    <3>7. BootInv'
      BY <2>1, <3>1, <3>2, <3>3 DEF BootInv, Busy
    <3> QED BY <3>4, <3>5, <3>6, <3>7
  <2>5. CASE RejectFailed(j)
    <3>1. /\ row[j] = "pending" /\ j \notin JobsIn(chan) /\ j \notin JobsIn(pool)
          /\ \A w \in Workers : Busy(w) => cur[w] # j
          /\ UNCHANGED chan
      BY <2>5 DEF RejectFailed, CallInv, queueVars
    <3>2. RowStep(j, "failed")
      BY <2>5, WriteEffect DEF RejectFailed, TypeInv, bootVars, Statuses
    <3>3. phase = "up"
      BY <2>5 DEF RejectFailed, BootInv, InCall
    <3>4. \A k \in Jobs : k # j => row'[k] = row[k]
      BY <1>r, <3>2 DEF RowStep
    <3>5. RowInv'
      BY <1>m, <1>w, <2>1, <3>1, <3>4 DEF RowInv, Busy
    <3>6. CallInv'
      BY <1>r, <2>1, <2>5, <3>1, <3>4 DEF RejectFailed, CallInv, Busy
    <3>7. BootInv'
      BY <2>1, <3>1, <3>3 DEF BootInv, Busy
    <3> QED BY <2>1, <3>1, <3>5, <3>6, <3>7 DEF CopyInv, Busy
  <2> QED BY <1>1, <2>2, <2>3, <2>4, <2>5 DEF Enqueue
<1>2. CASE Dispatch
  <2>1. /\ chan # <<>> /\ chan' = Tail(chan) /\ pool' = Append(pool, Head(chan)) /\ loop = "on"
        /\ UNCHANGED <<row, call, pc, cur, phase, loop, recovering>>
    BY <1>2 DEF Dispatch, rowVars, workerVars, bootVars
  <2>2. /\ Head(chan) \in Jobs
        /\ JobsIn(chan) = JobsIn(chan') \cup {Head(chan)}
        /\ Distinct(chan') /\ Head(chan) \notin JobsIn(chan')
    BY <1>q, <2>1, TailJobs DEF CopyInv
  <2>3. JobsIn(pool') = JobsIn(pool) \cup {Head(chan)} /\ Distinct(pool')
    BY <1>q, <2>1, <2>2, AppendJobs DEF CopyInv
  <2>4. CopyInv'
    BY <2>1, <2>2, <2>3 DEF CopyInv, Busy
  <2>5. RowInv'
    BY <2>1, <2>2, <2>3 DEF RowInv, Busy
  <2>6. CallInv'
    BY <2>1, <2>2, <2>3 DEF CallInv, Busy
  <2>7. BootInv'
    BY <2>1, <2>2 DEF BootInv, Busy
  <2> QED BY <2>4, <2>5, <2>6, <2>7
<1>3. CASE DispatchExit
  <2>1. UNCHANGED <<row, call, chan, pool, pc, cur, phase, recovering>> /\ loop = "on"
    BY <1>3 DEF DispatchExit, rowVars, queueVars, workerVars
  <2> QED BY <2>1 DEF CopyInv, RowInv, CallInv, BootInv, Busy
<1>4. ASSUME NEW w \in Workers, Process(w)
      PROVE  IInv'
  <2>1. UNCHANGED <<call, chan, phase, loop, recovering>>
    BY <1>4 DEF Process, Pick, NoHandler, Begin, HandlerReturns, HandlerOK, HandlerError,
                HandlerPanic, BackoffElapsed, BackoffCancelled, Completed, FailedQueueCtx,
                FailedBackground, queueVars, bootVars
  <2>2. CASE Pick(w)
    <3>1. /\ pool # <<>> /\ pool' = Tail(pool) /\ UNCHANGED row
          /\ ~Busy(w) /\ cur' = [cur EXCEPT ![w] = Head(pool)] /\ pc' = [pc EXCEPT ![w] = "start"]
      BY <2>2 DEF Pick, Goto, Busy, rowVars
    <3>2. /\ Head(pool) \in Jobs
          /\ JobsIn(pool) = JobsIn(pool') \cup {Head(pool)}
          /\ Distinct(pool') /\ Head(pool) \notin JobsIn(pool')
      BY <1>q, <3>1, TailJobs DEF CopyInv
    <3>3. /\ cur'[w] = Head(pool)
          /\ \A v \in Workers : v # w => cur'[v] = cur[v] /\ (Busy(v)' <=> Busy(v))
      BY <3>1 DEF TypeInv, WorkerTypes, Busy
    <3>4. phase = "up"
      BY <3>1 DEF BootInv
    <3>5. CopyInv'
      BY <2>1, <3>2, <3>3 DEF CopyInv
    <3>6. RowInv'
      BY <2>1, <3>1, <3>2, <3>3 DEF RowInv, Unfinished
    <3>7. CallInv'
      BY <2>1, <3>1, <3>2, <3>3 DEF CallInv
    <3>8. BootInv'
      BY <2>1, <3>1, <3>4 DEF BootInv
    <3> QED BY <3>5, <3>6, <3>7, <3>8
  <2>3. CASE ~Pick(w)
    <3>1. Busy(w) /\ UNCHANGED pool
      BY <1>4, <2>3 DEF Process, NoHandler, Begin, HandlerReturns, HandlerOK, HandlerError,
                HandlerPanic, BackoffElapsed, BackoffCancelled, Completed, FailedQueueCtx,
                FailedBackground, queueVars, Busy
    <3>2. cur[w] \in Jobs /\ row[cur[w]] \in Unfinished /\ phase = "up"
      BY <1>w, <3>1 DEF RowInv, BootInv
    <3>3. /\ \A k \in Jobs : k # cur[w] => row'[k] = row[k]
          /\ Busy(w)' => cur'[w] = cur[w] /\ row'[cur[w]] \in Unfinished
          /\ \A v \in Workers : v # w => cur'[v] = cur[v] /\ (Busy(v)' <=> Busy(v))
      <4>1. CASE NoHandler(w) \/ HandlerReturns(w) \/ BackoffElapsed(w) \/ BackoffCancelled(w)
        BY <3>1, <3>2, <4>1
        DEF NoHandler, HandlerReturns, HandlerOK, HandlerError, HandlerPanic, BackoffElapsed,
            BackoffCancelled, Goto, rowVars, TypeInv, WorkerTypes, Busy
      <4>2. CASE Begin(w)
        <5>1. RowStep(cur[w], "running")
          BY <3>2, <4>2, WriteEffect DEF Begin, TypeInv, bootVars, Statuses
        <5> QED BY <1>r, <3>2, <4>2, <5>1
            DEF Begin, RowStep, Goto, TypeInv, WorkerTypes, Busy, Unfinished
      <4>3. CASE Completed(w) \/ FailedQueueCtx(w) \/ FailedBackground(w)
        <5>1. RowStep(cur[w], "completed") \/ RowStep(cur[w], "failed")
          BY <3>2, <4>3, WriteEffect
          DEF Completed, FailedQueueCtx, FailedBackground, TypeInv, bootVars, Statuses
        <5>2. Return(w)
          BY <4>3 DEF Completed, FailedQueueCtx, FailedBackground
        <5> QED BY <1>r, <3>2, <5>1, <5>2
            DEF RowStep, Return, Goto, TypeInv, WorkerTypes, Busy
      <4> QED BY <1>4, <2>3, <4>1, <4>2, <4>3 DEF Process
    <3>4. /\ cur[w] \notin JobsIn(chan) /\ cur[w] \notin JobsIn(pool)
          /\ \A v \in Workers : v # w /\ Busy(v) => cur[v] # cur[w]
      BY <3>1 DEF CopyInv
    <3>5. CopyInv'
      BY <2>1, <3>1, <3>3 DEF CopyInv
    <3>6. RowInv'
      BY <1>m, <1>w, <2>1, <3>1, <3>3, <3>4 DEF RowInv
    <3>7. CallInv'
      <4>1. call[cur[w]] \notin {"new", "checked", "persisted", "rejecting"}
        BY <3>1, <3>2 DEF CallInv, Unfinished
      <4> QED BY <2>1, <3>1, <3>3, <4>1 DEF CallInv
    <3>8. BootInv'
      BY <2>1, <3>1, <3>2 DEF BootInv
    <3> QED BY <3>5, <3>6, <3>7, <3>8
  <2> QED BY <2>2, <2>3
<1>5. ASSUME DeleteOld, UNCHANGED <<call, chan, pool, pc, cur, loop, recovering>>,
             \/ UNCHANGED phase
             \/ phase = "prune" /\ phase' = "start"
      PROVE  IInv'
  <2>1. \A j \in Jobs : row[j] \notin Finished => row'[j] = row[j]
    BY <1>5 DEF DeleteOld, RowsIn
  <2>2. CopyInv'
    BY <1>5 DEF CopyInv, Busy
  <2>3. RowInv'
    BY <1>5, <1>m, <1>w, <2>1 DEF RowInv, Busy, Finished, Unfinished
  <2>4. CallInv'
    BY <1>5, <2>1 DEF CallInv, Busy, Finished
  <2>5. BootInv'
    BY <1>5, <2>1 DEF BootInv, Busy, Finished, TypeInv, ControlTypes
  <2> QED BY <2>2, <2>3, <2>4, <2>5
<1>6. CASE PruneTask
  BY <1>5, <1>6 DEF PruneTask, queueVars, workerVars, bootVars
<1>7. CASE Boot
  <2>1. CASE BootMark
    <3>1. /\ phase = "mark" /\ phase' = "list"
          /\ row' = [j \in Jobs |-> IF row[j] = "running" THEN "failed" ELSE row[j]]
          /\ UNCHANGED <<call, chan, pool, pc, cur, loop, recovering>>
      BY <2>1 DEF BootMark, queueVars, workerVars
    <3>2. chan = <<>> /\ pool = <<>> /\ \A w \in Workers : ~Busy(w)
      BY <3>1 DEF BootInv
    <3>3. RowInv'
      BY <3>1, <3>2, EmptyJobs DEF RowInv, Busy
    <3>4. CallInv'
      BY <3>1 DEF CallInv, Busy
    <3>5. BootInv'
      BY <3>1, <3>2, EmptyJobs DEF BootInv, Busy
    <3> QED BY <3>1, <3>3, <3>4, <3>5 DEF CopyInv, Busy
  <2>2. CASE BootList
    <3>1. /\ phase = "list" /\ phase' = "requeue"
          /\ \A j \in recovering' : row[j] = "pending"
          /\ UNCHANGED <<row, call, chan, pool, pc, cur, loop>>
      BY <2>2 DEF BootList, rowVars, queueVars, workerVars
    <3>2. BootInv'
      BY <3>1, EmptyJobs DEF BootInv, Busy
    <3> QED BY <3>1, <3>2 DEF CopyInv, RowInv, CallInv, Busy
  <2>3. ASSUME NEW j \in Jobs, Requeue(j)
        PROVE  IInv'
    <3>1. /\ phase = "requeue" /\ j \in recovering /\ recovering' = recovering \ {j}
          /\ UNCHANGED <<call, pool, pc, cur, loop, phase>>
      BY <2>3 DEF Requeue, workerVars
    <3>2. /\ pool = <<>> /\ row[j] = "pending" /\ j \notin JobsIn(chan)
          /\ \A w \in Workers : ~Busy(w)
          /\ \A k \in Jobs : call[k] \notin InCall
      BY <3>1 DEF BootInv
    <3>3. call[j] \notin {"new", "checked"}
      BY <3>2 DEF CallInv
    <3>4. CASE chan' = Append(chan, j) /\ UNCHANGED rowVars
      <4>1. JobsIn(chan') = JobsIn(chan) \cup {j} /\ Distinct(chan') /\ UNCHANGED row
        BY <1>q, <3>2, <3>4, AppendJobs DEF CopyInv, rowVars
      <4>2. CopyInv'
        BY <3>1, <3>2, <4>1, EmptyJobs DEF CopyInv, Busy
      <4>3. RowInv'
        BY <3>1, <3>2, <4>1 DEF RowInv, Busy
      <4>4. CallInv'
        BY <3>1, <3>2, <4>1 DEF CallInv, InCall, Busy
      <4>5. BootInv'
        BY <3>1, <3>2, <4>1 DEF BootInv, Busy
      <4> QED BY <4>2, <4>3, <4>4, <4>5
    <3>5. CASE UNCHANGED chan /\ WriteBackground(j, "failed")
      <4>1. RowStep(j, "failed")
        BY <2>3, <3>5, WriteEffect DEF Requeue, TypeInv, Statuses
      <4>2. \A k \in Jobs : k # j => row'[k] = row[k]
        BY <1>r, <4>1 DEF RowStep
      <4>3. RowInv'
        BY <1>m, <3>1, <3>2, <3>5, <4>2, EmptyJobs DEF RowInv, Busy
      <4>4. CallInv'
        BY <3>1, <3>2, <3>3, <3>5, <4>2 DEF CallInv, InCall, Busy
      <4>5. BootInv'
        BY <3>1, <3>2, <3>5, <4>2 DEF BootInv, Busy, TypeInv, ControlTypes
      <4> QED BY <3>1, <3>5, <4>3, <4>4, <4>5 DEF CopyInv, Busy
    <3> QED BY <2>3, <3>4, <3>5 DEF Requeue
  <2>4. CASE RequeueDone
    <3>1. /\ phase = "requeue" /\ phase' = "prune" /\ recovering = {}
          /\ UNCHANGED <<row, call, chan, pool, pc, cur, loop, recovering>>
      BY <2>4 DEF RequeueDone, rowVars, queueVars, workerVars
    <3> QED BY <3>1 DEF CopyInv, RowInv, CallInv, BootInv, Busy
  <2>5. CASE BootPrune
    BY <1>5, <2>5 DEF BootPrune, queueVars, workerVars
  <2>6. CASE BootStart
    <3>1. /\ phase = "start" /\ phase' = "up"
          /\ UNCHANGED <<row, call, chan, pool, pc, cur, recovering>>
      BY <2>6 DEF BootStart, rowVars, queueVars, workerVars
    <3> QED BY <3>1 DEF CopyInv, RowInv, CallInv, BootInv, Busy
  <2> QED BY <1>7, <2>1, <2>2, <2>3, <2>4, <2>5, <2>6 DEF Boot
<1>8. CASE StopCancel \/ StopSetStopped
  <2>1. UNCHANGED <<row, call, chan, pool, pc, cur, loop, phase, recovering>>
    BY <1>8 DEF StopCancel, StopSetStopped, rowVars, queueVars, workerVars, bootVars
  <2> QED BY <2>1 DEF CopyInv, RowInv, CallInv, BootInv, Busy
<1>9. CASE Exit
  <2>1. /\ chan' = <<>> /\ pool' = <<>> /\ recovering' = {} /\ loop' = "off"
        /\ \A w \in Workers : ~Busy(w)'
        /\ UNCHANGED row
    BY <1>9 DEF Exit, Busy, rowVars
  <2>2. \A j \in Jobs : call'[j] \notin InCall /\ (call'[j] = "new" => call[j] = "new")
    BY <1>9 DEF Exit, InCall
  <2> QED BY <2>1, <2>2, EmptyJobs DEF CopyInv, RowInv, CallInv, BootInv, InCall
<1>10. CASE UNCHANGED vars
  BY <1>10 DEF vars, rowVars, queueVars, workerVars, bootVars, CopyInv, RowInv, CallInv, BootInv,
               Busy
<1> QED BY <1>1, <1>2, <1>3, <1>4, <1>6, <1>7, <1>8, <1>9, <1>10 DEF Next

\* No job is ever in two places in memory, so no two workers ever process it
\* (queue.go:131-202, jobService.go:144-173).
THEOREM NeverTwoCopies == Spec => []SingleCopy
<1>1. IInv => SingleCopy
  BY DEF IInv, CopyInv, SingleCopy, OnWorker, Busy
<1> QED BY <1>1, TypeInvInit, TypeInvNext, IInvInit, IInvNext, PTL DEF Spec

\* What is in memory is unfinished in the table: neither the pruning nor the boot
\* takes the row of a job that is about to run (jobService.go:144-177).
THEOREM MemoryMatchesRows == Spec => []InFlightUnfinished
<1>1. IInv => InFlightUnfinished
  BY DEF IInv, RowInv, InFlightUnfinished, Busy
<1> QED BY <1>1, TypeInvInit, TypeInvNext, IInvInit, IInvNext, PTL DEF Spec

-----------------------------------------------------------------------------
(* JobQueue implements JobLifecycle: what each action does to the rows.    *)

LEMMA LifecycleStep == TypeInv /\ IInv /\ [Next]_vars => [Lifecycle!Next]_row
<1> SUFFICES ASSUME TypeInv, IInv, [Next]_vars
             PROVE  Lifecycle!Next \/ UNCHANGED row
  OBVIOUS
<1> USE DEF Lifecycle!Next
<1>r. row \in [Jobs -> Statuses]
  BY DEF TypeInv, RowTypes
<1>1. ASSUME NEW j \in Jobs, NEW s \in Finished, RowStep(j, s), row[j] \in Unfinished
      PROVE  Lifecycle!Next \/ UNCHANGED row
  BY <1>1 DEF RowStep, Lifecycle!Finish, Lifecycle!Unfinished, Lifecycle!Finished, Unfinished,
              Finished
<1>2. ASSUME NEW j \in Jobs, Enqueue(j)
      PROVE  Lifecycle!Next \/ UNCHANGED row
  <2>1. CASE UNCHANGED rowVars
    BY <2>1 DEF rowVars
  <2>2. CASE Queued(j)
    <3>1. Lifecycle!Create(j)
      BY <2>2 DEF Queued, Lifecycle!Create, IInv, CallInv
    <3> QED BY <3>1
  <2>3. CASE RejectFailed(j)
    <3>1. RowStep(j, "failed")
      BY <2>3, WriteEffect DEF RejectFailed, TypeInv, bootVars, Statuses
    <3>2. row[j] \in Unfinished
      BY <2>3 DEF RejectFailed, IInv, CallInv, Unfinished
    <3> QED BY <1>1, <3>1, <3>2 DEF Finished
  <2> QED BY <1>2, <2>1, <2>2, <2>3 DEF Enqueue, EnqueueStart, QueuedError, Accept, Reject
<1>3. CASE Dispatch \/ DispatchExit \/ StopCancel \/ StopSetStopped \/ Exit \/ UNCHANGED vars
  BY <1>3 DEF Dispatch, DispatchExit, StopCancel, StopSetStopped, Exit, rowVars, vars
<1>4. ASSUME NEW w \in Workers, Process(w)
      PROVE  Lifecycle!Next \/ UNCHANGED row
  <2>1. CASE UNCHANGED rowVars
    BY <2>1 DEF rowVars
  <2>2. pc[w] # "idle" => cur[w] \in Jobs /\ row[cur[w]] \in Unfinished
    BY DEF TypeInv, WorkerTypes, IInv, RowInv, Busy
  <2>3. CASE Begin(w)
    <3>1. cur[w] \in Jobs /\ row[cur[w]] \in Unfinished
      BY <2>2, <2>3 DEF Begin
    <3>2. RowStep(cur[w], "running")
      BY <2>3, <3>1, WriteEffect DEF Begin, TypeInv, bootVars, Statuses
    <3>3. CASE row[cur[w]] = "pending"
      BY <3>1, <3>2, <3>3 DEF RowStep, Lifecycle!Begin
    <3>4. CASE row[cur[w]] = "running"
      BY <1>r, <3>1, <3>2, <3>4 DEF RowStep
    <3> QED BY <3>1, <3>3, <3>4 DEF Unfinished
  <2>4. CASE Completed(w) \/ FailedQueueCtx(w) \/ FailedBackground(w)
    <3>1. cur[w] \in Jobs /\ row[cur[w]] \in Unfinished
      BY <2>2, <2>4 DEF Completed, FailedQueueCtx, FailedBackground
    <3>2. RowStep(cur[w], "completed") \/ RowStep(cur[w], "failed")
      BY <2>4, <3>1, WriteEffect
      DEF Completed, FailedQueueCtx, FailedBackground, TypeInv, bootVars, Statuses
    <3> QED BY <1>1, <3>1, <3>2 DEF Finished
  <2> QED BY <1>4, <2>1, <2>3, <2>4
      DEF Process, Pick, NoHandler, HandlerReturns, HandlerOK, HandlerError, HandlerPanic,
          BackoffElapsed, BackoffCancelled
<1>5. DeleteOld => Lifecycle!Delete
  BY DEF DeleteOld, Lifecycle!Delete, RowsIn, Lifecycle!Finished, Finished
<1>6. CASE PruneTask
  BY <1>5, <1>6 DEF PruneTask
<1>7. CASE Boot
  <2>1. CASE BootMark
    BY <2>1 DEF BootMark, Lifecycle!Interrupt
  <2>2. ASSUME NEW j \in Jobs, Requeue(j)
        PROVE  Lifecycle!Next \/ UNCHANGED row
    <3>1. CASE UNCHANGED rowVars
      BY <3>1 DEF rowVars
    <3>2. CASE WriteBackground(j, "failed")
      <4>1. RowStep(j, "failed")
        BY <2>2, <3>2, WriteEffect DEF Requeue, TypeInv, Statuses
      <4>2. row[j] \in Unfinished
        BY <2>2 DEF Requeue, IInv, BootInv, Unfinished
      <4> QED BY <1>1, <4>1, <4>2 DEF Finished
    <3> QED BY <2>2, <3>1, <3>2 DEF Requeue
  <2>3. CASE BootPrune
    BY <1>5, <2>3 DEF BootPrune
  <2>4. CASE BootList \/ RequeueDone \/ BootStart
    BY <2>4 DEF BootList, RequeueDone, BootStart, rowVars
  <2> QED BY <1>7, <2>1, <2>2, <2>3, <2>4 DEF Boot
<1> QED BY <1>2, <1>3, <1>4, <1>6, <1>7 DEF Next

\* The jobs table keeps the promise of JobLifecycle: the status of a job only moves
\* forward, across restarts, refused writes and prunings (core.sql:63-76,
\* operations.sql:13-16 and 64-71).
THEOREM ImplementsLifecycle == Spec => LifecycleSpec
<1>1. Init => Lifecycle!Init
  BY DEF Init, Lifecycle!Init
<1> QED BY <1>1, LifecycleStep, TypeInvInit, TypeInvNext, IInvInit, IInvNext, PTL
    DEF Spec, LifecycleSpec, Lifecycle!Spec

-----------------------------------------------------------------------------
(* What a restart can repeat.  The history variables starts and lostWrites *)
(* only grow, so both promises come down to the row that each of them      *)
(* leaves behind.                                                          *)

HistoryInv ==
  /\ \A w \in Workers : pc[w] = "start" => row[cur[w]] = "pending"
  /\ \A j \in Jobs :
       /\ call[j] \in {"new", "checked", "persisted", "rejecting"} => starts[j] = 0
       /\ starts[j] > 0 => EverLost(j, "running") \/ row[j] \notin {"none", "pending"}
       /\ starts[j] > 1 => EverLost(j, "running")
       /\ call[j] = "rejected" =>
            \/ EverLost(j, "failed")
            \/ starts[j] = 0 /\ row[j] \in {"none", "failed", "deleted"}

LEMMA WriteRemembered ==
  ASSUME NEW j \in Jobs, NEW s \in Statuses, TypeInv, UNCHANGED restarts,
         WriteBackground(j, s) \/ WriteQueueCtx(j, s)
  PROVE  /\ \A k \in Jobs, t \in Statuses : EverLost(k, t) => EverLost(k, t)'
         /\ EverLost(j, s)' \/ (Exists(j) => row'[j] = s)
<1>1. restarts \in 0..restarts /\ row \in [Jobs -> Statuses]
  BY BoundsAssumption DEF TypeInv, RowTypes
<1>2. CASE WriteOK(j, s)
  BY <1>1, <1>2 DEF WriteOK, EverLost
<1>3. CASE LoseWrite(j, s)
  <2>1. <<j, s, restarts>> \in lostWrites' /\ lostWrites \subseteq lostWrites'
    BY <1>3 DEF LoseWrite
  <2> QED BY <1>1, <2>1 DEF EverLost
<1> QED BY <1>2, <1>3 DEF WriteBackground, WriteQueueCtx, WriteFault

LEMMA HistoryInit == Init => HistoryInv
  BY DEF Init, HistoryInv

LEMMA HistoryNext == TypeInv /\ IInv /\ HistoryInv /\ [Next]_vars => HistoryInv'
<1> SUFFICES ASSUME TypeInv, IInv, HistoryInv, [Next]_vars
             PROVE  HistoryInv'
  OBVIOUS
<1>r. /\ row \in [Jobs -> Statuses] /\ call \in [Jobs -> CallStates] /\ starts \in [Jobs -> Nat]
      /\ \A w \in Workers : pc[w] # "idle" => cur[w] \in Jobs
  BY DEF TypeInv, RowTypes, ControlTypes, WorkerTypes
<1>1. ASSUME NEW j \in Jobs, Enqueue(j)
      PROVE  HistoryInv'
  <2>1. UNCHANGED <<pc, cur, starts, restarts>>
    BY <1>1 DEF Enqueue, EnqueueStart, Queued, QueuedError, Accept, Reject, RejectFailed,
                workerVars, bootVars
  <2>2. CASE EnqueueStart(j) \/ QueuedError(j) \/ Accept(j) \/ Reject(j)
    <3>1. UNCHANGED <<row, lostWrites>>
      BY <2>2 DEF EnqueueStart, QueuedError, Accept, Reject, rowVars
    <3>2. call[j] \in {"new", "checked"} => row[j] = "none" /\ starts[j] = 0
      BY DEF IInv, CallInv, HistoryInv
    <3> QED BY <1>r, <2>1, <2>2, <3>1, <3>2
        DEF EnqueueStart, QueuedError, Accept, Reject, HistoryInv, EverLost
  <2>3. CASE Queued(j)
    <3>1. /\ row[j] = "none" /\ row' = [row EXCEPT ![j] = "pending"]
          /\ call' = [call EXCEPT ![j] = "persisted"] /\ UNCHANGED lostWrites
          /\ call[j] = "checked" /\ starts[j] = 0
      BY <2>3 DEF Queued, IInv, CallInv, HistoryInv
    <3> QED BY <1>r, <2>1, <3>1 DEF HistoryInv, EverLost
  <2>4. CASE RejectFailed(j)
    <3>1. /\ call[j] = "rejecting" /\ row[j] = "pending" /\ starts[j] = 0
          /\ call' = [call EXCEPT ![j] = "rejected"]
          /\ \A w \in Workers : pc[w] # "idle" => cur[w] # j
      BY <2>4 DEF RejectFailed, IInv, CallInv, HistoryInv, Busy
    <3>2. /\ RowStep(j, "failed")
          /\ \A k \in Jobs, t \in Statuses : EverLost(k, t) => EverLost(k, t)'
          /\ EverLost(j, "failed")' \/ row'[j] = "failed"
      BY <2>1, <2>4, <3>1, WriteEffect, WriteRemembered
      DEF RejectFailed, TypeInv, bootVars, Statuses, Exists
    <3>3. \A k \in Jobs : k # j => row'[k] = row[k]
      BY <1>r, <3>2 DEF RowStep
    <3> QED BY <1>r, <2>1, <3>1, <3>2, <3>3 DEF HistoryInv, Statuses
  <2> QED BY <1>1, <2>2, <2>3, <2>4 DEF Enqueue
<1>2. CASE Dispatch \/ DispatchExit \/ StopCancel \/ StopSetStopped \/ UNCHANGED vars
  BY <1>2 DEF Dispatch, DispatchExit, StopCancel, StopSetStopped, rowVars, workerVars, bootVars,
              vars, HistoryInv, EverLost
<1>3. ASSUME NEW w \in Workers, Process(w)
      PROVE  HistoryInv'
  <2>1. UNCHANGED <<call, restarts>>
    BY <1>3 DEF Process, Pick, NoHandler, Begin, HandlerReturns, HandlerOK, HandlerError,
                HandlerPanic, BackoffElapsed, BackoffCancelled, Completed, FailedQueueCtx,
                FailedBackground, bootVars
  <2>2. CASE Pick(w)
    <3>1. row[Head(pool)] = "pending"
      <4>1. Head(pool) \in JobsIn(pool)
        BY <2>2, TailJobs DEF Pick, TypeInv, QueueTypes
      <4> QED BY <4>1 DEF IInv, RowInv
    <3>2. cur'[w] = Head(pool) /\ UNCHANGED <<row, lostWrites, starts>>
      BY <2>2 DEF Pick, TypeInv, WorkerTypes, rowVars
    <3>3. \A v \in Workers : v # w => cur'[v] = cur[v] /\ pc'[v] = pc[v]
      BY <2>2 DEF Pick, Goto, TypeInv, WorkerTypes
    <3> QED BY <2>1, <3>1, <3>2, <3>3 DEF HistoryInv, EverLost
  <2>3. CASE NoHandler(w) \/ HandlerReturns(w) \/ BackoffElapsed(w) \/ BackoffCancelled(w)
    <3>1. UNCHANGED <<row, lostWrites, starts, cur>>
      BY <2>3 DEF NoHandler, HandlerReturns, HandlerOK, HandlerError, HandlerPanic,
                  BackoffElapsed, BackoffCancelled, rowVars
    <3>2. \A v \in Workers : pc'[v] = "start" => pc[v] = "start"
      BY <2>3 DEF NoHandler, HandlerReturns, HandlerOK, HandlerError, HandlerPanic,
                  BackoffElapsed, BackoffCancelled, Goto, TypeInv, WorkerTypes
    <3> QED BY <2>1, <3>1, <3>2 DEF HistoryInv, EverLost
  <2>4. ASSUME pc[w] # "idle"
        PROVE  /\ cur[w] \in Jobs /\ row[cur[w]] \in Unfinished
               /\ call[cur[w]] \notin {"new", "checked", "persisted", "rejecting"}
               /\ \A v \in Workers : v # w /\ pc[v] = "start" => cur[v] # cur[w]
    BY <1>r, <2>4 DEF IInv, RowInv, CallInv, CopyInv, Busy, Unfinished
  <2>5. CASE Begin(w)
    <3>0. PICK j \in Jobs : j = cur[w]
      BY <2>4, <2>5 DEF Begin
    <3>1. /\ row[j] = "pending"
          /\ call[j] \notin {"new", "checked", "persisted", "rejecting"}
      BY <2>4, <2>5, <3>0 DEF Begin, HistoryInv
    <3>2. /\ RowStep(j, "running")
          /\ \A k \in Jobs, t \in Statuses : EverLost(k, t) => EverLost(k, t)'
          /\ EverLost(j, "running")' \/ row'[j] = "running"
      BY <2>1, <2>5, <3>0, <3>1, WriteEffect, WriteRemembered DEF Begin, TypeInv, Statuses, Exists
    <3>3. /\ \A k \in Jobs : k # j => row'[k] = row[k] /\ starts'[k] = starts[k]
          /\ starts'[j] = starts[j] + 1 /\ UNCHANGED cur
      BY <1>r, <2>5, <3>0, <3>2 DEF RowStep, Begin
    <3>4. \A v \in Workers : pc'[v] = "start" => pc[v] = "start" /\ v # w
      BY <2>5 DEF Begin, Goto, TypeInv, WorkerTypes
    <3>5. \A v \in Workers : pc'[v] = "start" => row'[cur'[v]] = "pending"
      BY <1>r, <2>4, <2>5, <3>0, <3>3, <3>4 DEF Begin, HistoryInv
    <3>6. starts[j] > 0 => EverLost(j, "running")
      BY <3>1 DEF HistoryInv
    <3>7. starts[j] \in Nat /\ "running" \in Statuses /\ "failed" \in Statuses
      BY <1>r, <3>1 DEF Statuses
    <3>8. starts'[j] > 1 => EverLost(j, "running")'
      BY <3>1, <3>2, <3>3, <3>6, <3>7
    <3>9. call[j] = "rejected" => EverLost(j, "failed")
      BY <3>1 DEF HistoryInv
    <3>10. ASSUME NEW k \in Jobs
           PROVE  /\ call'[k] \in {"new", "checked", "persisted", "rejecting"} => starts'[k] = 0
                  /\ starts'[k] > 0 => EverLost(k, "running")' \/ row'[k] \notin {"none", "pending"}
                  /\ starts'[k] > 1 => EverLost(k, "running")'
                  /\ call'[k] = "rejected" =>
                       \/ EverLost(k, "failed")'
                       \/ starts'[k] = 0 /\ row'[k] \in {"none", "failed", "deleted"}
      <4>1. CASE k = j
        BY <2>1, <3>1, <3>2, <3>7, <3>8, <3>9, <4>1
      <4>2. CASE k # j
        BY <2>1, <3>2, <3>3, <3>7, <4>2 DEF HistoryInv
      <4> QED BY <4>1, <4>2
    <3> QED BY <3>5, <3>10 DEF HistoryInv
  <2>6. CASE Completed(w) \/ FailedQueueCtx(w) \/ FailedBackground(w)
    <3> DEFINE j == cur[w]
    <3>1. /\ j \in Jobs /\ row[j] \in Unfinished
          /\ call[j] \notin {"new", "checked", "persisted", "rejecting"}
      BY <2>4, <2>6 DEF Completed, FailedQueueCtx, FailedBackground
    <3>2. /\ RowStep(j, "completed") \/ RowStep(j, "failed")
          /\ \A k \in Jobs, t \in Statuses : EverLost(k, t) => EverLost(k, t)'
      BY <2>1, <2>6, <3>1, WriteEffect, WriteRemembered
      DEF Completed, FailedQueueCtx, FailedBackground, TypeInv, Statuses
    <3>3. /\ \A k \in Jobs : k # j => row'[k] = row[k]
          /\ row'[j] = row[j] \/ row'[j] \in Finished
          /\ UNCHANGED starts
      BY <1>r, <2>6, <3>1, <3>2
      DEF RowStep, Completed, FailedQueueCtx, FailedBackground, Finished
    <3>4. \A v \in Workers : pc'[v] = "start" => pc[v] = "start" /\ v # w /\ cur'[v] = cur[v]
      BY <2>6 DEF Completed, FailedQueueCtx, FailedBackground, Return, Goto, TypeInv, WorkerTypes
    <3>5. \A v \in Workers : pc'[v] = "start" => row'[cur'[v]] = "pending"
      <4>1. pc[w] # "idle"
        BY <2>6 DEF Completed, FailedQueueCtx, FailedBackground
      <4> QED BY <1>r, <2>4, <3>3, <3>4, <4>1 DEF HistoryInv
    <3>6. "running" \in Statuses /\ "failed" \in Statuses
      BY DEF Statuses
    <3>7. call[j] = "rejected" => EverLost(j, "failed")
      BY <3>1 DEF HistoryInv, Unfinished
    <3>8. ASSUME NEW k \in Jobs
          PROVE  /\ call'[k] \in {"new", "checked", "persisted", "rejecting"} => starts'[k] = 0
                 /\ starts'[k] > 0 => EverLost(k, "running")' \/ row'[k] \notin {"none", "pending"}
                 /\ starts'[k] > 1 => EverLost(k, "running")'
                 /\ call'[k] = "rejected" =>
                      \/ EverLost(k, "failed")'
                      \/ starts'[k] = 0 /\ row'[k] \in {"none", "failed", "deleted"}
      <4>1. CASE k = j
        BY <2>1, <3>1, <3>2, <3>3, <3>6, <3>7, <4>1 DEF HistoryInv, Finished, Unfinished
      <4>2. CASE k # j
        BY <2>1, <3>2, <3>3, <3>6, <4>2 DEF HistoryInv
      <4> QED BY <4>1, <4>2
    <3> QED BY <3>5, <3>8 DEF HistoryInv
  <2> QED BY <1>3, <2>2, <2>3, <2>5, <2>6 DEF Process
<1>4. ASSUME DeleteOld, UNCHANGED <<call, pc, cur, starts, lostWrites, restarts>>
      PROVE  HistoryInv'
  <2>1. /\ \A k \in Jobs : row'[k] = row[k] \/ (row[k] \in Finished /\ row'[k] = "deleted")
    BY <1>4 DEF DeleteOld, RowsIn
  <2> QED BY <1>4, <1>r, <2>1 DEF HistoryInv, EverLost, Finished
<1>5. CASE PruneTask
  BY <1>4, <1>5 DEF PruneTask, workerVars, bootVars
<1>6. CASE Boot
  <2>1. CASE BootMark
    <3>1. /\ row' = [k \in Jobs |-> IF row[k] = "running" THEN "failed" ELSE row[k]]
          /\ UNCHANGED <<call, pc, cur, starts, lostWrites, restarts>>
      BY <2>1 DEF BootMark, workerVars
    <3> QED BY <1>r, <3>1 DEF HistoryInv, EverLost
  <2>2. ASSUME NEW j \in Jobs, Requeue(j)
        PROVE  HistoryInv'
    <3>1. UNCHANGED <<call, pc, cur, starts, restarts>>
      BY <2>2 DEF Requeue, workerVars
    <3>2. CASE UNCHANGED rowVars
      BY <3>1, <3>2 DEF rowVars, HistoryInv, EverLost
    <3>3. CASE WriteBackground(j, "failed")
      <4>1. /\ RowStep(j, "failed")
            /\ \A k \in Jobs, t \in Statuses : EverLost(k, t) => EverLost(k, t)'
        BY <3>1, <3>3, WriteEffect, WriteRemembered DEF TypeInv, Statuses
      <4>2. \A k \in Jobs : row'[k] = row[k] \/ row'[k] = "failed"
        BY <1>r, <4>1 DEF RowStep
      <4>3. \A v \in Workers : pc'[v] # "start"
        BY <2>2, <3>1 DEF Requeue, IInv, BootInv, Busy
      <4>4. "running" \in Statuses /\ "failed" \in Statuses
        BY DEF Statuses
      <4>5. ASSUME NEW k \in Jobs
            PROVE  /\ call'[k] \in {"new", "checked", "persisted", "rejecting"} => starts'[k] = 0
                   /\ starts'[k] > 0 => EverLost(k, "running")' \/ row'[k] \notin {"none", "pending"}
                   /\ starts'[k] > 1 => EverLost(k, "running")'
                   /\ call'[k] = "rejected" =>
                        \/ EverLost(k, "failed")'
                        \/ starts'[k] = 0 /\ row'[k] \in {"none", "failed", "deleted"}
        BY <3>1, <4>1, <4>2, <4>4 DEF HistoryInv
      <4> QED BY <4>3, <4>5 DEF HistoryInv
    <3> QED BY <2>2, <3>2, <3>3 DEF Requeue
  <2>3. CASE BootPrune
    BY <1>4, <2>3 DEF BootPrune, workerVars
  <2>4. CASE BootList \/ RequeueDone \/ BootStart
    BY <2>4 DEF BootList, RequeueDone, BootStart, rowVars, workerVars, HistoryInv, EverLost
  <2> QED BY <1>6, <2>1, <2>2, <2>3, <2>4 DEF Boot
<1>7. CASE Exit
  <2>1. /\ \A w \in Workers : pc'[w] = "idle"
        /\ UNCHANGED <<row, starts, lostWrites>>
        /\ \A j \in Jobs : call'[j] = call[j] \/ call'[j] = "lost"
    BY <1>7 DEF Exit, rowVars
  <2>2. restarts' = restarts + 1 /\ restarts \in Nat
    BY <1>7, BoundsAssumption DEF Exit, TypeInv, RowTypes
  <2>3. \A j \in Jobs, t \in Statuses : EverLost(j, t) => EverLost(j, t)'
    BY <2>1, <2>2 DEF EverLost
  <2>4. "running" \in Statuses /\ "failed" \in Statuses
    BY DEF Statuses
  <2> QED BY <2>1, <2>3, <2>4 DEF HistoryInv
<1> QED BY <1>1, <1>2, <1>3, <1>5, <1>6, <1>7 DEF Next

\* After a restart a job is handled again only if the write that recorded its
\* earlier start was lost (jobService.go:145 and 184-187).
THEOREM RerunsWereUnrecorded == Spec => []RerunOnlyUnrecorded
<1>1. HistoryInv => RerunOnlyUnrecorded
  BY DEF HistoryInv, RerunOnlyUnrecorded
<1> QED BY <1>1, TypeInvInit, TypeInvNext, IInvInit, IInvNext, HistoryInit, HistoryNext, PTL
    DEF Spec

\* A job whose caller was refused never runs, before or after a restart, unless
\* the write that failed it was lost (queue.go:110-128).
THEOREM RejectedStaysDead == Spec => []RejectedNeverRuns
<1>1. TypeInv /\ HistoryInv => RejectedNeverRuns
  BY DEF HistoryInv, RejectedNeverRuns, TypeInv, ControlTypes
<1> QED BY <1>1, TypeInvInit, TypeInvNext, IInvInit, IInvNext, HistoryInit, HistoryNext, PTL
    DEF Spec

-----------------------------------------------------------------------------
(* The recovery batch and the channel.                                     *)

FitInv ==
  phase = "requeue" =>
    /\ IsFiniteSet(recovering)
    /\ Len(chan) + Cardinality(recovering) <= BufferSize

LEMMA FitNext == TypeInv /\ IInv /\ FitInv /\ [Next]_vars => FitInv'
<1> SUFFICES ASSUME TypeInv, IInv, FitInv, [Next]_vars, phase' = "requeue"
             PROVE  IsFiniteSet(recovering') /\ Len(chan') + Cardinality(recovering') <= BufferSize
  BY DEF FitInv
<1>1. CASE BootList
  <2>1. PICK batch \in SUBSET RowsIn(Unfinished) :
          /\ Cardinality(batch) = IF Cardinality(RowsIn(Unfinished)) < RecoverBatchSize
                                  THEN Cardinality(RowsIn(Unfinished)) ELSE RecoverBatchSize
          /\ recovering' = {j \in batch : row[j] = "pending"}
    BY <1>1 DEF BootList
  <2>2. chan' = <<>>
    BY <1>1 DEF BootList, IInv, BootInv, queueVars
  <2>3. IsFiniteSet(RowsIn(Unfinished))
    BY JobsAssumption, FS_Subset DEF RowsIn
  <2>4. IsFiniteSet(batch) /\ Cardinality(batch) <= BufferSize
    BY <2>1, <2>3, FS_Subset, FS_CardinalityType, BufferAssumption DEF RecoverBatchSize
  <2>5. IsFiniteSet(recovering') /\ Cardinality(recovering') <= Cardinality(batch)
    BY <2>1, <2>4, FS_Subset
  <2>6. Cardinality(recovering') \in Nat /\ Cardinality(batch) \in Nat
    BY <2>4, <2>5, FS_CardinalityType
  <2> QED BY <2>2, <2>4, <2>5, <2>6, EmptyJobs, BufferAssumption
<1>2. ASSUME NEW j \in Jobs, Requeue(j)
      PROVE  IsFiniteSet(recovering') /\ Len(chan') + Cardinality(recovering') <= BufferSize
  <2>1. /\ phase = "requeue" /\ j \in recovering /\ recovering' = recovering \ {j}
        /\ chan' = chan \/ chan' = Append(chan, j)
    BY <1>2 DEF Requeue
  <2>2. /\ IsFiniteSet(recovering)
        /\ Len(chan) + Cardinality(recovering) <= BufferSize
    BY <2>1 DEF FitInv
  <2>3. /\ IsFiniteSet(recovering') /\ Cardinality(recovering) \in Nat
        /\ Cardinality(recovering') = Cardinality(recovering) - 1
    BY <2>1, <2>2, FS_RemoveElement, FS_CardinalityType
  <2>4. Len(chan) \in Nat /\ (Len(chan') = Len(chan) \/ Len(chan') = Len(chan) + 1)
    BY <2>1, AppendJobs DEF TypeInv, QueueTypes
  <2> QED BY <2>2, <2>3, <2>4, BufferAssumption
<1>3. CASE ~BootList /\ ~(\E j \in Jobs : Requeue(j))
  <2>1. ~Exit /\ ~BootStart /\ ~BootMark /\ ~RequeueDone /\ ~BootPrune
    BY DEF Exit, BootStart, BootMark, RequeueDone, BootPrune
  <2>2. phase = "requeue" /\ UNCHANGED recovering
    <3>1. CASE \E j \in Jobs : Enqueue(j)
      BY <3>1 DEF Enqueue, EnqueueStart, Queued, QueuedError, Accept, Reject, RejectFailed, bootVars
    <3>2. CASE \E w \in Workers : Process(w)
      BY <3>2 DEF Process, Pick, NoHandler, Begin, HandlerReturns, HandlerOK, HandlerError,
                  HandlerPanic, BackoffElapsed, BackoffCancelled, Completed, FailedQueueCtx,
                  FailedBackground, bootVars
    <3>3. CASE Dispatch \/ DispatchExit \/ PruneTask \/ StopCancel \/ StopSetStopped \/ UNCHANGED vars
      BY <3>3 DEF Dispatch, DispatchExit, PruneTask, StopCancel, StopSetStopped, vars, bootVars
    <3> QED BY <1>3, <2>1, <3>1, <3>2, <3>3 DEF Next, Boot
  <2>3. UNCHANGED chan
    <3>1. ASSUME NEW j \in Jobs, Enqueue(j)
          PROVE  UNCHANGED chan
      <4>1. call[j] \notin InCall
        BY <2>2 DEF IInv, BootInv
      <4> QED BY <2>2, <3>1, <4>1
          DEF Enqueue, EnqueueStart, Queued, QueuedError, Accept, Reject, RejectFailed, InCall
    <3>2. ASSUME NEW w \in Workers, Process(w)
          PROVE  UNCHANGED chan
      BY <3>2 DEF Process, Pick, NoHandler, Begin, HandlerReturns, HandlerOK, HandlerError,
                  HandlerPanic, BackoffElapsed, BackoffCancelled, Completed, FailedQueueCtx,
                  FailedBackground, queueVars
    <3>3. ~Dispatch
      BY <2>2 DEF Dispatch, IInv, BootInv
    <3>4. CASE DispatchExit \/ PruneTask \/ StopCancel \/ StopSetStopped \/ UNCHANGED vars
      BY <3>4 DEF DispatchExit, PruneTask, StopCancel, StopSetStopped, vars, queueVars
    <3> QED BY <1>3, <2>1, <3>1, <3>2, <3>3, <3>4 DEF Next, Boot
  <2> QED BY <2>2, <2>3 DEF FitInv
<1> QED BY <1>1, <1>2, <1>3

\* The recovery never meets a full channel: no job that survived a restart is failed
\* for lack of room (jobService.go:22 and 153-160).
THEOREM RecoveryNeverRefuses == Spec => []RecoveryFits
<1>1. Init => FitInv
  BY DEF Init, FitInv
<1>2. FitInv => RecoveryFits
  BY DEF FitInv, RecoveryFits
<1> QED BY <1>1, <1>2, TypeInvInit, TypeInvNext, IInvInit, IInvNext, FitNext, PTL DEF Spec

-----------------------------------------------------------------------------
(* No row is left behind: an unfinished row of a serving process is held   *)
(* by someone from the moment the recovery has listed the rows.            *)

Held(j) ==
  \/ j \in recovering
  \/ j \in JobsIn(chan)
  \/ j \in JobsIn(pool)
  \/ \E w \in Workers : Busy(w) /\ cur[w] = j
  \/ call[j] \in {"persisted", "rejecting"}
  \/ j \in leftover
  \/ LostThisLife(j)

HeldInv ==
  /\ phase # "up" => ~ctxDone
  /\ phase = "list" => \A j \in Jobs : row[j] # "running"
  /\ phase \notin {"mark", "list"} /\ ~ctxDone =>
       \A j \in Jobs : row[j] \in Unfinished => Held(j)

LEMMA FinalWrite ==
  ASSUME NEW j \in Jobs, NEW s \in Finished, TypeInv, UNCHANGED restarts,
         WriteBackground(j, s) \/ WriteQueueCtx(j, s)
  PROVE  /\ \A k \in Jobs : LostThisLife(k) => LostThisLife(k)'
         /\ row'[j] \in Unfinished => LostThisLife(j)'
         /\ \A k \in Jobs : k # j => row'[k] = row[k]
<1>1. row \in [Jobs -> Statuses]
  BY DEF TypeInv, RowTypes
<1>2. CASE WriteOK(j, s)
  BY <1>1, <1>2 DEF WriteOK, LostThisLife, Exists, Finished, Unfinished
<1>3. CASE LoseWrite(j, s)
  BY <1>1, <1>3 DEF LoseWrite, LostThisLife, Finished
<1> QED BY <1>2, <1>3 DEF WriteBackground, WriteQueueCtx, WriteFault

LEMMA HeldNext == TypeInv /\ IInv /\ HeldInv /\ [Next]_vars => HeldInv'
<1> SUFFICES ASSUME TypeInv, IInv, HeldInv, [Next]_vars
             PROVE  HeldInv'
  OBVIOUS
<1>r. /\ row \in [Jobs -> Statuses] /\ call \in [Jobs -> CallStates] /\ phase \in Phases
      /\ pc \in [Workers -> WorkerStates] /\ cur \in [Workers -> Jobs \cup {NoJob}]
      /\ chan \in Seq(Jobs) /\ pool \in Seq(Jobs)
      /\ \A w \in Workers : Busy(w) => cur[w] \in Jobs
  BY DEF TypeInv, RowTypes, ControlTypes, WorkerTypes, QueueTypes, Busy
<1>1. ASSUME NEW j \in Jobs, Enqueue(j)
      PROVE  HeldInv'
  <2>1. UNCHANGED <<pool, pc, cur, ctxDone, phase, recovering, leftover, restarts>>
    BY <1>1 DEF Enqueue, EnqueueStart, Queued, QueuedError, Accept, Reject, RejectFailed,
                queueVars, workerVars, stopVars, bootVars
  <2>2. phase = "up"
    BY <1>1 DEF Enqueue, EnqueueStart, Queued, QueuedError, Accept, Reject, RejectFailed, IInv,
                BootInv, InCall
  <2>3. \A k \in Jobs : k # j => call'[k] = call[k]
    BY <1>1, <1>r DEF Enqueue, EnqueueStart, Queued, QueuedError, Accept, Reject, RejectFailed
  <2>4. CASE EnqueueStart(j) \/ QueuedError(j) \/ Reject(j)
    <3>1. UNCHANGED <<row, lostWrites, chan>>
      BY <2>4 DEF EnqueueStart, QueuedError, Reject, rowVars, queueVars
    <3>2. call[j] \in {"persisted", "rejecting"} => call'[j] \in {"persisted", "rejecting"}
      BY <1>r, <2>4 DEF EnqueueStart, QueuedError, Reject
    <3> QED BY <2>1, <2>2, <2>3, <3>1, <3>2 DEF HeldInv, Held, Busy, LostThisLife
  <2>5. CASE Queued(j)
    <3>1. /\ call'[j] = "persisted" /\ row' = [row EXCEPT ![j] = "pending"]
          /\ UNCHANGED <<lostWrites, chan>>
      BY <1>r, <2>5 DEF Queued, queueVars
    <3> QED BY <1>r, <2>1, <2>2, <2>3, <3>1 DEF HeldInv, Held, Busy, LostThisLife
  <2>6. CASE Accept(j)
    <3>1. JobsIn(chan') = JobsIn(chan) \cup {j} /\ UNCHANGED <<row, lostWrites>>
      BY <1>r, <2>6, AppendJobs DEF Accept, rowVars
    <3> QED BY <2>1, <2>2, <2>3, <3>1 DEF HeldInv, Held, Busy, LostThisLife
  <2>7. CASE RejectFailed(j)
    <3>1. /\ \A k \in Jobs : LostThisLife(k) => LostThisLife(k)'
          /\ row'[j] \in Unfinished => LostThisLife(j)'
          /\ \A k \in Jobs : k # j => row'[k] = row[k]
          /\ UNCHANGED chan
      BY <2>1, <2>7, FinalWrite DEF RejectFailed, Finished, queueVars
    <3> QED BY <2>1, <2>2, <2>3, <3>1 DEF HeldInv, Held, Busy
  <2> QED BY <1>1, <2>4, <2>5, <2>6, <2>7 DEF Enqueue
<1>2. CASE Dispatch
  <2>1. /\ JobsIn(chan) = JobsIn(chan') \cup {Head(chan)}
        /\ JobsIn(pool') = JobsIn(pool) \cup {Head(chan)}
    BY <1>r, <1>2, TailJobs, AppendJobs DEF Dispatch
  <2> QED BY <1>2, <2>1
      DEF Dispatch, rowVars, workerVars, stopVars, bootVars, HeldInv, Held, Busy, LostThisLife
<1>3. ASSUME UNCHANGED <<row, lostWrites, call, chan, pool, pc, cur, recovering, leftover,
                         restarts, phase>>,
             \/ UNCHANGED ctxDone
             \/ ctxDone' /\ phase = "up"
      PROVE  HeldInv'
  BY <1>3 DEF HeldInv, Held, Busy, LostThisLife
<1>4. CASE DispatchExit \/ StopCancel \/ StopSetStopped \/ UNCHANGED vars
  BY <1>3, <1>4 DEF DispatchExit, StopCancel, StopSetStopped, vars, rowVars, queueVars, workerVars,
                    stopVars, bootVars
<1>5. ASSUME NEW w \in Workers, Process(w)
      PROVE  HeldInv'
  <2>1. UNCHANGED <<call, chan, ctxDone, phase, recovering, leftover, restarts>>
    BY <1>5 DEF Process, Pick, NoHandler, Begin, HandlerReturns, HandlerOK, HandlerError,
                HandlerPanic, BackoffElapsed, BackoffCancelled, Completed, FailedQueueCtx,
                FailedBackground, queueVars, stopVars, bootVars
  <2>2. CASE Pick(w)
    <3>1. JobsIn(pool) = JobsIn(pool') \cup {Head(pool)}
      BY <1>r, <2>2, TailJobs DEF Pick
    <3>2. /\ Busy(w)' /\ cur'[w] = Head(pool) /\ ~Busy(w)
          /\ \A v \in Workers : v # w => cur'[v] = cur[v] /\ (Busy(v)' <=> Busy(v))
          /\ UNCHANGED <<row, lostWrites>>
      BY <1>r, <2>2 DEF Pick, Goto, Busy, rowVars
    <3>3. ~(phase \in {"mark", "list"})
      BY <2>2 DEF Pick, IInv, BootInv
    <3> QED BY <2>1, <3>1, <3>2, <3>3 DEF HeldInv, Held, LostThisLife
  <2>3. ASSUME Busy(w)
        PROVE  phase = "up" /\ cur[w] \in Jobs
    BY <1>r, <2>3 DEF IInv, BootInv
  <2>4. CASE NoHandler(w) \/ HandlerReturns(w) \/ BackoffElapsed(w) \/ BackoffCancelled(w)
    <3>1. /\ UNCHANGED <<row, lostWrites, pool, cur>>
          /\ \A v \in Workers : Busy(v)' <=> Busy(v)
      BY <1>r, <2>4 DEF NoHandler, HandlerReturns, HandlerOK, HandlerError, HandlerPanic,
                  BackoffElapsed, BackoffCancelled, rowVars, queueVars, Goto, Busy
    <3> QED BY <2>1, <3>1 DEF HeldInv, Held, LostThisLife
  <2>5. CASE Begin(w)
    <3>1. /\ Busy(w) /\ UNCHANGED <<pool, cur>>
          /\ \A v \in Workers : Busy(v)' <=> Busy(v)
      BY <1>r, <2>5 DEF Begin, Goto, Busy, queueVars
    <3>2. RowStep(cur[w], "running")
      BY <2>1, <2>3, <2>5, <3>1, WriteEffect DEF Begin, TypeInv, Statuses
    <3>3. \A k \in Jobs : k # cur[w] => row'[k] = row[k]
      BY <1>r, <3>2 DEF RowStep
    <3>4. lostWrites \subseteq lostWrites'
      BY <2>5 DEF Begin, WriteQueueCtx, WriteBackground, WriteOK, WriteFault, LoseWrite
    <3>5. \A k \in Jobs : LostThisLife(k) => LostThisLife(k)'
      BY <2>1, <3>4 DEF LostThisLife
    <3> QED BY <2>1, <2>3, <3>1, <3>3, <3>5 DEF HeldInv, Held
  <2>6. CASE Completed(w) \/ FailedQueueCtx(w) \/ FailedBackground(w)
    <3>0. PICK j \in Jobs : j = cur[w] /\ phase = "up"
      BY <2>3, <2>6 DEF Completed, FailedQueueCtx, FailedBackground, Busy
    <3>1. \E s \in Finished : WriteBackground(j, s) \/ WriteQueueCtx(j, s)
      BY <2>6, <3>0 DEF Completed, FailedQueueCtx, FailedBackground, Finished
    <3>2. /\ \A k \in Jobs : LostThisLife(k) => LostThisLife(k)'
          /\ row'[j] \in Unfinished => LostThisLife(j)'
          /\ \A k \in Jobs : k # j => row'[k] = row[k]
      BY <2>1, <3>1, FinalWrite
    <3>3. /\ UNCHANGED pool
          /\ \A v \in Workers : v # w => cur'[v] = cur[v] /\ (Busy(v)' <=> Busy(v))
      BY <1>r, <2>6 DEF Completed, FailedQueueCtx, FailedBackground, Return, Goto, Busy, queueVars
    <3>4. ASSUME NEW k \in Jobs, row'[k] \in Unfinished, ~ctxDone
          PROVE  Held(k)'
      <4>1. CASE k = j
        BY <3>2, <3>4, <4>1 DEF Held
      <4>2. CASE k # j
        <5>1. Held(k)
          BY <3>0, <3>2, <3>4, <4>2 DEF HeldInv
        <5> QED BY <2>1, <3>0, <3>2, <3>3, <4>2, <5>1 DEF Held
      <4> QED BY <4>1, <4>2
    <3> QED BY <2>1, <3>0, <3>4 DEF HeldInv
  <2> QED BY <1>5, <2>2, <2>4, <2>5, <2>6 DEF Process
<1>6. ASSUME DeleteOld,
             UNCHANGED <<lostWrites, call, chan, pool, pc, cur, recovering, leftover, restarts,
                         ctxDone>>,
             \/ UNCHANGED phase
             \/ phase = "prune" /\ phase' = "start"
      PROVE  HeldInv'
  <2>1. \A k \in Jobs : row'[k] = row[k] \/ row'[k] = "deleted"
    BY <1>6 DEF DeleteOld
  <2> QED BY <1>6, <2>1 DEF HeldInv, Held, Busy, LostThisLife, Unfinished
<1>7. CASE PruneTask
  BY <1>6, <1>7 DEF PruneTask, queueVars, workerVars, bootVars, stopVars
<1>8. CASE Boot
  <2>1. CASE BootMark
    BY <2>1 DEF BootMark, stopVars, HeldInv
  <2>2. CASE BootList
    <3>1. PICK batch \in SUBSET RowsIn(Unfinished) :
            /\ recovering' = {j \in batch : row[j] = "pending"}
            /\ leftover' = RowsIn(Unfinished) \ batch
      BY <2>2 DEF BootList
    <3>2. phase = "list" /\ phase' = "requeue" /\ UNCHANGED <<row, ctxDone>>
      BY <2>2 DEF BootList, rowVars, stopVars
    <3>3. ASSUME NEW k \in Jobs, row[k] \in Unfinished
          PROVE  k \in recovering' \/ k \in leftover'
      BY <3>1, <3>2, <3>3 DEF HeldInv, Unfinished, RowsIn
    <3> QED BY <3>2, <3>3 DEF HeldInv, Held
  <2>3. ASSUME NEW j \in Jobs, Requeue(j)
        PROVE  HeldInv'
    <3>1. /\ phase = "requeue" /\ recovering' = recovering \ {j}
          /\ UNCHANGED <<call, pool, pc, cur, ctxDone, phase, leftover, restarts>>
      BY <2>3 DEF Requeue, workerVars, stopVars
    <3>2. CASE chan' = Append(chan, j) /\ UNCHANGED rowVars
      <4>1. JobsIn(chan') = JobsIn(chan) \cup {j} /\ UNCHANGED <<row, lostWrites>>
        BY <1>r, <3>2, AppendJobs DEF rowVars
      <4> QED BY <3>1, <4>1 DEF HeldInv, Held, Busy, LostThisLife
    <3>3. CASE UNCHANGED chan /\ WriteBackground(j, "failed")
      <4>1. /\ \A k \in Jobs : LostThisLife(k) => LostThisLife(k)'
            /\ row'[j] \in Unfinished => LostThisLife(j)'
            /\ \A k \in Jobs : k # j => row'[k] = row[k]
        BY <3>1, <3>3, FinalWrite DEF Finished
      <4> QED BY <3>1, <3>3, <4>1 DEF HeldInv, Held, Busy
    <3> QED BY <2>3, <3>2, <3>3 DEF Requeue
  <2>4. CASE RequeueDone \/ BootStart
    <3>1. /\ phase \in {"requeue", "start"} /\ phase' \in {"prune", "up"}
          /\ UNCHANGED <<row, lostWrites, call, chan, pool, pc, cur, recovering, leftover,
                          restarts, ctxDone>>
      BY <2>4 DEF RequeueDone, BootStart, rowVars, queueVars, workerVars, stopVars
    <3> QED BY <3>1 DEF HeldInv, Held, Busy, LostThisLife
  <2>5. CASE BootPrune
    BY <1>6, <2>5 DEF BootPrune, queueVars, workerVars, stopVars
  <2> QED BY <1>8, <2>1, <2>2, <2>3, <2>4, <2>5 DEF Boot
<1>9. CASE Exit
  BY <1>9 DEF Exit, HeldInv
<1> QED BY <1>1, <1>2, <1>4, <1>5, <1>7, <1>8, <1>9 DEF Next

\* While the server is up and not stopping, every unfinished row has someone who will
\* finish it, but for the recovery's batch limit and lost final writes
\* (queue.go:98-129, jobService.go:144-173).
THEOREM NoRowForgotten == Spec => []NoOrphanRow
<1>1. Init => HeldInv
  BY DEF Init, HeldInv
<1>2. IInv /\ HeldInv => NoOrphanRow
  BY DEF IInv, BootInv, HeldInv, Held, NoOrphanRow, InMemory, OnWorker, RowsIn, Busy
<1> QED BY <1>1, <1>2, TypeInvInit, TypeInvNext, IInvInit, IInvNext, HeldNext, PTL DEF Spec
=============================================================================
