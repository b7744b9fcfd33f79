---------------------------- MODULE JobSchedule ----------------------------
(***************************************************************************)
(* The job schedules: a table of recurring tasks that every server process *)
(* polls once a minute, claiming the due rows and enqueueing one job for   *)
(* each claim (src/internal/services/jobScheduleService.go and the         *)
(* repository below it).  Several processes may share the table            *)
(* (ENABLE_PREFORK, or several instances over one database); each has its  *)
(* own loop and its own in-memory cache of the rows.                       *)
(*                                                                         *)
(* What a row says (task, payload, interval, enabled) is written as a      *)
(* whole by Create and Update, so a row holds the number of the write and  *)
(* config remembers what each write said.  The clock ticks in whole units. *)
(***************************************************************************)
EXTENDS Naturals, Sequences, FiniteSets

CONSTANTS
  Procs,        \* the processes that share the database
  Schedules,    \* schedule ids, never reused
  Intervals,    \* the intervals an administrator chooses from, five minutes or more: longer
                \* than a runDue, which sees the clock move on once at most
  RetryAfter,   \* a released claim is due again after this time (one minute, less than
                \* any interval)
  Nothing,      \* no row, no entry, no request
  MaxTime,      \* bound: the clock stops here
  MaxWrites,    \* bound: creates and updates of one schedule
  MaxFaults     \* bound: crashes, timeouts, refused jobs and failed reads of a job

ASSUME ScheduleAssumption ==
  /\ Intervals \subseteq Nat \ {0, 1}
  /\ RetryAfter \in Nat \ {0} /\ \A i \in Intervals : RetryAfter < i
  /\ MaxTime \in Nat /\ MaxWrites \in Nat /\ MaxFaults \in Nat

VARIABLES
  now,      \* the clock
  row,      \* row[s]: Nothing, or [version, next (next_run_at), job (last_job_id)]
  cache,    \* cache[p][s]: Nothing, or the cached row: its version and, for the
            \* properties, whether an edit went by between its read and its store
  fill,     \* Nothing, or what a request has read and not yet cached (bound: one at a time)
  run,      \* run[p]: the runDue of p's loop
  config,   \* config[s]: what the writes of s said, in order
  claims,   \* history: every claim, a job id is its position
  faults    \* history: faults so far

vars == <<now, row, cache, fill, run, config, claims, faults>>

Idle == [pc |-> "idle", at |-> 0, ids |-> {}, due |-> {}, store |-> {}, job |-> 0, expired |-> FALSE]

Enabled(s) == config[s][row[s].version].enabled

\* enabled = 1 AND next_run_at <= t
Due(s, t) == row[s] # Nothing /\ Enabled(s) /\ row[s].next <= t

Hit(p, s) == cache[p][s] # Nothing

Forget(p, s) == cache' = [cache EXCEPT ![p][s] = Nothing]

Entry(s, v) == [version |-> v, late |-> row[s] = Nothing \/ row[s].version # v]

Init ==
  /\ now = 0
  /\ row = [s \in Schedules |-> Nothing]
  /\ cache = [p \in Procs |-> [s \in Schedules |-> Nothing]]
  /\ fill = Nothing
  /\ run = [p \in Procs |-> Idle]
  /\ config = [s \in Schedules |-> <<>>]
  /\ claims = <<>>
  /\ faults = 0

-----------------------------------------------------------------------------
\* Requests of an administrator.  The signal that wakes the own loop is not
\* modelled: the ticker may fire just as well.  Schedules are created at time 0, a
\* bound that loses nothing because only differences of times matter, and enabled: one
\* created disabled is one that an edit disables before it is due.

Written(p, s, i, e) ==
  config' = [config EXCEPT ![s] = Append(@, [interval |-> i, enabled |-> e, at |-> now, by |-> p])]

Create(p, s, i) ==
  /\ config[s] = <<>> /\ now = 0
  /\ Written(p, s, i, TRUE)
  /\ row' = [row EXCEPT ![s] = [version |-> 1, next |-> now + i, job |-> 0]]
  /\ UNCHANGED <<now, cache, fill, run, claims, faults>>

\* Faulty variants, for mutants only: an edit that only moves next_run_at, and one
\* that leaves the cached row where it is.
UpdateNextOnly(p, s, i, e) ==
  /\ row[s] # Nothing /\ Len(config[s]) < MaxWrites
  /\ Written(p, s, i, e)
  /\ row' = [row EXCEPT ![s].next = now + i]
  /\ Forget(p, s)
  /\ UNCHANGED <<now, fill, run, claims, faults>>

UpdateKeepsEntry(p, s, i, e) ==
  /\ row[s] # Nothing /\ Len(config[s]) < MaxWrites
  /\ Written(p, s, i, e)
  /\ row' = [row EXCEPT ![s].version = Len(config[s]) + 1, ![s].next = now + i]
  /\ UNCHANGED <<now, cache, fill, run, claims, faults>>

\* The statement leaves last_job_id alone.  The cleaning of the own cache, the next
\* statement, is part of the step: what a loop reads from the cache in between cannot
\* be claimed, since the row is due an interval later.
Update(p, s, i, e) ==
  /\ row[s] # Nothing
  /\ Len(config[s]) < MaxWrites
  /\ Written(p, s, i, e)
  /\ row' = [row EXCEPT ![s].version = Len(config[s]) + 1, ![s].next = now + i]
  /\ Forget(p, s)
  /\ UNCHANGED <<now, fill, run, claims, faults>>

Delete(p, s) ==
  /\ row[s] # Nothing
  /\ row' = [row EXCEPT ![s] = Nothing]
  /\ Forget(p, s)
  /\ UNCHANGED <<now, fill, run, config, claims, faults>>

\* Get, List and RunNow read a row through the cache: a miss reads the database,
\* and caches what it read in a later step.
ReadRow(p, s) ==
  /\ fill = Nothing /\ row[s] # Nothing /\ ~Hit(p, s)
  /\ fill' = [p |-> p, s |-> s, version |-> row[s].version]
  /\ UNCHANGED <<now, row, cache, run, config, claims, faults>>

StoreRow ==
  /\ fill # Nothing
  /\ cache' = [cache EXCEPT ![fill.p][fill.s] = Entry(fill.s, fill.version)]
  /\ fill' = Nothing
  /\ UNCHANGED <<now, row, run, config, claims, faults>>

\* An entry expires after 15 minutes or is evicted.
Evict(p, s) ==
  /\ Hit(p, s)
  /\ Forget(p, s)
  /\ UNCHANGED <<now, row, fill, run, config, claims, faults>>

-----------------------------------------------------------------------------
\* The loop of a process: runDue.  One context of 30 seconds spans the whole of it;
\* expired says it has run out, and every statement after that fails.

Done(p) == run' = [run EXCEPT ![p] = Idle]

\* With nothing left to claim the loop waits for its ticker again.
Proceed(r) == IF r.due = {} THEN Idle ELSE [r EXCEPT !.pc = "claim", !.job = 0]

ListDue(p) ==
  /\ run[p].pc = "idle"
  /\ LET ids == {s \in Schedules : Due(s, now)} IN
       /\ ids # {}
       /\ run' = [run EXCEPT ![p] = [Idle EXCEPT !.pc = "listed", !.at = now, !.ids = ids]]
  /\ UNCHANGED <<now, row, cache, fill, config, claims, faults>>

\* GetByIDs: what the cache has, and the rest from the database.
GetByIDs(p) ==
  /\ run[p].pc = "listed"
  /\ LET hits == {s \in run[p].ids : Hit(p, s)}
         rest == {s \in run[p].ids \ hits : row[s] # Nothing}
         read == {[s |-> s, version |-> row[s].version, late |-> FALSE] : s \in rest}
         due  == {[s |-> s, version |-> cache[p][s].version, late |-> cache[p][s].late] : s \in hits} \cup read
     IN  IF run[p].expired
           THEN Done(p)
           ELSE run' = [run EXCEPT ![p] = LET r == [@ EXCEPT !.ids = {}, !.due = due] IN
                          IF read = {} THEN Proceed(r) ELSE [r EXCEPT !.pc = "fetched", !.store = read]]
  /\ UNCHANGED <<now, row, cache, fill, config, claims, faults>>

StoreRows(p) ==
  /\ run[p].pc = "fetched"
  /\ cache' = [cache EXCEPT ![p] = [s \in Schedules |->
                 IF \E e \in run[p].store : e.s = s
                   THEN Entry(s, (CHOOSE e \in run[p].store : e.s = s).version) ELSE @[s]]]
  /\ run' = [run EXCEPT ![p] = Proceed([@ EXCEPT !.store = {}])]
  /\ UNCHANGED <<now, row, fill, config, claims, faults>>

\* The entity the loop holds may be outdated; the row decides whether it is due.
ClaimRow(p, e) ==
  LET i == config[e.s][e.version].interval
      r == [run[p] EXCEPT !.due = run[p].due \ {e}]
  IN  /\ row' = [row EXCEPT ![e.s].next = run[p].at + i, ![e.s].job = Len(claims) + 1]
      /\ Forget(p, e.s)
      /\ claims' = Append(claims, [s |-> e.s, by |-> p, at |-> run[p].at, interval |-> i,
                      used |-> e.version, late |-> e.late, current |-> row[e.s].version,
                      fate |-> "open", released |-> 0, cut |-> FALSE])
      /\ run' = [run EXCEPT ![p] = [r EXCEPT !.pc = "trigger", !.job = Len(claims) + 1]]

\* A faulty variant, for a mutant only: the time is not compared again, and two processes that listed the
\* same schedule both take it.
ClaimIfEnabled(p) ==
  /\ run[p].pc = "claim"
  /\ \E e \in run[p].due :
       IF ~run[p].expired /\ row[e.s] # Nothing /\ Enabled(e.s)
         THEN ClaimRow(p, e)
         ELSE /\ run' = [run EXCEPT ![p] = Proceed([run[p] EXCEPT !.due = run[p].due \ {e}])]
              /\ UNCHANGED <<row, cache, claims>>
  /\ UNCHANGED <<now, fill, config, faults>>

Claim(p) ==
  /\ run[p].pc = "claim"
  /\ \E e \in run[p].due :
       IF ~run[p].expired /\ Due(e.s, run[p].at)
         THEN ClaimRow(p, e)
         ELSE /\ run' = [run EXCEPT ![p] = Proceed([run[p] EXCEPT !.due = run[p].due \ {e}])]
              /\ UNCHANGED <<row, cache, claims>>
  /\ UNCHANGED <<now, fill, config, faults>>

\* A faulty variant, for a mutant only: a failed trigger is just logged.
TriggerAndForget(p) ==
  /\ run[p].pc = "trigger"
  /\ \/ /\ ~run[p].expired
        /\ claims' = [claims EXCEPT ![run[p].job].fate = "accepted"]
        /\ UNCHANGED faults
     \/ /\ run[p].expired \/ faults < MaxFaults
        /\ \E fate \in {"refused", "unread"} : claims' = [claims EXCEPT ![run[p].job].fate = fate]
        /\ faults' = IF run[p].expired THEN faults ELSE faults + 1
  /\ run' = [run EXCEPT ![p] = Proceed(@)]
  /\ UNCHANGED <<now, row, cache, fill, config>>

\* triggerWithID: the queue accepts the job or refuses it, and after an acceptance
\* the job is read back; an error of either releases the claim, also that of a job which
\* is in the queue and only could not be read ("unread").
Trigger(p) ==
  /\ run[p].pc = "trigger"
  /\ \/ /\ ~run[p].expired
        /\ claims' = [claims EXCEPT ![run[p].job].fate = "accepted"]
        /\ run' = [run EXCEPT ![p] = Proceed(@)]
        /\ UNCHANGED faults
     \/ /\ run[p].expired \/ faults < MaxFaults
        /\ \E fate \in {"refused", "unread"} : claims' = [claims EXCEPT ![run[p].job].fate = fate]
        /\ run' = [run EXCEPT ![p].pc = "release"]
        /\ faults' = IF run[p].expired THEN faults ELSE faults + 1
  /\ UNCHANGED <<now, row, cache, fill, config>>

\* ReleaseClaim undoes the claim only if the row still carries its job.
GiveBack(p) ==
  LET j == run[p].job
      s == claims[j].s
  IN  IF row[s] # Nothing /\ row[s].job = j
        THEN /\ row' = [row EXCEPT ![s].next = now + RetryAfter, ![s].job = 0]
             /\ Forget(p, s)
             /\ claims' = [claims EXCEPT ![j].released = row[s].version]
        ELSE UNCHANGED <<row, cache, claims>>

\* A faulty variant, for a mutant only: the release never gives up.
ReleaseInsists(p) ==
  /\ run[p].pc = "release" /\ ~run[p].expired
  /\ GiveBack(p)
  /\ run' = [run EXCEPT ![p] = Proceed(@)]
  /\ UNCHANGED <<now, fill, config, faults>>

\* Any error of the release is dropped, the expired context's or another's: it may fail
\* whenever it is tried.  MaxFaults counts what led to it and not the failure itself.
ReleaseClaim(p) ==
  /\ run[p].pc = "release"
  /\ \/ ~run[p].expired /\ GiveBack(p)
     \/ /\ claims' = [claims EXCEPT ![run[p].job].cut = TRUE]
        /\ UNCHANGED <<row, cache>>
  /\ run' = [run EXCEPT ![p] = Proceed(@)]
  /\ UNCHANGED <<now, fill, config, faults>>

-----------------------------------------------------------------------------
\* The environment.

\* The 30 seconds of p's runDue are over.
Expire(p) ==
  /\ run[p].pc # "idle" /\ ~run[p].expired
  /\ faults < MaxFaults
  /\ run' = [run EXCEPT ![p].expired = TRUE]
  /\ faults' = faults + 1
  /\ UNCHANGED <<now, row, cache, fill, config, claims>>

\* The process stops or dies with a claim in hand, and starts again with an empty
\* cache.  Elsewhere a stop changes no more than Expire and Evict do.
Crash(p) ==
  /\ faults < MaxFaults
  /\ run[p].job # 0
  /\ run' = [run EXCEPT ![p] = Idle]
  /\ cache' = [cache EXCEPT ![p] = [s \in Schedules |-> Nothing]]
  /\ fill' = IF fill # Nothing /\ fill.p = p THEN Nothing ELSE fill
  /\ claims' = [claims EXCEPT ![run[p].job].cut = TRUE]
  /\ faults' = faults + 1
  /\ UNCHANGED <<now, row, config>>

\* The clock ticks in minutes: a runDue sees it move on once, at most.
Tick ==
  /\ now < MaxTime
  /\ \A p \in Procs : run[p].pc = "idle" \/ run[p].expired \/ run[p].at = now
  /\ now' = now + 1
  /\ UNCHANGED <<row, cache, fill, run, config, claims, faults>>

Loop(p) ==
  ListDue(p) \/ GetByIDs(p) \/ StoreRows(p) \/ Claim(p) \/ Trigger(p) \/ ReleaseClaim(p)

Request(p) ==
  \/ \E s \in Schedules, i \in Intervals :
       Create(p, s, i) \/ \E e \in BOOLEAN : Update(p, s, i, e)
  \/ \E s \in Schedules : Delete(p, s) \/ ReadRow(p, s)

Next ==
  \/ Tick \/ StoreRow
  \/ \E p \in Procs, s \in Schedules : Evict(p, s)
  \/ \E p \in Procs : Loop(p) \/ Request(p) \/ Expire(p) \/ Crash(p)

Spec == Init /\ [][Next]_vars

\* A loop and a started request run on; nobody has to make a request, and the
\* clock may stop.
Fairness == \A p \in Procs : WF_vars(Loop(p))

FairSpec == Spec /\ Fairness

-----------------------------------------------------------------------------
\* Properties.

Versions(s) == 1..Len(config[s])

\* Types, and the shape of a claim: a job on its way belongs to the process that
\* claimed it, and the row's last job is a claim of that schedule.
TypeOK ==
  /\ now \in 0..MaxTime /\ faults \in 0..MaxFaults
  /\ \A s \in Schedules : row[s] # Nothing =>
       /\ row[s].version = Len(config[s])
       /\ row[s].job = 0 \/ claims[row[s].job].s = s
  /\ \A p \in Procs, s \in Schedules :
       cache[p][s] # Nothing => cache[p][s].version \in Versions(s)
  /\ \A p \in Procs :
       /\ run[p].pc \in {"trigger", "release"} => claims[run[p].job].by = p
       /\ \A e \in run[p].due : e.version \in Versions(e.s)

\* A schedule runs at most once per interval, however many processes poll it: after a
\* claim the next one comes an interval later, unless the claim was given back, which no
\* claim is whose job was accepted and read back.  The job of a claim that was given back
\* may be in the queue all the same, if only the reading failed: then the schedule runs
\* twice in an interval, but no sooner than RetryAfter.  After an edit the first claim
\* comes an interval later, unless a claim from before the edit was given back after it
\* (jobScheduleService.go:182-192, jobService.go:131-139, operations.sql:50-62).
NeverEarly ==
  \A j \in DOMAIN claims :
    LET c == claims[j]
        Earlier == {claims[k] : k \in {n \in 1..(j - 1) : claims[n].s = c.s}}
        edit == config[c.s][c.current]
    IN  /\ \/ c.at >= edit.at + edit.interval
           \/ \E b \in Earlier : b.current < c.current /\ b.released = c.current
        /\ \A b \in Earlier : b.current = c.current =>
             c.at >= b.at + (IF b.fate # "accepted" /\ b.released = c.current
                               THEN RetryAfter ELSE b.interval)

\* A job is enqueued with an outdated task, payload or interval only when the edit
\* was made through another process, whose cache is not this one's, or when the
\* entry was read before the edit and cached after it (jobScheduleService.go:179).
OutdatedIsExplained ==
  \A j \in DOMAIN claims :
    LET c == claims[j] IN
    c.used < c.current => config[c.s][c.used + 1].by # c.by \/ c.late

\* The slot a claim took is used or given back: a job is enqueued, or the row is due
\* again after RetryAfter, or the schedule was deleted meanwhile.  It is lost only when the
\* process stopped or the 30 seconds ran out in between, or when the statement that was to
\* give it back failed, after the one that enqueued had (jobScheduleService.go:187-193).
LostOnlyIfCut ==
  \A j \in DOMAIN claims :
    \/ claims[j].fate = "accepted"
    \/ claims[j].released > 0
    \/ claims[j].cut
    \/ row[claims[j].s] = Nothing
    \/ run[claims[j].by].job = j

\* Every loop comes back to its ticker, and then no enabled schedule is left due,
\* whatever requests, crashes and timeouts come in between: polling never gets stuck
\* behind a failed job and no schedule starves (jobScheduleService.go:159-195).
DueIsServed ==
  \A p \in Procs : []<>(run[p].pc = "idle" /\ \A s \in Schedules : ~Due(s, now))
=============================================================================
