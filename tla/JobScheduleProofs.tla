------------------------- MODULE JobScheduleProofs -------------------------
(***************************************************************************)
(* What holds of JobSchedule for every value of its constants.             *)
(***************************************************************************)
EXTENDS JobSchedule, SequenceTheorems, TLAPS

\* The shapes of the variables.
Rows == [version : Nat, next : Nat, job : Nat]
Entries == [version : Nat, late : BOOLEAN]
Fills == [p : Procs, s : Schedules, version : Nat]
Held == [s : Schedules, version : Nat, late : BOOLEAN]
Runs == [pc : {"idle", "listed", "fetched", "claim", "trigger", "release"}, at : Nat,
         ids : SUBSET Schedules, due : SUBSET Held, store : SUBSET Held, job : Nat,
         expired : BOOLEAN]
Writes == [interval : Intervals, enabled : BOOLEAN, at : Nat, by : Procs]
Claims == [s : Schedules, by : Procs, at : Nat, interval : Intervals, used : Nat,
           late : BOOLEAN, current : Nat, fate : {"open", "accepted", "refused", "unread"},
           released : Nat, cut : BOOLEAN]

Shapes ==
  /\ now \in 0..MaxTime /\ faults \in 0..MaxFaults
  /\ row \in [Schedules -> {Nothing} \cup Rows]
  /\ cache \in [Procs -> [Schedules -> {Nothing} \cup Entries]]
  /\ fill \in {Nothing} \cup Fills
  /\ run \in [Procs -> Runs]
  /\ config \in [Schedules -> Seq(Writes)]
  /\ claims \in Seq(Claims)

\* A row holds the last write and the last claim of its schedule.
RowsOK ==
  \A s \in Schedules :
    /\ \A v \in Versions(s) : config[s][v].at <= now
    /\ row[s] # Nothing =>
         /\ row[s].version = Len(config[s]) /\ Len(config[s]) > 0
         /\ row[s].job = 0 \/ (row[s].job \in 1..Len(claims) /\ claims[row[s].job].s = s)
         /\ row[s].job = 0 \/ \A k \in 1..Len(claims) : claims[k].s = s => k <= row[s].job

\* What a process has of a row is a version of it, and if it has missed an edit, one
\* of another process, or one it has read around.
Explained(p, s, v, late) ==
  v < Len(config[s]) => config[s][v + 1].by # p \/ late

EntriesOK ==
  /\ \A p \in Procs, s \in Schedules : cache[p][s] # Nothing =>
       /\ cache[p][s].version \in Versions(s)
       /\ Explained(p, s, cache[p][s].version, cache[p][s].late)
  /\ fill # Nothing => fill.version \in Versions(fill.s)
  /\ \A p \in Procs : \A e \in run[p].store : e.version \in Versions(e.s)

\* The row says what it is due for even where what the loop holds is outdated.
DueOK ==
  \A p \in Procs : \A e \in run[p].due :
    /\ e.version \in Versions(e.s)
    /\ \/ Explained(p, e.s, e.version, e.late)
       \/ row[e.s] = Nothing
       \/ row[e.s].next > run[p].at

InHand(p) == run[p].pc \in {"trigger", "release"}

RunsOK ==
  \A p \in Procs :
    /\ run[p].at <= now
    /\ run[p].pc # "idle" /\ ~run[p].expired => now <= run[p].at + 1
    /\ ~InHand(p) => run[p].job = 0
    /\ InHand(p) =>
         /\ run[p].job \in 1..Len(claims)
         /\ claims[run[p].job].by = p
         /\ claims[run[p].job].at = run[p].at
         /\ claims[run[p].job].released = 0
    /\ run[p].pc = "trigger" => claims[run[p].job].fate = "open"
    /\ run[p].pc = "release" => claims[run[p].job].fate \in {"refused", "unread"}

\* Nobody else claims the schedule while a loop has a claim of it in hand.
HandsOK ==
  \A p \in Procs :
    InHand(p) /\ ~run[p].expired =>
      LET s == claims[run[p].job].s IN
      row[s] # Nothing => row[s].job = run[p].job /\ row[s].next > run[p].at + 1

ClaimsOK ==
  \A j \in 1..Len(claims) :
    /\ claims[j].current \in Versions(claims[j].s)
    /\ claims[j].used \in Versions(claims[j].s)
    /\ claims[j].at <= now
    /\ \A i \in 1..(j - 1) : claims[i].s = claims[j].s => claims[i].current <= claims[j].current

\* How long after claim k the next one of version v may come: claim k was given back, or
\* it has taken its slot.
Wait(k, v) ==
  IF claims[k].fate # "accepted" /\ claims[k].released = v THEN RetryAfter ELSE claims[k].interval

\* Time t is an interval after the edit of s that version v is, unless a claim from
\* before the edit was given back after it; k claims are looked at.
AfterEdit(s, v, t, k) ==
  \/ t >= config[s][v].at + config[s][v].interval
  \/ \E i \in 1..k : claims[i].s = s /\ claims[i].current < v /\ claims[i].released = v

\* Time t is late enough after the claims of version v.
AfterClaims(s, v, t, k) ==
  \A i \in 1..k : claims[i].s = s /\ claims[i].current = v => t >= claims[i].at + Wait(i, v)

NextOK ==
  \A s \in Schedules : row[s] # Nothing =>
    /\ AfterEdit(s, row[s].version, row[s].next, Len(claims))
    /\ AfterClaims(s, row[s].version, row[s].next, Len(claims))

ClaimsLate ==
  \A j \in 1..Len(claims) :
    /\ AfterEdit(claims[j].s, claims[j].current, claims[j].at, j - 1)
    /\ AfterClaims(claims[j].s, claims[j].current, claims[j].at, j - 1)

Inv ==
  /\ Shapes /\ RowsOK /\ EntriesOK /\ DueOK /\ RunsOK /\ HandsOK /\ ClaimsOK
  /\ NextOK /\ ClaimsLate /\ OutdatedIsExplained /\ LostOnlyIfCut
-----------------------------------------------------------------------------
\* A row, an entry, a request, a run, a write and a claim are records of known shape.
LEMMA Typed ==
  ASSUME Shapes
  PROVE  /\ \A s \in Schedules : row[s] # Nothing => row[s] \in Rows
         /\ \A p \in Procs, s \in Schedules : cache[p][s] # Nothing => cache[p][s] \in Entries
         /\ fill # Nothing => fill \in Fills
         /\ \A p \in Procs : run[p] \in Runs
         /\ \A s \in Schedules : Len(config[s]) \in Nat
         /\ \A s \in Schedules : \A v \in Versions(s) : config[s][v] \in Writes
         /\ Len(claims) \in Nat
         /\ \A j \in 1..Len(claims) : claims[j] \in Claims
<1>1. \A s \in Schedules : config[s] \in Seq(Writes)
  BY DEF Shapes
<1>2. \A s \in Schedules : Len(config[s]) \in Nat /\ \A v \in Versions(s) : config[s][v] \in Writes
  BY <1>1, ElementOfSeq, LenProperties DEF Versions
<1>3. Len(claims) \in Nat /\ \A j \in 1..Len(claims) : claims[j] \in Claims
  BY ElementOfSeq, LenProperties DEF Shapes
<1> QED
  BY <1>2, <1>3 DEF Shapes

\* What LostOnlyIfCut says of one claim.
LEMMA SlotFacts ==
  ASSUME Inv, NEW k \in 1..Len(claims)
  PROVE  /\ claims[k].by \in Procs /\ claims[k].s \in Schedules
         /\ \/ claims[k].fate = "accepted" \/ claims[k].released > 0 \/ claims[k].cut
            \/ row[claims[k].s] = Nothing \/ run[claims[k].by].job = k
<1>1. claims[k].by \in Procs /\ claims[k].s \in Schedules
  BY Typed DEF Inv, Claims
<1>2. k \in DOMAIN claims
  BY LenProperties DEF Inv, Shapes
<1> QED
  BY <1>1, <1>2 DEF Inv, LostOnlyIfCut

\* Where neither the rows nor the claims change, the times that the claims are due stay.
LEMMA ClaimsStay ==
  ASSUME Inv, UNCHANGED <<row, config, claims>>
  PROVE  NextOK' /\ ClaimsLate' /\ OutdatedIsExplained'
BY DEF Inv, NextOK, ClaimsLate, OutdatedIsExplained, Wait, AfterEdit, AfterClaims

\* The clock ticks.
LEMMA TickInv ==
  ASSUME Inv, Tick
  PROVE  Inv'
<1>1. EntriesOK' /\ DueOK' /\ HandsOK' /\ NextOK' /\ ClaimsLate' /\ OutdatedIsExplained'
      /\ LostOnlyIfCut'
  BY ClaimsStay DEF Inv, Tick, EntriesOK, DueOK, HandsOK, LostOnlyIfCut, Explained, InHand, Versions
<1>2. now \in Nat /\ now' = now + 1 /\ now' \in 0..MaxTime
  BY ScheduleAssumption DEF Inv, Tick, Shapes
<1>3. Shapes'
  BY <1>2 DEF Inv, Tick, Shapes, Fills
<1>4. RowsOK'
  <2> SUFFICES ASSUME NEW s \in Schedules, NEW v \in Versions(s) PROVE config[s][v].at <= now'
    BY DEF Inv, Tick, RowsOK, Versions
  <2>1. config[s][v].at <= now /\ config[s][v].at \in Nat
    BY Typed DEF Inv, RowsOK, Writes
  <2> QED
    BY <1>2, <2>1
<1>5. RunsOK'
  <2> SUFFICES ASSUME NEW p \in Procs
               PROVE  run[p].at <= now' /\ (run[p].pc # "idle" /\ ~run[p].expired => now' <= run[p].at + 1)
    BY DEF Inv, Tick, RunsOK, InHand
  <2>1. run[p].at <= now /\ run[p].at \in Nat
    BY Typed DEF Inv, RunsOK, Runs
  <2> QED
    BY <1>2, <2>1 DEF Tick
<1>6. ClaimsOK'
  <2> SUFFICES ASSUME NEW j \in 1..Len(claims) PROVE claims[j].at <= now'
    BY DEF Inv, Tick, ClaimsOK, Versions
  <2>1. claims[j].at <= now /\ claims[j].at \in Nat
    BY Typed DEF Inv, ClaimsOK, Claims
  <2> QED
    BY <1>2, <2>1
<1> QED
  BY <1>1, <1>3, <1>4, <1>5, <1>6 DEF Inv

\* The context of a loop runs out.
LEMMA ExpireInv ==
  ASSUME Inv, NEW p \in Procs, Expire(p)
  PROVE  Inv'
<1>1. RowsOK' /\ ClaimsOK' /\ NextOK' /\ ClaimsLate' /\ OutdatedIsExplained'
  BY ClaimsStay DEF Inv, Expire, RowsOK, ClaimsOK, Versions
<1>2. run[p] \in Runs /\ run \in [Procs -> Runs]
  BY DEF Inv, Shapes
<1>3. /\ run' \in [Procs -> Runs]
      /\ \A q \in Procs : q # p => run'[q] = run[q]
      /\ run'[p].expired
      /\ run'[p].pc = run[p].pc /\ run'[p].at = run[p].at /\ run'[p].job = run[p].job
      /\ run'[p].due = run[p].due /\ run'[p].store = run[p].store
  BY <1>2 DEF Expire, Runs
<1>4. Shapes'
  BY <1>3, ScheduleAssumption DEF Inv, Expire, Shapes, Fills
<1>5. EntriesOK' /\ DueOK'
  BY <1>3 DEF Inv, Expire, EntriesOK, DueOK, Explained, Versions
<1>6. RunsOK' /\ HandsOK'
  BY <1>3 DEF Inv, Expire, RunsOK, HandsOK, InHand
<1>7. LostOnlyIfCut'
  BY <1>3, Typed DEF Inv, Expire, LostOnlyIfCut, Claims
<1> QED
  BY <1>1, <1>4, <1>5, <1>6, <1>7 DEF Inv

\* Forgetting an entry takes it from the cache and leaves the others.
LEMMA ForgetFacts ==
  ASSUME Shapes, NEW p \in Procs, NEW s \in Schedules, Forget(p, s)
  PROVE  /\ cache' \in [Procs -> [Schedules -> {Nothing} \cup Entries]]
         /\ cache'[p][s] = Nothing
         /\ \A q \in Procs, t \in Schedules : cache'[q][t] # Nothing => cache'[q][t] = cache[q][t]
  BY DEF Shapes, Forget

\* An administrator deletes a schedule.
LEMMA DeleteInv ==
  ASSUME Inv, NEW p \in Procs, NEW s \in Schedules, Delete(p, s)
  PROVE  Inv'
<1>1. RunsOK' /\ ClaimsOK' /\ ClaimsLate' /\ OutdatedIsExplained'
  BY DEF Inv, Delete, RunsOK, ClaimsOK, ClaimsLate, OutdatedIsExplained, InHand, Wait, AfterEdit,
         AfterClaims, Versions
<1>2. /\ row' \in [Schedules -> {Nothing} \cup Rows]
      /\ row'[s] = Nothing
      /\ \A t \in Schedules : t # s => row'[t] = row[t]
  BY DEF Inv, Shapes, Delete
<1>3. /\ cache' \in [Procs -> [Schedules -> {Nothing} \cup Entries]]
      /\ \A q \in Procs, t \in Schedules : cache'[q][t] # Nothing => cache'[q][t] = cache[q][t]
  BY ForgetFacts DEF Inv, Delete
<1>4. Shapes'
  BY <1>2, <1>3 DEF Inv, Delete, Shapes, Fills
<1>5. RowsOK'
  BY <1>2 DEF Inv, Delete, RowsOK, Versions
<1>6. EntriesOK'
  BY <1>3 DEF Inv, Delete, EntriesOK, Explained, Versions
<1>7. DueOK'
  <2> SUFFICES ASSUME NEW q \in Procs, NEW e \in run[q].due
               PROVE  /\ e.version \in Versions(e.s)
                      /\ Explained(q, e.s, e.version, e.late) \/ row'[e.s] = Nothing \/ row'[e.s].next > run[q].at
    BY DEF Delete, DueOK, Explained, Versions
  <2>1. e.s \in Schedules
    BY Typed DEF Inv, Runs, Held
  <2> QED
    BY <1>2, <2>1 DEF Inv, DueOK
<1>8. HandsOK'
  <2> SUFFICES ASSUME NEW q \in Procs, InHand(q), ~run[q].expired, row'[claims[run[q].job].s] # Nothing
               PROVE  /\ row'[claims[run[q].job].s].job = run[q].job
                      /\ row'[claims[run[q].job].s].next > run[q].at + 1
    BY DEF Delete, HandsOK, InHand
  <2>1. claims[run[q].job].s \in Schedules
    BY Typed DEF Inv, RunsOK, Claims
  <2> QED
    BY <1>2, <2>1 DEF Inv, HandsOK
<1>9. NextOK'
  BY <1>2 DEF Inv, Delete, NextOK, AfterEdit, AfterClaims, Wait, Versions
<1>10. LostOnlyIfCut'
  <2>1. \A j \in 1..Len(claims) : row[claims[j].s] = Nothing => row'[claims[j].s] = Nothing
    BY <1>2, Typed DEF Inv, Claims
  <2>2. DOMAIN claims = 1..Len(claims)
    BY LenProperties DEF Inv, Shapes
  <2> QED
    BY <2>1, <2>2 DEF Inv, Delete, LostOnlyIfCut
<1> QED
  BY <1>1, <1>4, <1>5, <1>6, <1>7, <1>8, <1>9, <1>10 DEF Inv

\* A request reads a row past the cache.
LEMMA ReadRowInv ==
  ASSUME Inv, NEW p \in Procs, NEW s \in Schedules, ReadRow(p, s)
  PROVE  Inv'
<1>1. RowsOK' /\ DueOK' /\ RunsOK' /\ HandsOK' /\ ClaimsOK' /\ NextOK' /\ ClaimsLate'
      /\ OutdatedIsExplained' /\ LostOnlyIfCut'
  BY ClaimsStay DEF Inv, ReadRow, RowsOK, DueOK, RunsOK, HandsOK, ClaimsOK, LostOnlyIfCut, Explained,
                    InHand, Versions
<1>2. row[s] \in Rows /\ row[s].version = Len(config[s]) /\ Len(config[s]) > 0 /\ Len(config[s]) \in Nat
  BY Typed DEF Inv, ReadRow, RowsOK
<1>3. fill' \in Fills /\ fill'.s = s /\ fill'.version = Len(config[s])
  BY <1>2 DEF ReadRow, Fills, Rows
<1>4. Shapes'
  BY <1>3 DEF Inv, ReadRow, Shapes, Fills
<1>5. EntriesOK'
  BY <1>2, <1>3 DEF Inv, ReadRow, EntriesOK, Explained, Versions
<1> QED
  BY <1>1, <1>4, <1>5 DEF Inv

\* An entry is one of the versions there have been, and knows what it has missed.
LEMMA EntryFacts ==
  ASSUME Inv, NEW p \in Procs, NEW s \in Schedules, NEW v \in Versions(s)
  PROVE  /\ Entry(s, v) \in Entries /\ Entry(s, v).version = v
         /\ Explained(p, s, v, Entry(s, v).late)
<1>1. v \in Nat
  BY Typed DEF Inv, Versions
<1>2. row[s] # Nothing => row[s].version = Len(config[s]) /\ Len(config[s]) \in Nat
  BY Typed DEF Inv, RowsOK
<1>3. Entry(s, v) = [version |-> v, late |-> row[s] = Nothing \/ row[s].version # v]
  BY DEF Entry
<1>4. Entry(s, v).version = v /\ Entry(s, v).late = (row[s] = Nothing \/ row[s].version # v)
  BY <1>3
<1>5. Entry(s, v).late \in BOOLEAN
  BY <1>4
<1>6. Entry(s, v) \in Entries
  BY <1>1, <1>3 DEF Entries
<1>7. Explained(p, s, v, Entry(s, v).late)
  <2> SUFFICES ASSUME v < Len(config[s]) PROVE row[s] = Nothing \/ row[s].version # v
    BY <1>4 DEF Explained
  <2> QED
    BY <1>1, <1>2
<1> QED
  BY <1>4, <1>6, <1>7

\* A request caches what it has read.
LEMMA StoreRowInv ==
  ASSUME Inv, StoreRow
  PROVE  Inv'
<1>1. RowsOK' /\ DueOK' /\ RunsOK' /\ HandsOK' /\ ClaimsOK' /\ NextOK' /\ ClaimsLate'
      /\ OutdatedIsExplained' /\ LostOnlyIfCut'
  BY ClaimsStay DEF Inv, StoreRow, RowsOK, DueOK, RunsOK, HandsOK, ClaimsOK, LostOnlyIfCut, Explained,
                    InHand, Versions
<1>2. fill.p \in Procs /\ fill.s \in Schedules /\ fill.version \in Versions(fill.s)
  BY Typed DEF Inv, StoreRow, EntriesOK, Fills
<1>3. Entry(fill.s, fill.version) \in Entries
  BY <1>2, EntryFacts
<1>4. /\ cache' \in [Procs -> [Schedules -> {Nothing} \cup Entries]]
      /\ \A q \in Procs, t \in Schedules :
           cache'[q][t] = IF q = fill.p /\ t = fill.s THEN Entry(fill.s, fill.version) ELSE cache[q][t]
  BY <1>2, <1>3 DEF Inv, Shapes, StoreRow
<1>5. Shapes'
  BY <1>4 DEF Inv, StoreRow, Shapes
<1>6. EntriesOK'
  <2> SUFFICES ASSUME NEW q \in Procs, NEW t \in Schedules, cache'[q][t] # Nothing
               PROVE  cache'[q][t].version \in Versions(t)
                      /\ Explained(q, t, cache'[q][t].version, cache'[q][t].late)
    BY DEF Inv, StoreRow, EntriesOK, Explained, Versions
  <2>1. CASE q = fill.p /\ t = fill.s
    BY <1>2, <1>4, <2>1, EntryFacts
  <2>2. CASE ~(q = fill.p /\ t = fill.s)
    BY <1>4, <2>2 DEF Inv, EntriesOK
  <2> QED
    BY <2>1, <2>2
<1> QED
  BY <1>1, <1>5, <1>6 DEF Inv

\* An entry goes.
LEMMA EvictInv ==
  ASSUME Inv, NEW p \in Procs, NEW s \in Schedules, Evict(p, s)
  PROVE  Inv'
<1>1. RowsOK' /\ DueOK' /\ RunsOK' /\ HandsOK' /\ ClaimsOK' /\ NextOK' /\ ClaimsLate'
      /\ OutdatedIsExplained' /\ LostOnlyIfCut'
  BY ClaimsStay DEF Inv, Evict, RowsOK, DueOK, RunsOK, HandsOK, ClaimsOK, LostOnlyIfCut, Explained,
                    InHand, Versions
<1>2. /\ cache' \in [Procs -> [Schedules -> {Nothing} \cup Entries]]
      /\ \A q \in Procs, t \in Schedules : cache'[q][t] # Nothing => cache'[q][t] = cache[q][t]
  BY ForgetFacts DEF Inv, Evict
<1>3. Shapes'
  BY <1>2 DEF Inv, Evict, Shapes, Fills
<1>4. EntriesOK'
  BY <1>2 DEF Inv, Evict, EntriesOK, Explained, Versions
<1> QED
  BY <1>1, <1>3, <1>4 DEF Inv

\* The loop lists what is due.
LEMMA ListDueInv ==
  ASSUME Inv, NEW p \in Procs, ListDue(p)
  PROVE  Inv'
<1>1. RowsOK' /\ ClaimsOK' /\ NextOK' /\ ClaimsLate' /\ OutdatedIsExplained'
  BY ClaimsStay DEF Inv, ListDue, RowsOK, ClaimsOK, Versions
<1>2. now \in Nat /\ run[p].job = 0
  BY DEF Inv, Shapes, ListDue, RunsOK, InHand
<1>3. /\ run' \in [Procs -> Runs]
      /\ \A q \in Procs : q # p => run'[q] = run[q]
      /\ run'[p].pc = "listed" /\ run'[p].at = now /\ run'[p].job = 0
      /\ run'[p].due = {} /\ run'[p].store = {}
  BY <1>2 DEF Inv, Shapes, ListDue, Idle, Runs
<1>4. Shapes'
  BY <1>3 DEF Inv, ListDue, Shapes, Fills
<1>5. EntriesOK' /\ DueOK'
  BY <1>3 DEF Inv, ListDue, EntriesOK, DueOK, Explained, Versions
<1>6. RunsOK' /\ HandsOK'
  BY <1>2, <1>3 DEF Inv, ListDue, RunsOK, HandsOK, InHand
<1>7. LostOnlyIfCut'
  BY <1>2, <1>3, Typed DEF Inv, ListDue, LostOnlyIfCut, Claims
<1> QED
  BY <1>1, <1>4, <1>5, <1>6, <1>7 DEF Inv

\* Without a claim in hand the loop goes on to claim, or is idle.
LEMMA ProceedFacts ==
  ASSUME NEW r \in Runs
  PROVE  /\ Proceed(r) \in Runs
         /\ Proceed(r).pc \in {"idle", "claim"} /\ Proceed(r).job = 0
         /\ Proceed(r).at = r.at \/ Proceed(r).at = 0
         /\ Proceed(r).pc # "idle" => Proceed(r).at = r.at /\ Proceed(r).expired = r.expired
         /\ Proceed(r).due = r.due
         /\ Proceed(r).store = r.store \/ Proceed(r).store = {}
         /\ Proceed(r).due # {} => Proceed(r).at = r.at
<1>1. CASE r.due = {}
  BY <1>1 DEF Proceed, Idle, Runs
<1>2. CASE r.due # {}
  BY <1>2 DEF Proceed, Runs
<1> QED
  BY <1>1, <1>2

\* The loop fetches the rows.
LEMMA GetByIDsInv ==
  ASSUME Inv, NEW p \in Procs, GetByIDs(p)
  PROVE  Inv'
<1>1. RowsOK' /\ ClaimsOK' /\ NextOK' /\ ClaimsLate' /\ OutdatedIsExplained'
  BY ClaimsStay DEF Inv, GetByIDs, RowsOK, ClaimsOK, Versions
<1> DEFINE hits == {s \in run[p].ids : Hit(p, s)}
           rest == {s \in run[p].ids \ hits : row[s] # Nothing}
           read == {[s |-> s, version |-> row[s].version, late |-> FALSE] : s \in rest}
           held == {[s |-> s, version |-> cache[p][s].version, late |-> cache[p][s].late] : s \in hits}
           r    == [run[p] EXCEPT !.ids = {}, !.due = held \cup read]
<1>2. run[p] \in Runs /\ run[p].ids \subseteq Schedules
  BY Typed DEF Inv, Runs
<1>3. \A e \in read : e \in Held /\ e.version \in Versions(e.s) /\ e.version = Len(config[e.s])
  <2> SUFFICES ASSUME NEW s \in rest
               PROVE  /\ [s |-> s, version |-> row[s].version, late |-> FALSE] \in Held
                      /\ row[s].version \in Versions(s) /\ row[s].version = Len(config[s])
    OBVIOUS
  <2>1. s \in Schedules /\ row[s] # Nothing
    BY <1>2
  <2> QED
    BY <2>1, Typed DEF Inv, RowsOK, Rows, Held, Versions
<1>4. \A e \in held : e \in Held /\ e.version \in Versions(e.s) /\ Explained(p, e.s, e.version, e.late)
  <2> SUFFICES ASSUME NEW s \in hits
               PROVE  /\ [s |-> s, version |-> cache[p][s].version, late |-> cache[p][s].late] \in Held
                      /\ cache[p][s].version \in Versions(s)
                      /\ Explained(p, s, cache[p][s].version, cache[p][s].late)
    OBVIOUS
  <2>1. s \in Schedules /\ cache[p][s] # Nothing
    BY <1>2 DEF Hit
  <2> QED
    BY <2>1, Typed DEF Inv, EntriesOK, Entries, Held
<1>5. \A e \in read : Explained(p, e.s, e.version, e.late)
  <2> SUFFICES ASSUME NEW e \in read PROVE Explained(p, e.s, e.version, e.late)
    OBVIOUS
  <2> QED
    BY <1>3, Typed DEF Inv, Explained, Held
<1>6. /\ r \in Runs /\ r.due = held \cup read /\ r.at = run[p].at /\ r.expired = run[p].expired
      /\ r.store = run[p].store
  BY <1>2, <1>3, <1>4 DEF Runs
<1>7. run'[p] \in {Idle, Proceed(r), [r EXCEPT !.pc = "fetched", !.store = read]}
      /\ run' = [run EXCEPT ![p] = run'[p]]
  BY DEF Inv, Shapes, GetByIDs, Done
<1> HIDE DEF held, read, r
<1>8. /\ run'[p] \in Runs /\ ~InHand(p)' /\ run'[p].job = 0 /\ run[p].job = 0
      /\ run'[p].at <= now /\ (run'[p].pc # "idle" /\ ~run'[p].expired => now <= run'[p].at + 1)
      /\ run'[p].due \subseteq held \cup read /\ (run'[p].due # {} => run'[p].at = run[p].at)
      /\ run'[p].store \subseteq read \cup run[p].store
  <2>1. /\ run[p].job = 0 /\ run[p].at <= now /\ now \in Nat /\ run[p].at \in Nat
        /\ ~run[p].expired => now <= run[p].at + 1
    BY <1>2 DEF Inv, Shapes, RunsOK, GetByIDs, InHand, Runs
  <2>2. CASE run'[p] = Idle
    BY <2>1, <2>2 DEF Idle, Runs, InHand
  <2>3. CASE run'[p] = Proceed(r)
    <3>1. /\ Proceed(r) \in Runs /\ Proceed(r).pc \in {"idle", "claim"} /\ Proceed(r).job = 0
          /\ Proceed(r).at = r.at \/ Proceed(r).at = 0
          /\ Proceed(r).pc # "idle" => Proceed(r).at = r.at /\ Proceed(r).expired = r.expired
          /\ Proceed(r).due = r.due /\ (Proceed(r).store = r.store \/ Proceed(r).store = {})
          /\ Proceed(r).due # {} => Proceed(r).at = r.at
      BY <1>6, ProceedFacts
    <3>2. run'[p].at <= now /\ (run'[p].pc # "idle" /\ ~run'[p].expired => now <= run'[p].at + 1)
      BY <1>6, <2>1, <2>3, <3>1
    <3> QED
      BY <1>6, <2>1, <2>3, <3>1, <3>2 DEF InHand
  <2>4. CASE run'[p] = [r EXCEPT !.pc = "fetched", !.store = read]
    <3>1. r.job = run[p].job
      BY <1>2 DEF Runs, r
    <3> QED
      BY <1>3, <1>6, <2>1, <2>4, <3>1 DEF InHand, Runs
  <2> QED
    BY <1>7, <2>2, <2>3, <2>4
<1>9. run' \in [Procs -> Runs] /\ \A q \in Procs : q # p => run'[q] = run[q]
  BY <1>7, <1>8 DEF Inv, Shapes
<1>10. Shapes'
  BY <1>9 DEF Inv, GetByIDs, Shapes, Fills
<1>11. EntriesOK'
  BY <1>3, <1>8, <1>9 DEF Inv, GetByIDs, EntriesOK, Explained, Versions
<1>12. DueOK'
  BY <1>3, <1>4, <1>5, <1>8, <1>9 DEF Inv, GetByIDs, DueOK, Explained, Versions
<1>13. RunsOK' /\ HandsOK'
  BY <1>8, <1>9 DEF Inv, GetByIDs, RunsOK, HandsOK, InHand
<1>14. LostOnlyIfCut'
  BY <1>8, <1>9, Typed DEF Inv, GetByIDs, LostOnlyIfCut, Claims
<1> QED
  BY <1>1, <1>10, <1>11, <1>12, <1>13, <1>14 DEF Inv

\* The loop caches the rows it has read.
LEMMA StoreRowsInv ==
  ASSUME Inv, NEW p \in Procs, StoreRows(p)
  PROVE  Inv'
<1>1. RowsOK' /\ ClaimsOK' /\ NextOK' /\ ClaimsLate' /\ OutdatedIsExplained'
  BY ClaimsStay DEF Inv, StoreRows, RowsOK, ClaimsOK, Versions
<1> DEFINE r == [run[p] EXCEPT !.store = {}]
<1>2. run[p] \in Runs /\ run[p].job = 0 /\ run[p].at <= now /\ (~run[p].expired => now <= run[p].at + 1)
  BY Typed DEF Inv, StoreRows, RunsOK, InHand
<1>3. r \in Runs /\ r.store = {} /\ r.due = run[p].due /\ r.at = run[p].at /\ r.expired = run[p].expired
  BY <1>2 DEF Runs
<1>4. run'[p] = Proceed(r) /\ \A q \in Procs : q # p => run'[q] = run[q]
  BY DEF Inv, Shapes, StoreRows
<1>5. /\ run' \in [Procs -> Runs] /\ ~InHand(p)' /\ run'[p].job = 0
      /\ run'[p].at <= now /\ (run'[p].pc # "idle" /\ ~run'[p].expired => now <= run'[p].at + 1)
      /\ run'[p].due = run[p].due /\ (run'[p].due # {} => run'[p].at = run[p].at)
      /\ run'[p].store = {}
  <2>1. Proceed(r) \in Runs /\ now \in Nat /\ run' = [run EXCEPT ![p] = Proceed(r)]
    BY <1>3, ProceedFacts DEF Inv, Shapes, StoreRows
  <2>2. /\ Proceed(r).pc \in {"idle", "claim"} /\ Proceed(r).job = 0
        /\ Proceed(r).at = r.at \/ Proceed(r).at = 0
        /\ Proceed(r).pc # "idle" => Proceed(r).at = r.at /\ Proceed(r).expired = r.expired
        /\ Proceed(r).due = r.due /\ (Proceed(r).store = r.store \/ Proceed(r).store = {})
        /\ Proceed(r).due # {} => Proceed(r).at = r.at
    BY <1>3, ProceedFacts
  <2>3. run'[p].at <= now /\ (run'[p].pc # "idle" /\ ~run'[p].expired => now <= run'[p].at + 1)
    BY <1>2, <1>3, <1>4, <2>1, <2>2
  <2>4. run' \in [Procs -> Runs]
    BY <2>1 DEF Inv, Shapes
  <2> QED
    BY <1>3, <1>4, <2>2, <2>3, <2>4 DEF InHand
<1>6. \A q \in Procs, s \in Schedules :
        \/ cache'[q][s] = cache[q][s]
        \/ q = p /\ \E e \in run[p].store : e.s = s /\ cache'[q][s] = Entry(s, e.version)
  <2> SUFFICES ASSUME NEW q \in Procs, NEW s \in Schedules
               PROVE  \/ cache'[q][s] = cache[q][s]
                      \/ q = p /\ \E e \in run[p].store : e.s = s /\ cache'[q][s] = Entry(s, e.version)
    OBVIOUS
  <2>1. CASE q = p /\ \E e \in run[p].store : e.s = s
    <3>1. (CHOOSE e \in run[p].store : e.s = s) \in run[p].store
          /\ (CHOOSE e \in run[p].store : e.s = s).s = s
      BY <2>1
    <3> QED
      BY <2>1, <3>1 DEF Inv, Shapes, StoreRows
  <2>2. CASE ~(q = p /\ \E e \in run[p].store : e.s = s)
    BY <2>2 DEF Inv, Shapes, StoreRows
  <2> QED
    BY <2>1, <2>2
<1>7. \A q \in Procs, s \in Schedules : cache'[q][s] # Nothing =>
        /\ cache'[q][s] \in Entries /\ cache'[q][s].version \in Versions(s)
        /\ Explained(q, s, cache'[q][s].version, cache'[q][s].late)
  <2> SUFFICES ASSUME NEW q \in Procs, NEW s \in Schedules, cache'[q][s] # Nothing
               PROVE  /\ cache'[q][s] \in Entries /\ cache'[q][s].version \in Versions(s)
                      /\ Explained(q, s, cache'[q][s].version, cache'[q][s].late)
    OBVIOUS
  <2>1. CASE cache'[q][s] = cache[q][s]
    BY <2>1, Typed DEF Inv, EntriesOK
  <2>2. CASE q = p /\ \E e \in run[p].store : e.s = s /\ cache'[q][s] = Entry(s, e.version)
    BY <2>2, EntryFacts DEF Inv, EntriesOK
  <2> QED
    BY <1>6, <2>1, <2>2
<1>8. cache' \in [Procs -> [Schedules -> {Nothing} \cup Entries]]
  BY <1>7 DEF Inv, Shapes, StoreRows
<1>9. Shapes'
  BY <1>5, <1>8 DEF Inv, StoreRows, Shapes, Fills
<1>10. EntriesOK'
  BY <1>4, <1>5, <1>7 DEF Inv, StoreRows, EntriesOK, Explained, Versions
<1>11. DueOK'
  <2> SUFFICES ASSUME NEW q \in Procs, NEW h \in run'[q].due
               PROVE  /\ h.version \in Versions(h.s)
                      /\ \/ Explained(q, h.s, h.version, h.late)
                         \/ row[h.s] = Nothing
                         \/ row[h.s].next > run'[q].at
    BY DEF StoreRows, DueOK, Explained, Versions
  <2>1. h \in run[q].due /\ run'[q].at = run[q].at
    BY <1>4, <1>5
  <2> QED
    BY <2>1 DEF Inv, DueOK
<1>12. RunsOK' /\ HandsOK'
  BY <1>4, <1>5 DEF Inv, StoreRows, RunsOK, HandsOK, InHand
<1>13. LostOnlyIfCut'
  BY <1>2, <1>4, <1>5, Typed DEF Inv, StoreRows, LostOnlyIfCut, Claims
<1> QED
  BY <1>1, <1>9, <1>10, <1>11, <1>12, <1>13 DEF Inv

\* A write adds a version: the others stay what they were, and whoever's cache has missed
\* it is another process than the writer.
LEMMA WrittenFacts ==
  ASSUME Inv, NEW p \in Procs, NEW s \in Schedules, NEW i \in Intervals, NEW e \in BOOLEAN,
         Written(p, s, i, e)
  PROVE  /\ config' \in [Schedules -> Seq(Writes)]
         /\ Len(config[s]) \in Nat
         /\ Len(config'[s]) = Len(config[s]) + 1
         /\ config'[s][Len(config[s]) + 1] = [interval |-> i, enabled |-> e, at |-> now, by |-> p]
         /\ \A t \in Schedules : t # s => config'[t] = config[t]
         /\ \A t \in Schedules : Versions(t) \subseteq Versions(t)'
         /\ \A t \in Schedules : \A v \in Versions(t) : config'[t][v] = config[t][v]
         /\ \A q \in Procs, t \in Schedules : \A v \in Versions(t), late \in BOOLEAN :
              (q # p \/ t # s) /\ Explained(q, t, v, late) => Explained(q, t, v, late)'
<1> DEFINE w == [interval |-> i, enabled |-> e, at |-> now, by |-> p]
<1>1. w \in Writes
  BY ScheduleAssumption DEF Inv, Shapes, Writes
<1>2. config[s] \in Seq(Writes) /\ Len(config[s]) \in Nat
  BY Typed DEF Inv, Shapes
<1>3. config'[s] = Append(config[s], w) /\ \A t \in Schedules : t # s => config'[t] = config[t]
  BY DEF Inv, Shapes, Written
<1> HIDE DEF w
<1>4. /\ Append(config[s], w) \in Seq(Writes) /\ Len(Append(config[s], w)) = Len(config[s]) + 1
      /\ \A n \in 1..Len(config[s]) : Append(config[s], w)[n] = config[s][n]
      /\ Append(config[s], w)[Len(config[s]) + 1] = w
  BY <1>1, <1>2, AppendProperties
<1>5. config' \in [Schedules -> Seq(Writes)]
  <2>1. config' = [config EXCEPT ![s] = Append(config[s], w)]
    BY DEF Inv, Shapes, Written, w
  <2> QED
    BY <1>4, <2>1 DEF Inv, Shapes
<1>6. \A t \in Schedules : Versions(t) \subseteq Versions(t)' /\ \A v \in Versions(t) : config'[t][v] = config[t][v]
  BY <1>2, <1>3, <1>4 DEF Versions
<1>7. ASSUME NEW q \in Procs, NEW t \in Schedules, NEW v \in Versions(t), NEW late \in BOOLEAN,
             q # p \/ t # s, Explained(q, t, v, late)
      PROVE  Explained(q, t, v, late)'
  <2>1. CASE t # s
    BY <1>3, <1>7, <2>1 DEF Explained
  <2>2. CASE t = s /\ v = Len(config[s])
    <3>1. w.by = p
      BY DEF w
    <3> QED
      BY <1>2, <1>3, <1>4, <1>7, <2>2, <3>1 DEF Explained
  <2>3. CASE t = s /\ v # Len(config[s])
    <3>1. v < Len(config[s]) /\ v + 1 \in 1..Len(config[s])
      BY <1>2, <2>3 DEF Versions
    <3> QED
      BY <1>3, <1>4, <1>7, <2>3, <3>1 DEF Explained
  <2> QED
    BY <2>1, <2>2, <2>3
<1> QED
  BY <1>2, <1>3, <1>4, <1>5, <1>6, <1>7 DEF w

\* A write disturbs nothing that is said of the versions before it.
LEMMA OldVersions ==
  ASSUME Inv, NEW p \in Procs, NEW s \in Schedules, NEW i \in Intervals, NEW e \in BOOLEAN,
         Written(p, s, i, e), UNCHANGED <<now, claims>>
  PROVE  /\ ClaimsOK' /\ ClaimsLate' /\ OutdatedIsExplained'
         /\ \A t \in Schedules : \A v \in Versions(t), k \in 0..Len(claims) : \A at \in Nat :
              /\ AfterEdit(t, v, at, k) => AfterEdit(t, v, at, k)'
              /\ AfterClaims(t, v, at, k) => AfterClaims(t, v, at, k)'
<1>1. \A t \in Schedules : \A v \in Versions(t) : v \in Versions(t)' /\ config'[t][v] = config[t][v]
  BY WrittenFacts
<1>2. ClaimsOK'
  BY <1>1, Typed DEF Inv, ClaimsOK, Claims
<1>3. \A t \in Schedules : \A v \in Versions(t), k \in 0..Len(claims) : \A at \in Nat :
        /\ AfterEdit(t, v, at, k) => AfterEdit(t, v, at, k)'
        /\ AfterClaims(t, v, at, k) => AfterClaims(t, v, at, k)'
  BY <1>1 DEF AfterEdit, AfterClaims, Wait
<1>4. ClaimsLate'
  <2> SUFFICES ASSUME NEW j \in 1..Len(claims)
               PROVE  /\ AfterEdit(claims[j].s, claims[j].current, claims[j].at, j - 1)'
                      /\ AfterClaims(claims[j].s, claims[j].current, claims[j].at, j - 1)'
    BY DEF ClaimsLate
  <2>1. claims[j].s \in Schedules /\ claims[j].current \in Versions(claims[j].s) /\ claims[j].at \in Nat
        /\ j - 1 \in 0..Len(claims)
    BY Typed DEF Inv, ClaimsOK, Claims
  <2> QED
    BY <1>3, <2>1 DEF Inv, ClaimsLate
<1>5. OutdatedIsExplained'
  <2> SUFFICES ASSUME NEW j \in 1..Len(claims), claims[j].used < claims[j].current
               PROVE  config'[claims[j].s][claims[j].used + 1].by # claims[j].by \/ claims[j].late
    BY LenProperties DEF Inv, Shapes, OutdatedIsExplained
  <2>1. claims[j].s \in Schedules /\ claims[j].used + 1 \in Versions(claims[j].s)
    BY Typed DEF Inv, ClaimsOK, Claims, Versions
  <2> QED
    BY <1>1, <2>1, LenProperties DEF Inv, Shapes, OutdatedIsExplained
<1> QED
  BY <1>2, <1>3, <1>4, <1>5

\* An administrator creates a schedule.
LEMMA CreateInv ==
  ASSUME Inv, NEW p \in Procs, NEW s \in Schedules, NEW i \in Intervals, Create(p, s, i)
  PROVE  Inv'
<1>1. i \in Nat /\ now \in Nat /\ Len(config[s]) = 0 /\ Versions(s) = {}
  BY ScheduleAssumption, EmptySeq DEF Inv, Shapes, Create, Versions
<1>2. /\ config' \in [Schedules -> Seq(Writes)]
      /\ Len(config'[s]) = 1
      /\ config'[s][1].interval = i /\ config'[s][1].at = now
      /\ \A t \in Schedules : t # s => config'[t] = config[t]
      /\ \A t \in Schedules : Versions(t) \subseteq Versions(t)'
      /\ \A t \in Schedules : \A v \in Versions(t) : config'[t][v] = config[t][v]
      /\ ClaimsOK' /\ ClaimsLate' /\ OutdatedIsExplained'
  <2>1. PICK e \in BOOLEAN : Written(p, s, i, e) /\ UNCHANGED <<now, claims>>
    BY DEF Create
  <2>2. ClaimsOK' /\ ClaimsLate' /\ OutdatedIsExplained'
    BY <2>1, OldVersions
  <2>3. /\ config' \in [Schedules -> Seq(Writes)]
        /\ Len(config'[s]) = Len(config[s]) + 1
        /\ config'[s][Len(config[s]) + 1] = [interval |-> i, enabled |-> e, at |-> now, by |-> p]
        /\ \A t \in Schedules : t # s => config'[t] = config[t]
        /\ \A t \in Schedules : Versions(t) \subseteq Versions(t)'
        /\ \A t \in Schedules : \A v \in Versions(t) : config'[t][v] = config[t][v]
    BY <2>1, WrittenFacts
  <2>4. Len(config[s]) + 1 = 1
    BY <1>1
  <2> QED
    BY <2>2, <2>3, <2>4
<1>3. /\ row' \in [Schedules -> {Nothing} \cup Rows]
      /\ row'[s] = [version |-> 1, next |-> now + i, job |-> 0]
      /\ \A t \in Schedules : t # s => row'[t] = row[t]
  BY <1>1 DEF Inv, Shapes, Create, Rows
<1>4. \A j \in 1..Len(claims) : claims[j].s \in Schedules \ {s}
  BY <1>1, Typed DEF Inv, ClaimsOK, Claims
<1>5. Shapes'
  BY <1>2, <1>3 DEF Inv, Create, Shapes, Fills
<1>6. RowsOK'
  <2> SUFFICES ASSUME NEW t \in Schedules
               PROVE  /\ \A v \in 1..Len(config'[t]) : config'[t][v].at <= now
                      /\ row'[t] # Nothing =>
                           /\ row'[t].version = Len(config'[t]) /\ Len(config'[t]) > 0
                           /\ row'[t].job = 0 \/ (row'[t].job \in 1..Len(claims) /\ claims[row'[t].job].s = t)
                           /\ row'[t].job = 0 \/ \A k \in 1..Len(claims) : claims[k].s = t => k <= row'[t].job
    BY DEF Create, RowsOK, Versions
  <2>1. CASE t = s
    <3>0. Len(config'[t]) = 1
      BY <1>2, <2>1
    <3>1. \A v \in 1..Len(config'[t]) : v = 1
      BY <3>0
    <3>2. config'[t][1].at = now
      BY <1>2, <2>1
    <3>3. \A v \in 1..Len(config'[t]) : config'[t][v].at <= now
      BY <1>1, <3>1, <3>2
    <3> QED
      BY <1>3, <2>1, <3>0, <3>3
  <2>2. CASE t # s
    BY <1>2, <1>3, <2>2 DEF Inv, RowsOK, Versions
  <2> QED
    BY <2>1, <2>2
<1>7. EntriesOK' /\ DueOK'
  <2>1. \A q \in Procs, t \in Schedules : cache[q][t] # Nothing => t # s
    BY <1>1 DEF Inv, EntriesOK
  <2>2. fill # Nothing => fill.s \in Schedules \ {s}
    BY <1>1, Typed DEF Inv, EntriesOK, Fills
  <2>3. \A q \in Procs : \A e \in run[q].store : e.s \in Schedules \ {s}
    BY <1>1, Typed DEF Inv, EntriesOK, Runs, Held
  <2>4. \A q \in Procs : \A e \in run[q].due : e.s \in Schedules \ {s}
    BY <1>1, Typed DEF Inv, DueOK, Runs, Held
  <2>5. EntriesOK'
    BY <1>2, <2>1, <2>2, <2>3 DEF Inv, Create, EntriesOK, Explained, Versions
  <2>6. DueOK'
    BY <1>2, <1>3, <2>4 DEF Inv, Create, DueOK, Explained, Versions
  <2> QED
    BY <2>5, <2>6
<1>8. RunsOK'
  BY DEF Inv, Create, RunsOK, InHand
<1>9. HandsOK'
  BY <1>3, <1>4 DEF Inv, Create, HandsOK, RunsOK, InHand
<1>10. NextOK'
  <2> SUFFICES ASSUME NEW t \in Schedules, row'[t] # Nothing
               PROVE  /\ AfterEdit(t, row[t].version, row[t].next, Len(claims))'
                      /\ AfterClaims(t, row[t].version, row[t].next, Len(claims))'
    BY DEF NextOK
  <2>1. CASE t = s
    <3>1. AfterEdit(t, row[t].version, row[t].next, Len(claims))'
      BY <1>1, <1>2, <1>3, <2>1 DEF AfterEdit
    <3>2. AfterClaims(t, row[t].version, row[t].next, Len(claims))'
      BY <1>4, <2>1 DEF Create, AfterClaims
    <3> QED
      BY <3>1, <3>2
  <2>2. CASE t # s
    BY <1>2, <1>3, <2>2 DEF Inv, Create, NextOK, AfterEdit, AfterClaims, Wait
  <2> QED
    BY <2>1, <2>2
<1>11. LostOnlyIfCut'
  BY <1>3, <1>4, LenProperties DEF Inv, Shapes, Create, LostOnlyIfCut
<1> QED
  BY <1>2, <1>5, <1>6, <1>7, <1>8, <1>9, <1>10, <1>11 DEF Inv

\* An administrator edits a schedule.
LEMMA UpdateInv ==
  ASSUME Inv, NEW p \in Procs, NEW s \in Schedules, NEW i \in Intervals, NEW e \in BOOLEAN,
         Update(p, s, i, e)
  PROVE  Inv'
<1> DEFINE n == Len(config[s]) + 1
<1>1. /\ i \in Nat /\ i > 1 /\ now \in Nat /\ Len(config[s]) \in Nat /\ row[s] \in Rows
      /\ row[s].version = Len(config[s])
  BY ScheduleAssumption, Typed DEF Inv, Shapes, Update, RowsOK
<1>2. /\ config' \in [Schedules -> Seq(Writes)]
      /\ Len(config'[s]) = n
      /\ config'[s][n] = [interval |-> i, enabled |-> e, at |-> now, by |-> p]
      /\ \A t \in Schedules : t # s => config'[t] = config[t]
      /\ \A t \in Schedules : Versions(t) \subseteq Versions(t)'
      /\ \A t \in Schedules : \A v \in Versions(t) : config'[t][v] = config[t][v]
      /\ \A q \in Procs, t \in Schedules : \A v \in Versions(t), late \in BOOLEAN :
           (q # p \/ t # s) /\ Explained(q, t, v, late) => Explained(q, t, v, late)'
      /\ ClaimsOK' /\ ClaimsLate' /\ OutdatedIsExplained'
  <2>1. Written(p, s, i, e) /\ UNCHANGED <<now, claims>>
    BY DEF Update
  <2> QED
    BY <2>1, WrittenFacts, OldVersions
<1>3. /\ row' \in [Schedules -> {Nothing} \cup Rows]
      /\ row'[s].version = n /\ row'[s].next = now + i /\ row'[s].job = row[s].job
      /\ \A t \in Schedules : t # s => row'[t] = row[t]
  <2>1. row' = [row EXCEPT ![s] = [row[s] EXCEPT !.version = n, !.next = now + i]]
    BY DEF Inv, Shapes, Update
  <2>2. n \in Nat /\ now + i \in Nat
    BY <1>1
  <2> HIDE DEF n
  <2>3. [row[s] EXCEPT !.version = n, !.next = now + i] \in Rows
    BY <1>1, <2>2 DEF Rows
  <2> QED
    BY <1>1, <2>1, <2>3 DEF Inv, Shapes, Rows
<1>4. /\ cache' \in [Procs -> [Schedules -> {Nothing} \cup Entries]]
      /\ cache'[p][s] = Nothing
      /\ \A q \in Procs, t \in Schedules : cache'[q][t] # Nothing => cache'[q][t] = cache[q][t]
  BY ForgetFacts DEF Inv, Update
<1>5. n \in Nat /\ n > 0 /\ n \notin Versions(s)
  BY <1>1 DEF Versions
<1> HIDE DEF n
<1>6. Shapes'
  BY <1>2, <1>3, <1>4 DEF Inv, Update, Shapes, Fills
<1>7. RowsOK'
  <2> SUFFICES ASSUME NEW t \in Schedules
               PROVE  /\ \A v \in 1..Len(config'[t]) : config'[t][v].at <= now
                      /\ row'[t] # Nothing =>
                           /\ row'[t].version = Len(config'[t]) /\ Len(config'[t]) > 0
                           /\ row'[t].job = 0 \/ (row'[t].job \in 1..Len(claims) /\ claims[row'[t].job].s = t)
                           /\ row'[t].job = 0 \/ \A k \in 1..Len(claims) : claims[k].s = t => k <= row'[t].job
    BY DEF Update, RowsOK, Versions
  <2>1. CASE t = s
    <3>1. \A v \in 1..Len(config'[s]) : v \in Versions(s) \/ v = n
      BY <1>1, <1>2 DEF Versions, n
    <3>2. \A v \in 1..Len(config'[s]) : config'[s][v].at <= now
      BY <1>1, <1>2, <3>1 DEF Inv, RowsOK
    <3> QED
      BY <1>2, <1>3, <1>5, <2>1, <3>2 DEF Inv, Update, RowsOK
  <2>2. CASE t # s
    BY <1>2, <1>3, <2>2 DEF Inv, RowsOK, Versions
  <2> QED
    BY <2>1, <2>2
<1>8. EntriesOK'
  <2>1. ASSUME NEW q \in Procs, NEW t \in Schedules, cache'[q][t] # Nothing
        PROVE  cache'[q][t].version \in Versions(t)' /\ Explained(q, t, cache[q][t].version, cache[q][t].late)'
    <3>1. cache'[q][t] = cache[q][t] /\ (q # p \/ t # s) /\ cache[q][t].late \in BOOLEAN
      BY <1>4, <2>1, Typed DEF Inv, Entries
    <3>2. cache[q][t].version \in Versions(t) /\ Explained(q, t, cache[q][t].version, cache[q][t].late)
      BY <2>1, <3>1 DEF Inv, EntriesOK
    <3> QED
      BY <1>2, <3>1, <3>2 DEF Explained
  <2>2. fill' # Nothing => fill'.version \in 1..Len(config'[fill'.s])
    BY <1>2, Typed DEF Inv, Update, EntriesOK, Fills, Versions
  <2>3. \A q \in Procs : \A h \in run[q].store : h.version \in Versions(h.s)'
    BY <1>2, Typed DEF Inv, EntriesOK, Runs, Held
  <2> QED
    BY <2>1, <2>2, <2>3 DEF Update, EntriesOK, Explained, Versions
<1>9. DueOK'
  <2> SUFFICES ASSUME NEW q \in Procs, NEW h \in run[q].due
               PROVE  /\ h.version \in Versions(h.s)'
                      /\ \/ Explained(q, h.s, h.version, h.late)'
                         \/ row'[h.s] = Nothing
                         \/ row'[h.s].next > run[q].at
    BY DEF Update, DueOK, Explained, Versions
  <2>1. h.s \in Schedules /\ h.late \in BOOLEAN /\ run[q].at \in Nat /\ run[q].at <= now
    BY Typed DEF Inv, RunsOK, Runs, Held
  <2>2. CASE h.s = s
    BY <1>1, <1>2, <1>3, <2>1, <2>2 DEF Inv, DueOK
  <2>3. CASE h.s # s
    BY <1>2, <1>3, <2>1, <2>3 DEF Inv, DueOK
  <2> QED
    BY <2>2, <2>3
<1>10. RunsOK'
  BY DEF Inv, Update, RunsOK, InHand
<1>11. HandsOK'
  <2> SUFFICES ASSUME NEW q \in Procs, InHand(q), ~run[q].expired, row'[claims[run[q].job].s] # Nothing
               PROVE  /\ row'[claims[run[q].job].s].job = run[q].job
                      /\ row'[claims[run[q].job].s].next > run[q].at + 1
    BY DEF Update, HandsOK, InHand
  <2>1. claims[run[q].job].s \in Schedules /\ run[q].at \in Nat /\ run[q].at <= now
    BY Typed DEF Inv, RunsOK, Claims, Runs
  <2>2. CASE claims[run[q].job].s = s
    <3>1. row[s].job = run[q].job
      BY <2>2 DEF Inv, Update, HandsOK
    <3> QED
      BY <1>1, <1>3, <2>1, <2>2, <3>1
  <2>3. CASE claims[run[q].job].s # s
    BY <1>3, <2>1, <2>3 DEF Inv, HandsOK
  <2> QED
    BY <2>2, <2>3
<1>12. NextOK'
  <2> SUFFICES ASSUME NEW t \in Schedules, row'[t] # Nothing
               PROVE  /\ AfterEdit(t, row[t].version, row[t].next, Len(claims))'
                      /\ AfterClaims(t, row[t].version, row[t].next, Len(claims))'
    BY DEF NextOK
  <2>1. CASE t = s
    <3>1. AfterEdit(t, row[t].version, row[t].next, Len(claims))'
      BY <1>1, <1>2, <1>3, <2>1 DEF AfterEdit
    <3>2. AfterClaims(t, row[t].version, row[t].next, Len(claims))'
      BY <1>3, <1>5, <2>1 DEF Inv, ClaimsOK, Update, AfterClaims
    <3> QED
      BY <3>1, <3>2
  <2>2. CASE t # s
    BY <1>2, <1>3, <2>2 DEF Inv, Update, NextOK, AfterEdit, AfterClaims, Wait
  <2> QED
    BY <2>1, <2>2
<1>13. LostOnlyIfCut'
  <2>1. \A j \in 1..Len(claims) : row[claims[j].s] = Nothing => row'[claims[j].s] = Nothing
    BY <1>3, Typed DEF Inv, Claims, Update
  <2> QED
    BY <2>1, LenProperties DEF Inv, Shapes, Update, LostOnlyIfCut
<1> QED
  BY <1>2, <1>6, <1>7, <1>8, <1>9, <1>10, <1>11, <1>12, <1>13 DEF Inv

\* A loop that has done with a schedule goes on without a claim in hand.
LEMMA ProceedRun ==
  ASSUME Inv, NEW p \in Procs, run[p].pc # "idle", NEW r \in Runs,
         r.due \subseteq run[p].due, r.store \subseteq run[p].store,
         r.at = run[p].at, r.expired = run[p].expired, run' = [run EXCEPT ![p] = Proceed(r)], now' = now
  PROVE  /\ run' \in [Procs -> Runs] /\ \A q \in Procs : q # p => run'[q] = run[q]
         /\ ~InHand(p)' /\ run'[p].pc \notin {"trigger", "release"} /\ run'[p].job = 0
         /\ run'[p].at <= now /\ (run'[p].pc # "idle" /\ ~run'[p].expired => now <= run'[p].at + 1)
         /\ run'[p].due \subseteq run[p].due /\ (run'[p].due # {} => run'[p].at = run[p].at)
         /\ run'[p].store \subseteq run[p].store
<1>1. /\ Proceed(r) \in Runs /\ Proceed(r).pc \in {"idle", "claim"} /\ Proceed(r).job = 0
      /\ Proceed(r).at = r.at \/ Proceed(r).at = 0
      /\ Proceed(r).pc # "idle" => Proceed(r).at = r.at /\ Proceed(r).expired = r.expired
      /\ Proceed(r).due = r.due /\ (Proceed(r).store = r.store \/ Proceed(r).store = {})
      /\ Proceed(r).due # {} => Proceed(r).at = r.at
  BY ProceedFacts
<1>2. run'[p] = Proceed(r) /\ \A q \in Procs : q # p => run'[q] = run[q]
  BY DEF Inv, Shapes
<1>3. /\ run[p].at <= now /\ now \in Nat /\ run[p].at \in Nat
      /\ ~run[p].expired => now <= run[p].at + 1
  BY Typed DEF Inv, Shapes, RunsOK, Runs
<1>4. run'[p].at <= now /\ (run'[p].pc # "idle" /\ ~run'[p].expired => now <= run'[p].at + 1)
  BY <1>1, <1>2, <1>3
<1>5. run' \in [Procs -> Runs]
  BY <1>1 DEF Inv, Shapes
<1> QED
  BY <1>1, <1>2, <1>4, <1>5 DEF InHand

\* The loop passes over a schedule that is no longer due.
LEMMA SkipInv ==
  ASSUME Inv, NEW p \in Procs, run[p].pc = "claim", NEW e \in run[p].due,
         run' = [run EXCEPT ![p] = Proceed([run[p] EXCEPT !.due = run[p].due \ {e}])],
         UNCHANGED <<now, row, cache, fill, config, claims, faults>>
  PROVE  Inv'
<1>1. RowsOK' /\ ClaimsOK' /\ NextOK' /\ ClaimsLate' /\ OutdatedIsExplained'
  BY ClaimsStay DEF Inv, RowsOK, ClaimsOK, Versions
<1> DEFINE r == [run[p] EXCEPT !.due = run[p].due \ {e}]
<1>2. run[p] \in Runs /\ run[p].job = 0
  BY Typed DEF Inv, RunsOK, InHand
<1>3. /\ r \in Runs /\ r.store = run[p].store /\ r.due \subseteq run[p].due /\ r.at = run[p].at
      /\ r.expired = run[p].expired
  BY <1>2 DEF Runs
<1>4. run' = [run EXCEPT ![p] = Proceed(r)]
  OBVIOUS
<1> HIDE DEF r
<1>5. /\ run' \in [Procs -> Runs] /\ \A q \in Procs : q # p => run'[q] = run[q]
      /\ ~InHand(p)' /\ run'[p].pc \notin {"trigger", "release"} /\ run'[p].job = 0
      /\ run'[p].at <= now /\ (run'[p].pc # "idle" /\ ~run'[p].expired => now <= run'[p].at + 1)
      /\ run'[p].due \subseteq run[p].due /\ (run'[p].due # {} => run'[p].at = run[p].at)
      /\ run'[p].store \subseteq run[p].store
  BY <1>3, <1>4, ProceedRun
<1>6. Shapes'
  BY <1>5 DEF Inv, Shapes, Fills
<1>7. EntriesOK'
  BY <1>5 DEF Inv, EntriesOK, Explained, Versions
<1>8. DueOK'
  BY <1>5 DEF Inv, DueOK, Explained, Versions
<1>9. RunsOK' /\ HandsOK'
  BY <1>5 DEF Inv, RunsOK, HandsOK, InHand
<1>10. LostOnlyIfCut'
  BY <1>2, <1>5, Typed DEF Inv, LostOnlyIfCut, Claims
<1> QED
  BY <1>1, <1>6, <1>7, <1>8, <1>9, <1>10 DEF Inv

\* A loop claims a schedule that is due.
LEMMA ClaimRowInv ==
  ASSUME Inv, NEW p \in Procs, run[p].pc = "claim", NEW e \in run[p].due, ~run[p].expired,
         Due(e.s, run[p].at), ClaimRow(p, e), UNCHANGED <<now, fill, config, faults>>
  PROVE  Inv'
<1> DEFINE s == e.s
           t == run[p].at
           i == config[s][e.version].interval
           j == Len(claims) + 1
           c == [s |-> s, by |-> p, at |-> t, interval |-> i, used |-> e.version, late |-> e.late,
                 current |-> row[s].version, fate |-> "open", released |-> 0, cut |-> FALSE]
<1>1. /\ run[p] \in Runs /\ t \in Nat /\ now \in Nat /\ t <= now /\ now <= t + 1 /\ run[p].job = 0
  BY Typed DEF Inv, Shapes, RunsOK, InHand, Runs
<1>2. s \in Schedules /\ e.version \in Nat /\ e.late \in BOOLEAN /\ e.version \in Versions(s)
  BY <1>1 DEF Inv, DueOK, Runs, Held
<1>3. i \in Intervals /\ i \in Nat /\ i > 1
  <2>1. config[s][e.version] \in Writes
    BY <1>2, Typed DEF Inv
  <2>2. i \in Intervals
    BY <2>1 DEF Writes
  <2> HIDE DEF i
  <2> QED
    BY <2>2, ScheduleAssumption
<1>4. /\ row[s] \in Rows /\ row[s].version = Len(config[s]) /\ row[s].version \in Versions(s)
      /\ row[s].version \in Nat /\ row[s].next \in Nat /\ row[s].next <= t
  <2>1. row[s] # Nothing /\ row[s].next <= t /\ row[s] \in Rows
    BY <1>2, Typed DEF Inv, Due
  <2> QED
    BY <1>2, <2>1, Typed DEF Inv, RowsOK, Rows, Versions
<1>5. Explained(p, s, e.version, e.late)
  <2>1. ~(row[s].next > t) /\ row[s] # Nothing
    BY <1>1, <1>4 DEF Due
  <2> QED
    BY <2>1 DEF Inv, DueOK
<1>6. c \in Claims /\ j \in Nat /\ Len(claims) \in Nat /\ t + i \in Nat
  <2>1. c \in Claims
    BY <1>1, <1>2, <1>3, <1>4 DEF Claims
  <2>2. Len(claims) \in Nat
    BY Typed DEF Inv
  <2>3. t + i \in Nat
    BY <1>1, <1>3
  <2> QED
    BY <2>1, <2>2, <2>3
<1>7. /\ c.s = s /\ c.by = p /\ c.at = t /\ c.interval = i /\ c.used = e.version /\ c.late = e.late
      /\ c.current = row[s].version /\ c.fate = "open" /\ c.released = 0
  OBVIOUS
<1>8. claims' = Append(claims, c)
  BY DEF ClaimRow
<1>9. /\ row' \in [Schedules -> {Nothing} \cup Rows]
      /\ row'[s] # Nothing => row'[s].version = row[s].version /\ row'[s].next = t + i /\ row'[s].job = j
      /\ \A u \in Schedules : u # s => row'[u] = row[u]
  <2>1. row' = [row EXCEPT ![s] = [row[s] EXCEPT !.next = t + i, !.job = j]]
    BY DEF Inv, Shapes, ClaimRow
  <2>2. [row[s] EXCEPT !.next = t + i, !.job = j] \in Rows
    BY <1>4, <1>6 DEF Rows
  <2> HIDE DEF j, i, t
  <2> QED
    BY <1>2, <1>4, <2>1, <2>2 DEF Inv, Shapes, Rows
<1>10. /\ cache' \in [Procs -> [Schedules -> {Nothing} \cup Entries]]
       /\ \A q \in Procs, u \in Schedules : cache'[q][u] # Nothing => cache'[q][u] = cache[q][u]
  BY <1>2, ForgetFacts DEF Inv, ClaimRow
<1>11. /\ run' \in [Procs -> Runs] /\ \A q \in Procs : q # p => run'[q] = run[q]
       /\ run'[p].pc = "trigger" /\ run'[p].job = j /\ run'[p].at = t /\ ~run'[p].expired
       /\ run'[p].due \subseteq run[p].due /\ run'[p].store = run[p].store
  <2>1. run' = [run EXCEPT ![p] = [[run[p] EXCEPT !.due = run[p].due \ {e}] EXCEPT !.pc = "trigger", !.job = j]]
    BY DEF Inv, Shapes, ClaimRow
  <2>2. [[run[p] EXCEPT !.due = run[p].due \ {e}] EXCEPT !.pc = "trigger", !.job = j] \in Runs
    BY <1>1, <1>6 DEF Runs
  <2> HIDE DEF j
  <2> QED
    BY <1>1, <2>1, <2>2 DEF Inv, Shapes, Runs
<1> HIDE DEF c
<1>12. /\ claims' \in Seq(Claims) /\ Len(claims') = j
       /\ \A k \in 1..Len(claims) : claims'[k] = claims[k]
       /\ claims'[j] = c
  BY <1>6, <1>8, AppendProperties DEF Inv, Shapes
<1>13. \A k \in 1..j : k \in 1..Len(claims) \/ k = j
  BY <1>6
<1> HIDE DEF s, t, i, j
<1>14. j \in 1..j /\ j > Len(claims) /\ j - 1 = Len(claims) /\ 1..Len(claims) \subseteq 1..j
  BY <1>6 DEF j
<1>15. \A u \in Schedules : \A v \in Nat, at \in Nat : \A k \in 0..Len(claims) :
         /\ AfterEdit(u, v, at, k)' <=> AfterEdit(u, v, at, k)
         /\ AfterClaims(u, v, at, k)' <=> AfterClaims(u, v, at, k)
  <2>1. \A k \in 0..Len(claims) : \A n \in 1..k : n \in 1..Len(claims)
    BY <1>6
  <2> QED
    BY <1>12, <2>1 DEF AfterEdit, AfterClaims, Wait
<1>16. Shapes'
  BY <1>9, <1>10, <1>11, <1>12 DEF Inv, Shapes, Fills
<1>17. RowsOK'
  BY <1>4, <1>7, <1>9, <1>12, <1>13, <1>14, <1>6 DEF Inv, RowsOK, Versions
<1>18. EntriesOK'
  BY <1>10, <1>11 DEF Inv, EntriesOK, Explained, Versions
<1>19. DueOK'
  <2> SUFFICES ASSUME NEW q \in Procs, NEW h \in run'[q].due
               PROVE  /\ h.version \in Versions(h.s)
                      /\ \/ Explained(q, h.s, h.version, h.late)
                         \/ row'[h.s] = Nothing
                         \/ row'[h.s].next > run'[q].at
    BY DEF DueOK, Explained, Versions
  <2>1. h \in run[q].due /\ h.s \in Schedules /\ run'[q].at = run[q].at /\ run[q].at \in Nat
    <3>1. run'[q].due \subseteq run[q].due /\ run'[q].at = run[q].at
      BY <1>11 DEF t
    <3>2. run[q].due \subseteq Held /\ run[q].at \in Nat
      BY Typed DEF Inv, Runs
    <3> QED
      BY <3>1, <3>2 DEF Held
  <2>2. CASE h.s = s
    <3>1. h.version \in Versions(h.s)
      BY <2>1 DEF Inv, DueOK
    <3>2. CASE Explained(q, h.s, h.version, h.late)
      BY <3>1, <3>2
    <3>3. CASE row[s] # Nothing /\ row[s].next > run[q].at
      <4>1. t + i > run[q].at
        BY <1>1, <1>3, <1>4, <2>1, <3>3
      <4> QED
        BY <1>9, <2>1, <2>2, <3>1, <4>1
    <3>4. row[s] # Nothing
      BY DEF Due, s
    <3> QED
      BY <2>1, <2>2, <3>2, <3>3, <3>4 DEF Inv, DueOK
  <2>3. CASE h.s # s
    BY <1>9, <2>1, <2>3 DEF Inv, DueOK
  <2> QED
    BY <2>2, <2>3
<1>20. RunsOK'
  BY <1>1, <1>7, <1>11, <1>12, <1>14 DEF Inv, RunsOK, InHand
<1>21. HandsOK'
  <2> SUFFICES ASSUME NEW q \in Procs, InHand(q)', ~run'[q].expired, row'[claims'[run'[q].job].s] # Nothing
               PROVE  /\ row'[claims'[run'[q].job].s].job = run'[q].job
                      /\ row'[claims'[run'[q].job].s].next > run'[q].at + 1
    BY DEF HandsOK
  <2>1. CASE q = p
    BY <1>1, <1>3, <1>7, <1>9, <1>11, <1>12, <2>1
  <2>2. CASE q # p
    <3>1. /\ InHand(q) /\ run'[q] = run[q] /\ run[q].job \in 1..Len(claims) /\ now <= run[q].at + 1
          /\ run[q].at \in Nat
      BY <1>11, <2>2, Typed DEF Inv, RunsOK, InHand, Runs
    <3>2. claims'[run[q].job] = claims[run[q].job] /\ claims[run[q].job].s \in Schedules
      BY <1>12, <3>1, Typed DEF Inv, Claims
    <3>3. claims[run[q].job].s # s
      <4> SUFFICES ASSUME claims[run[q].job].s = s PROVE FALSE
        OBVIOUS
      <4>1. row[s].next > run[q].at + 1
        BY <3>1 DEF Inv, HandsOK, Due, s
      <4> QED
        BY <1>1, <1>4, <3>1, <4>1
    <3> QED
      BY <1>9, <3>1, <3>2, <3>3 DEF Inv, HandsOK
  <2> QED
    BY <2>1, <2>2
<1>22. ClaimsOK'
  <2> SUFFICES ASSUME NEW k \in 1..j
               PROVE  /\ claims'[k].current \in Versions(claims'[k].s)
                      /\ claims'[k].used \in Versions(claims'[k].s)
                      /\ claims'[k].at <= now
                      /\ \A n \in 1..(k - 1) : claims'[n].s = claims'[k].s => claims'[n].current <= claims'[k].current
    BY <1>12 DEF ClaimsOK, Versions
  <2>1. CASE k \in 1..Len(claims)
    <3>1. \A n \in 1..(k - 1) : n \in 1..Len(claims)
      BY <1>6, <2>1
    <3> QED
      BY <1>12, <2>1, <3>1 DEF Inv, ClaimsOK
  <2>2. CASE k = j
    <3>1. \A n \in 1..(k - 1) : claims'[n] = claims[n] /\ n \in 1..Len(claims)
      BY <1>12, <1>14, <2>2
    <3>2. \A n \in 1..Len(claims) : claims[n].s = s => claims[n].current <= Len(config[s])
      BY DEF Inv, ClaimsOK, Versions
    <3> QED
      BY <1>1, <1>2, <1>4, <1>7, <1>12, <2>2, <3>1, <3>2
  <2> QED
    BY <1>13, <2>1, <2>2
<1>23. NextOK'
  <2> SUFFICES ASSUME NEW u \in Schedules, row'[u] # Nothing
               PROVE  /\ AfterEdit(u, row[u].version, row[u].next, Len(claims))'
                      /\ AfterClaims(u, row[u].version, row[u].next, Len(claims))'
    BY DEF NextOK
  <2>1. CASE u = s
    <3>1. /\ AfterEdit(s, row[s].version, row[s].next, Len(claims))
          /\ AfterClaims(s, row[s].version, row[s].next, Len(claims))
      BY <1>2 DEF Inv, NextOK, Due, s
    <3>2. config[s][row[s].version].at \in Nat /\ config[s][row[s].version].interval \in Nat
      BY <1>2, <1>4, Typed, ScheduleAssumption DEF Inv, Writes
    <3>3. AfterEdit(u, row[u].version, row[u].next, Len(claims))'
      <4>1. CASE row[s].next >= config[s][row[s].version].at + config[s][row[s].version].interval
        <5>1. t + i >= config[s][row[s].version].at + config[s][row[s].version].interval
          BY <1>1, <1>3, <1>4, <3>2, <4>1
        <5> QED
          BY <1>9, <2>1, <5>1 DEF AfterEdit
      <4>2. CASE \E n \in 1..Len(claims) : /\ claims[n].s = s /\ claims[n].current < row[s].version
                                           /\ claims[n].released = row[s].version
        BY <1>9, <1>12, <1>14, <2>1, <4>2 DEF AfterEdit
      <4> QED
        BY <3>1, <4>1, <4>2 DEF AfterEdit
    <3>4. AfterClaims(u, row[u].version, row[u].next, Len(claims))'
      <4> SUFFICES ASSUME NEW n \in 1..j, claims'[n].s = s, claims'[n].current = row[s].version
                   PROVE  t + i >= claims'[n].at + (IF claims'[n].fate # "accepted" /\ claims'[n].released = row[s].version
                                                      THEN RetryAfter ELSE claims'[n].interval)
        BY <1>9, <1>12, <2>1 DEF AfterClaims, Wait
      <4>1. CASE n \in 1..Len(claims)
        <5>1. row[s].next >= claims[n].at + Wait(n, row[s].version) /\ claims'[n] = claims[n]
          BY <1>12, <3>1, <4>1 DEF AfterClaims
        <5>2. claims[n].at \in Nat /\ Wait(n, row[s].version) \in Nat
          BY <4>1, Typed, ScheduleAssumption DEF Inv, Claims, Wait
        <5>3. t + i >= claims[n].at + Wait(n, row[s].version)
          BY <1>1, <1>3, <1>4, <5>1, <5>2
        <5> QED
          BY <5>1, <5>3 DEF Wait
      <4>2. CASE n = j
        <5>1. row[s].version # 0
          BY <1>2, <1>4, Typed DEF Inv, RowsOK, Due, s
        <5> QED
          BY <1>1, <1>3, <1>7, <1>12, <4>2, <5>1
      <4> QED
        BY <1>13, <4>1, <4>2
    <3> QED
      BY <3>3, <3>4
  <2>2. CASE u # s
    <3>1. /\ AfterEdit(u, row[u].version, row[u].next, Len(claims))
          /\ AfterClaims(u, row[u].version, row[u].next, Len(claims))
      BY <1>9, <2>2 DEF Inv, NextOK
    <3>2. AfterEdit(u, row[u].version, row[u].next, Len(claims))'
      BY <1>9, <1>12, <1>14, <2>2, <3>1 DEF AfterEdit
    <3>3. AfterClaims(u, row[u].version, row[u].next, Len(claims))'
      BY <1>7, <1>9, <1>12, <1>13, <2>2, <3>1 DEF AfterClaims, Wait
    <3> QED
      BY <3>2, <3>3
  <2> QED
    BY <2>1, <2>2
<1>24. ClaimsLate'
  <2> SUFFICES ASSUME NEW k \in 1..j
               PROVE  /\ AfterEdit(claims[k].s, claims[k].current, claims[k].at, k - 1)'
                      /\ AfterClaims(claims[k].s, claims[k].current, claims[k].at, k - 1)'
    BY <1>12 DEF ClaimsLate
  <2>1. CASE k \in 1..Len(claims)
    <3>1. \A n \in 1..(k - 1) : n \in 1..Len(claims)
      BY <1>6, <2>1
    <3>2. /\ AfterEdit(claims[k].s, claims[k].current, claims[k].at, k - 1)
          /\ AfterClaims(claims[k].s, claims[k].current, claims[k].at, k - 1)
      BY <2>1 DEF Inv, ClaimsLate
    <3> QED
      BY <1>12, <2>1, <3>1, <3>2 DEF AfterEdit, AfterClaims, Wait
  <2>2. CASE k = j
    <3>1. /\ AfterEdit(s, row[s].version, row[s].next, Len(claims))
          /\ AfterClaims(s, row[s].version, row[s].next, Len(claims))
      BY <1>2 DEF Inv, NextOK, Due, s
    <3>2. config[s][row[s].version].at \in Nat /\ config[s][row[s].version].interval \in Nat
      BY <1>2, <1>4, Typed, ScheduleAssumption DEF Inv, Writes
    <3>3. AfterEdit(s, row[s].version, t, Len(claims))
      BY <1>1, <1>4, <3>1, <3>2 DEF AfterEdit
    <3>4. AfterClaims(s, row[s].version, t, Len(claims))
      <4> SUFFICES ASSUME NEW n \in 1..Len(claims), claims[n].s = s, claims[n].current = row[s].version
                   PROVE  t >= claims[n].at + Wait(n, row[s].version)
        BY DEF AfterClaims
      <4>1. row[s].next >= claims[n].at + Wait(n, row[s].version)
        BY <3>1 DEF AfterClaims
      <4>2. claims[n].at \in Nat /\ Wait(n, row[s].version) \in Nat
        BY Typed, ScheduleAssumption DEF Inv, Claims, Wait
      <4> QED
        BY <1>1, <1>4, <4>1, <4>2
    <3>5. \A n \in 1..(k - 1) : n \in 1..Len(claims)
      BY <1>14, <2>2
    <3> QED
      BY <1>7, <1>12, <1>14, <2>2, <3>3, <3>4, <3>5 DEF AfterEdit, AfterClaims, Wait
  <2> QED
    BY <1>13, <2>1, <2>2
<1>25. OutdatedIsExplained'
  <2> SUFFICES ASSUME NEW k \in 1..j, claims'[k].used < claims'[k].current
               PROVE  config[claims'[k].s][claims'[k].used + 1].by # claims'[k].by \/ claims'[k].late
    BY <1>12, LenProperties DEF OutdatedIsExplained
  <2>1. CASE k \in 1..Len(claims)
    BY <1>12, <2>1, LenProperties DEF Inv, Shapes, OutdatedIsExplained
  <2>2. CASE k = j
    BY <1>4, <1>5, <1>7, <1>12, <2>2 DEF Explained, s
  <2> QED
    BY <1>13, <2>1, <2>2
<1>26. LostOnlyIfCut'
  <2> SUFFICES ASSUME NEW k \in 1..j
               PROVE  \/ claims'[k].fate = "accepted" \/ claims'[k].released > 0 \/ claims'[k].cut
                      \/ row'[claims'[k].s] = Nothing \/ run'[claims'[k].by].job = k
    BY <1>12, LenProperties DEF LostOnlyIfCut
  <2>1. CASE k \in 1..Len(claims)
    <3>1. /\ claims'[k] = claims[k] /\ claims[k].s \in Schedules /\ claims[k].by \in Procs
          /\ \/ claims[k].fate = "accepted" \/ claims[k].released > 0 \/ claims[k].cut
             \/ row[claims[k].s] = Nothing \/ run[claims[k].by].job = k
      BY <1>12, <2>1, SlotFacts
    <3>2. row[s] # Nothing
      BY DEF Due, s
    <3> QED
      BY <1>1, <1>9, <1>11, <2>1, <3>1, <3>2
  <2>2. CASE k = j
    BY <1>7, <1>11, <1>12, <2>2
  <2> QED
    BY <1>13, <2>1, <2>2
<1> QED
  BY <1>16, <1>17, <1>18, <1>19, <1>20, <1>21, <1>22, <1>23, <1>24, <1>25, <1>26 DEF Inv

\* The loop claims one of the schedules it holds, or passes over it.
LEMMA ClaimInv ==
  ASSUME Inv, NEW p \in Procs, Claim(p)
  PROVE  Inv'
<1>1. PICK e \in run[p].due :
        IF ~run[p].expired /\ Due(e.s, run[p].at)
          THEN ClaimRow(p, e)
          ELSE /\ run' = [run EXCEPT ![p] = Proceed([run[p] EXCEPT !.due = run[p].due \ {e}])]
               /\ UNCHANGED <<row, cache, claims>>
  BY DEF Claim
<1>2. run[p].pc = "claim" /\ UNCHANGED <<now, fill, config, faults>>
  BY DEF Claim
<1>3. CASE ~run[p].expired /\ Due(e.s, run[p].at)
  BY <1>1, <1>2, <1>3, ClaimRowInv
<1>4. CASE ~(~run[p].expired /\ Due(e.s, run[p].at))
  <2>1. run' = [run EXCEPT ![p] = Proceed([run[p] EXCEPT !.due = run[p].due \ {e}])]
    BY <1>1, <1>4
  <2>2. UNCHANGED <<now, row, cache, fill, config, claims, faults>>
    BY <1>1, <1>2, <1>4
  <2> QED
    BY <1>2, <2>1, <2>2, SkipInv
<1> QED
  BY <1>3, <1>4

\* What becomes of the claims later on: their history stays, and one that was not given
\* back may be.
Kept ==
  /\ claims' \in Seq(Claims) /\ Len(claims') = Len(claims)
  /\ \A k \in 1..Len(claims) :
       /\ claims'[k].s = claims[k].s /\ claims'[k].by = claims[k].by /\ claims'[k].at = claims[k].at
       /\ claims'[k].interval = claims[k].interval /\ claims'[k].used = claims[k].used
       /\ claims'[k].late = claims[k].late /\ claims'[k].current = claims[k].current
       /\ claims'[k].released = claims[k].released \/ claims[k].released = 0
       /\ claims[k].released > 0 => claims'[k].fate = claims[k].fate

\* There are as many claims as before.
LEMMA KeptDomain == Kept => DOMAIN claims' = 1..Len(claims)
  BY LenProperties DEF Kept

\* What was said of the times of the claims is then still true.
LEMMA KeptClaims ==
  ASSUME Inv, Kept, UNCHANGED <<now, config>>
  PROVE  /\ ClaimsOK' /\ ClaimsLate' /\ OutdatedIsExplained'
         /\ \A s \in Schedules : \A v \in Versions(s), k \in 0..Len(claims) : \A t \in Nat :
              /\ AfterEdit(s, v, t, k) => AfterEdit(s, v, t, k)'
              /\ AfterClaims(s, v, t, k) => AfterClaims(s, v, t, k)'
<1>1. \A k \in 0..Len(claims) : \A i \in 1..k : i \in 1..Len(claims)
  BY Typed DEF Inv
<1>2. ClaimsOK'
  <2> SUFFICES ASSUME NEW j \in 1..Len(claims)
               PROVE  /\ claims'[j].current \in Versions(claims'[j].s)
                      /\ claims'[j].used \in Versions(claims'[j].s)
                      /\ claims'[j].at <= now
                      /\ \A i \in 1..(j - 1) : claims'[i].s = claims'[j].s => claims'[i].current <= claims'[j].current
    BY DEF Kept, ClaimsOK, Versions
  <2>1. \A i \in 1..(j - 1) : i \in 1..Len(claims)
    BY Typed DEF Inv
  <2> QED
    BY <2>1 DEF Inv, Kept, ClaimsOK
<1>3. ASSUME NEW s \in Schedules, NEW v \in Versions(s), NEW k \in 0..Len(claims), NEW t \in Nat,
             AfterEdit(s, v, t, k)
      PROVE  AfterEdit(s, v, t, k)'
  <2>1. CASE t >= config[s][v].at + config[s][v].interval
    BY <2>1 DEF AfterEdit
  <2>2. CASE \E i \in 1..k : claims[i].s = s /\ claims[i].current < v /\ claims[i].released = v
    <3>1. v # 0
      BY Typed DEF Inv, Versions
    <3> QED
      BY <1>1, <2>2, <3>1 DEF Kept, AfterEdit
  <2> QED
    BY <1>3, <2>1, <2>2 DEF AfterEdit
<1>4. ASSUME NEW s \in Schedules, NEW v \in Versions(s), NEW k \in 0..Len(claims), NEW t \in Nat,
             AfterClaims(s, v, t, k)
      PROVE  AfterClaims(s, v, t, k)'
  <2> SUFFICES ASSUME NEW i \in 1..k, claims[i].s = s, claims[i].current = v
               PROVE  t >= claims[i].at + Wait(i, v)'
    BY <1>1 DEF Kept, AfterClaims
  <2>1. i \in 1..Len(claims) /\ t >= claims[i].at + Wait(i, v)
    BY <1>1, <1>4 DEF AfterClaims
  <2>2. claims[i] \in Claims /\ Len(config[s]) \in Nat
    BY <2>1, Typed DEF Inv
  <2>3. /\ v \in Nat /\ v > 0 /\ claims[i].released \in Nat /\ claims[i].at \in Nat
        /\ claims[i].interval \in Nat /\ RetryAfter \in Nat /\ RetryAfter < claims[i].interval
    <3>1. claims[i].interval \in Intervals /\ claims[i].released \in Nat /\ claims[i].at \in Nat
      BY <2>2 DEF Claims
    <3>2. v \in Nat /\ v > 0
      BY <2>2 DEF Versions
    <3> QED
      BY <3>1, <3>2, ScheduleAssumption
  <2>4. claims'[i].at = claims[i].at /\ claims'[i].interval = claims[i].interval
    BY <2>1 DEF Kept
  <2>5. CASE claims[i].released = v
    <3>1. claims'[i].released = claims[i].released /\ claims'[i].fate = claims[i].fate
      BY <2>1, <2>3, <2>5 DEF Kept
    <3> QED
      BY <2>1, <2>4, <3>1 DEF Wait
  <2>6. CASE claims[i].released # v
    <3>1. Wait(i, v) = claims[i].interval
      BY <2>6 DEF Wait
    <3>2. Wait(i, v)' = RetryAfter \/ Wait(i, v)' = claims[i].interval
      BY <2>4 DEF Wait
    <3> QED
      BY <2>1, <2>3, <2>4, <3>1, <3>2
  <2> QED
    BY <2>5, <2>6
<1>5. ClaimsLate'
  <2> SUFFICES ASSUME NEW j \in 1..Len(claims)
               PROVE  /\ AfterEdit(claims[j].s, claims[j].current, claims[j].at, j - 1)'
                      /\ AfterClaims(claims[j].s, claims[j].current, claims[j].at, j - 1)'
    BY DEF Kept, ClaimsLate
  <2>1. /\ claims[j].s \in Schedules /\ claims[j].current \in Versions(claims[j].s)
        /\ claims[j].at \in Nat /\ j - 1 \in 0..Len(claims)
    BY Typed DEF Inv, ClaimsOK, Claims
  <2>2. /\ AfterEdit(claims[j].s, claims[j].current, claims[j].at, j - 1)
        /\ AfterClaims(claims[j].s, claims[j].current, claims[j].at, j - 1)
    BY DEF Inv, ClaimsLate
  <2>3. /\ claims'[j].s = claims[j].s /\ claims'[j].current = claims[j].current
        /\ claims'[j].at = claims[j].at
    BY DEF Kept
  <2>4. PICK s \in Schedules, v \in Nat, t \in Nat :
          s = claims[j].s /\ v = claims[j].current /\ t = claims[j].at
    BY <2>1 DEF Versions
  <2>5. AfterEdit(s, v, t, j - 1)' /\ AfterClaims(s, v, t, j - 1)'
    BY <1>3, <1>4, <2>1, <2>2, <2>4
  <2> QED
    BY <2>3, <2>4, <2>5 DEF AfterEdit, AfterClaims
<1>6. OutdatedIsExplained'
  <2>1. DOMAIN claims' = 1..Len(claims) /\ DOMAIN claims = 1..Len(claims)
    BY LenProperties DEF Inv, Shapes, Kept
  <2> QED
    BY <2>1 DEF Inv, Kept, OutdatedIsExplained
<1> QED
  BY <1>2, <1>3, <1>4, <1>5, <1>6

\* Where the rows stay as well, so does what is said of when they are next due.
LEMMA KeptNext ==
  ASSUME Inv, Kept, UNCHANGED <<now, config, row>>
  PROVE  RowsOK' /\ NextOK'
<1>1. RowsOK'
  BY DEF Inv, Kept, RowsOK, Versions
<1>2. NextOK'
  <2> SUFFICES ASSUME NEW s \in Schedules, row[s] # Nothing
               PROVE  /\ AfterEdit(s, row[s].version, row[s].next, Len(claims))'
                      /\ AfterClaims(s, row[s].version, row[s].next, Len(claims))'
    BY DEF NextOK
  <2>1. PICK v \in Versions(s), t \in Nat : v = row[s].version /\ t = row[s].next
    BY Typed DEF Inv, RowsOK, Rows, Versions
  <2>2. AfterEdit(s, v, t, Len(claims)) /\ AfterClaims(s, v, t, Len(claims))
    BY <2>1 DEF Inv, NextOK
  <2>3. PICK k \in 0..Len(claims) : k = Len(claims)
    BY Typed DEF Inv
  <2>4. AfterEdit(s, v, t, k)' /\ AfterClaims(s, v, t, k)'
    BY <2>2, <2>3, KeptClaims
  <2> QED
    BY <2>1, <2>3, <2>4 DEF Kept, AfterEdit, AfterClaims
<1> QED
  BY <1>1, <1>2

\* The claim in hand is one there is, of a schedule there is.
LEMMA HandFacts ==
  ASSUME Inv, NEW p \in Procs, InHand(p)
  PROVE  /\ run[p].job \in 1..Len(claims) /\ run[p].job # 0 /\ claims[run[p].job] \in Claims
         /\ claims[run[p].job].s \in Schedules /\ claims[run[p].job].by = p
         /\ claims[run[p].job].released = 0 /\ claims[run[p].job].at = run[p].at
         /\ \A q \in Procs : q # p => run[q].job # run[p].job
<1>1. /\ run[p].job \in 1..Len(claims) /\ claims[run[p].job].by = p /\ claims[run[p].job].released = 0
      /\ claims[run[p].job].at = run[p].at
  BY DEF Inv, RunsOK
<1>2. run[p].job # 0 /\ claims[run[p].job] \in Claims
  BY <1>1, Typed DEF Inv
<1>3. \A q \in Procs : q # p => run[q].job # run[p].job
  BY <1>1, <1>2 DEF Inv, RunsOK
<1> QED
  BY <1>1, <1>2, <1>3 DEF Claims

\* The fate of the claim in hand is settled, or it is cut: the other claims stay.
LEMMA Settle ==
  ASSUME Inv, NEW p \in Procs, InHand(p), NEW c \in Claims, claims' = [claims EXCEPT ![run[p].job] = c],
         c.s = claims[run[p].job].s, c.by = p, c.at = claims[run[p].job].at,
         c.interval = claims[run[p].job].interval, c.used = claims[run[p].job].used,
         c.late = claims[run[p].job].late, c.current = claims[run[p].job].current
  PROVE  /\ Kept
         /\ claims'[run[p].job] = c
         /\ \A k \in 1..Len(claims) : k # run[p].job => claims'[k] = claims[k]
<1> DEFINE j == run[p].job
<1>1. j \in 1..Len(claims) /\ claims \in Seq(Claims) /\ claims[j].by = p /\ claims[j].released = 0
  BY HandFacts DEF Inv, Shapes
<1> HIDE DEF j
<1>2. /\ [claims EXCEPT ![j] = c] \in Seq(Claims) /\ Len([claims EXCEPT ![j] = c]) = Len(claims)
      /\ \A k \in 1..Len(claims) : [claims EXCEPT ![j] = c][k] = IF k = j THEN c ELSE claims[k]
  BY <1>1, ExceptSeq
<1>3. claims' = [claims EXCEPT ![j] = c]
  BY DEF j
<1>4. /\ claims' \in Seq(Claims) /\ Len(claims') = Len(claims) /\ claims'[j] = c
      /\ \A k \in 1..Len(claims) : k # j => claims'[k] = claims[k]
  BY <1>1, <1>2, <1>3
<1>5. Kept
  BY <1>1, <1>4 DEF Kept, j
<1> QED
  BY <1>4, <1>5 DEF j

\* The loops of the other processes, and what they have in hand, are as before.
LEMMA OthersInHand ==
  ASSUME Inv, NEW p \in Procs, InHand(p), Kept, NEW q \in Procs, q # p, run'[q] = run[q], now' = now,
         \A k \in 1..Len(claims) : k # run[p].job => claims'[k] = claims[k]
  PROVE  /\ run'[q].at <= now'
         /\ run'[q].pc # "idle" /\ ~run'[q].expired => now' <= run'[q].at + 1
         /\ ~InHand(q)' => run'[q].job = 0
         /\ InHand(q)' =>
              /\ run'[q].job \in 1..Len(claims')
              /\ claims'[run'[q].job].by = q
              /\ claims'[run'[q].job].at = run'[q].at
              /\ claims'[run'[q].job].released = 0
         /\ run'[q].pc = "trigger" => claims'[run'[q].job].fate = "open"
         /\ run'[q].pc = "release" => claims'[run'[q].job].fate \in {"refused", "unread"}
         /\ InHand(q) => claims'[run[q].job] = claims[run[q].job] /\ claims[run[q].job].s \in Schedules
<1>1. run[q].job # run[p].job
  BY HandFacts
<1>2. InHand(q) => claims'[run[q].job] = claims[run[q].job] /\ claims[run[q].job].s \in Schedules
  BY <1>1, HandFacts DEF Inv, RunsOK
<1> QED
  BY <1>2 DEF Inv, RunsOK, InHand, Kept

\* A loop that has done with its claim leaves the other loops what they have in hand.
LEMMA OutOfHand ==
  ASSUME Inv, NEW p \in Procs, InHand(p), Kept, now' = now,
         \A k \in 1..Len(claims) : k # run[p].job => claims'[k] = claims[k],
         \A q \in Procs : q # p => run'[q] = run[q],
         run'[p].pc \notin {"trigger", "release"}, run'[p].job = 0, run'[p].at <= now,
         run'[p].pc # "idle" /\ ~run'[p].expired => now <= run'[p].at + 1
  PROVE  RunsOK' /\ (row' = row => HandsOK')
<1>1. RunsOK'
  <2> SUFFICES ASSUME NEW q \in Procs
               PROVE  /\ run'[q].at <= now'
                      /\ run'[q].pc # "idle" /\ ~run'[q].expired => now' <= run'[q].at + 1
                      /\ ~InHand(q)' => run'[q].job = 0
                      /\ InHand(q)' =>
                           /\ run'[q].job \in 1..Len(claims')
                           /\ claims'[run'[q].job].by = q
                           /\ claims'[run'[q].job].at = run'[q].at
                           /\ claims'[run'[q].job].released = 0
                      /\ run'[q].pc = "trigger" => claims'[run'[q].job].fate = "open"
                      /\ run'[q].pc = "release" => claims'[run'[q].job].fate \in {"refused", "unread"}
    BY DEF RunsOK
  <2>1. CASE q = p
    BY <2>1 DEF InHand
  <2>2. CASE q # p
    BY <2>2, OthersInHand
  <2> QED
    BY <2>1, <2>2
<1>2. ASSUME row' = row PROVE HandsOK'
  <2>1. ASSUME NEW q \in Procs, q # p, InHand(q)
        PROVE  claims'[run[q].job] = claims[run[q].job] /\ run'[q] = run[q]
    BY <2>1, OthersInHand
  <2> QED
    BY <1>2, <2>1 DEF Inv, HandsOK, InHand
<1> QED
  BY <1>1, <1>2

\* The queue accepts the job: the loop has done with it.
LEMMA AcceptedInv ==
  ASSUME Inv, NEW p \in Procs, run[p].pc = "trigger",
         claims' = [claims EXCEPT ![run[p].job].fate = "accepted"],
         run' = [run EXCEPT ![p] = Proceed(@)], UNCHANGED <<now, row, cache, fill, config, faults>>
  PROVE  Inv'
<1> DEFINE j == run[p].job
           c == [claims[j] EXCEPT !.fate = "accepted"]
<1>1. InHand(p)
  BY DEF InHand
<1>2. j \in 1..Len(claims) /\ claims[j] \in Claims /\ claims[j].fate = "open" /\ claims[j].by = p
  BY <1>1, HandFacts DEF Inv, RunsOK
<1>3. /\ c \in Claims /\ c.s = claims[j].s /\ c.by = p /\ c.at = claims[j].at
      /\ c.interval = claims[j].interval /\ c.used = claims[j].used /\ c.late = claims[j].late
      /\ c.current = claims[j].current /\ c.fate = "accepted"
  BY <1>2 DEF Claims
<1>4. claims' = [claims EXCEPT ![j] = c]
  OBVIOUS
<1> HIDE DEF c
<1>5. Kept /\ claims'[j] = c /\ \A k \in 1..Len(claims) : k # j => claims'[k] = claims[k]
  BY <1>1, <1>2, <1>3, <1>4, Settle
<1>6. /\ run' \in [Procs -> Runs] /\ \A q \in Procs : q # p => run'[q] = run[q]
      /\ ~InHand(p)' /\ run'[p].pc \notin {"trigger", "release"} /\ run'[p].job = 0
      /\ run'[p].at <= now /\ (run'[p].pc # "idle" /\ ~run'[p].expired => now <= run'[p].at + 1)
      /\ run'[p].due \subseteq run[p].due /\ (run'[p].due # {} => run'[p].at = run[p].at)
      /\ run'[p].store \subseteq run[p].store
  <2>1. run[p] \in Runs /\ run' = [run EXCEPT ![p] = Proceed(run[p])] /\ run[p].pc # "idle"
    BY Typed DEF Inv
  <2> QED
    BY <2>1, ProceedRun
<1>7. Shapes'
  BY <1>5, <1>6 DEF Inv, Shapes, Fills, Kept
<1>8. RowsOK' /\ NextOK' /\ ClaimsOK' /\ ClaimsLate' /\ OutdatedIsExplained'
  BY <1>5, KeptClaims, KeptNext
<1>9. EntriesOK'
  BY <1>6 DEF Inv, EntriesOK, Explained, Versions
<1>10. DueOK'
  BY <1>6 DEF Inv, DueOK, Explained, Versions
<1>11. RunsOK' /\ HandsOK'
  BY <1>1, <1>5, <1>6, OutOfHand
<1>13. LostOnlyIfCut'
  <2> SUFFICES ASSUME NEW k \in 1..Len(claims)
               PROVE  \/ claims'[k].fate = "accepted" \/ claims'[k].released > 0 \/ claims'[k].cut
                      \/ row[claims'[k].s] = Nothing \/ run'[claims'[k].by].job = k
    BY <1>5, KeptDomain DEF LostOnlyIfCut
  <2>1. CASE k = j
    BY <1>3, <1>5, <2>1
  <2>2. CASE k # j
    <3>1. /\ claims'[k] = claims[k] /\ claims[k].by \in Procs
          /\ \/ claims[k].fate = "accepted" \/ claims[k].released > 0 \/ claims[k].cut
             \/ row[claims[k].s] = Nothing \/ run[claims[k].by].job = k
      BY <1>5, <2>2, SlotFacts
    <3> QED
      BY <1>6, <2>2, <3>1
  <2> QED
    BY <2>1, <2>2
<1> QED
  BY <1>7, <1>8, <1>9, <1>10, <1>11, <1>13 DEF Inv

\* The queue refuses the job, or it cannot be read back.
LEMMA RefusedInv ==
  ASSUME Inv, NEW p \in Procs, run[p].pc = "trigger", NEW fate \in {"refused", "unread"},
         claims' = [claims EXCEPT ![run[p].job].fate = fate],
         run' = [run EXCEPT ![p].pc = "release"], faults' \in 0..MaxFaults,
         UNCHANGED <<now, row, cache, fill, config>>
  PROVE  Inv'
<1> DEFINE j == run[p].job
           c == [claims[j] EXCEPT !.fate = fate]
<1>1. InHand(p)
  BY DEF InHand
<1>2. /\ j \in 1..Len(claims) /\ claims[j] \in Claims /\ claims[j].by = p /\ claims[j].released = 0
      /\ claims[j].at = run[p].at
  BY <1>1, HandFacts
<1>3. /\ c \in Claims /\ c.s = claims[j].s /\ c.by = p /\ c.at = claims[j].at
      /\ c.interval = claims[j].interval /\ c.used = claims[j].used /\ c.late = claims[j].late
      /\ c.current = claims[j].current /\ c.fate = fate /\ c.released = 0
      /\ c.fate \in {"refused", "unread"}
  BY <1>2 DEF Claims
<1>4. claims' = [claims EXCEPT ![j] = c]
  OBVIOUS
<1> HIDE DEF c
<1>5. Kept /\ claims'[j] = c /\ \A k \in 1..Len(claims) : k # j => claims'[k] = claims[k]
  BY <1>1, <1>2, <1>3, <1>4, Settle
<1>6. /\ run' \in [Procs -> Runs] /\ \A q \in Procs : q # p => run'[q] = run[q]
      /\ run'[p].pc = "release" /\ run'[p].at = run[p].at /\ run'[p].job = j
      /\ run'[p].expired = run[p].expired /\ run'[p].due = run[p].due /\ run'[p].store = run[p].store
  <2>1. run[p] \in Runs /\ run' = [run EXCEPT ![p] = [run[p] EXCEPT !.pc = "release"]]
    BY Typed DEF Inv
  <2> DEFINE r == [run[p] EXCEPT !.pc = "release"]
  <2>2. /\ r \in Runs /\ r.pc = "release" /\ r.at = run[p].at /\ r.job = run[p].job
        /\ r.expired = run[p].expired /\ r.due = run[p].due /\ r.store = run[p].store
    BY <2>1 DEF Runs
  <2>3. run' = [run EXCEPT ![p] = r]
    BY <2>1
  <2> HIDE DEF r
  <2>4. run' \in [Procs -> Runs] /\ run'[p] = r /\ \A q \in Procs : q # p => run'[q] = run[q]
    BY <2>2, <2>3 DEF Inv, Shapes
  <2> QED
    BY <2>2, <2>4
<1>7. Shapes'
  BY <1>5, <1>6 DEF Inv, Shapes, Fills, Kept
<1>8. RowsOK' /\ NextOK' /\ ClaimsOK' /\ ClaimsLate' /\ OutdatedIsExplained'
  BY <1>5, KeptClaims, KeptNext
<1>9. EntriesOK'
  BY <1>6 DEF Inv, EntriesOK, Explained, Versions
<1>10. DueOK'
  BY <1>6 DEF Inv, DueOK, Explained, Versions
<1>11. RunsOK'
  <2>1. ASSUME NEW q \in Procs
        PROVE  /\ run'[q].at <= now'
               /\ run'[q].pc # "idle" /\ ~run'[q].expired => now' <= run'[q].at + 1
               /\ ~InHand(q)' => run'[q].job = 0
               /\ InHand(q)' =>
                    /\ run'[q].job \in 1..Len(claims')
                    /\ claims'[run'[q].job].by = q
                    /\ claims'[run'[q].job].at = run'[q].at
                    /\ claims'[run'[q].job].released = 0
               /\ run'[q].pc = "trigger" => claims'[run'[q].job].fate = "open"
               /\ run'[q].pc = "release" => claims'[run'[q].job].fate \in {"refused", "unread"}
    <3>1. CASE q = p
      <4>1. run[p].at <= now /\ (~run[p].expired => now <= run[p].at + 1)
        BY DEF Inv, RunsOK
      <4>2. InHand(p)'
        BY <1>6 DEF InHand
      <4> QED
        BY <1>2, <1>3, <1>5, <1>6, <3>1, <4>1, <4>2 DEF Kept
    <3>2. CASE q # p
      BY <1>1, <1>5, <1>6, <3>2, OthersInHand
    <3> QED
      BY <3>1, <3>2
  <2> QED
    BY <2>1 DEF RunsOK
<1>12. HandsOK'
  <2>1. ASSUME NEW q \in Procs, q # p, InHand(q)
        PROVE  claims'[run[q].job] = claims[run[q].job] /\ run'[q] = run[q]
    BY <1>1, <1>5, <1>6, <2>1, OthersInHand
  <2> QED
    BY <1>1, <1>3, <1>5, <1>6, <2>1 DEF Inv, HandsOK, InHand
<1>13. LostOnlyIfCut'
  <2> SUFFICES ASSUME NEW k \in 1..Len(claims)
               PROVE  \/ claims'[k].fate = "accepted" \/ claims'[k].released > 0 \/ claims'[k].cut
                      \/ row[claims'[k].s] = Nothing \/ run'[claims'[k].by].job = k
    BY <1>5, KeptDomain DEF LostOnlyIfCut
  <2>1. CASE k = j
    BY <1>3, <1>5, <1>6, <2>1
  <2>2. CASE k # j
    <3>1. /\ claims'[k] = claims[k] /\ claims[k].by \in Procs
          /\ \/ claims[k].fate = "accepted" \/ claims[k].released > 0 \/ claims[k].cut
             \/ row[claims[k].s] = Nothing \/ run[claims[k].by].job = k
      BY <1>5, <2>2, SlotFacts
    <3> QED
      BY <1>6, <2>2, <3>1
  <2> QED
    BY <2>1, <2>2
<1> QED
  BY <1>7, <1>8, <1>9, <1>10, <1>11, <1>12, <1>13 DEF Inv

\* The loop enqueues the job of its claim.
LEMMA TriggerInv ==
  ASSUME Inv, NEW p \in Procs, Trigger(p)
  PROVE  Inv'
<1>1. CASE /\ claims' = [claims EXCEPT ![run[p].job].fate = "accepted"]
           /\ run' = [run EXCEPT ![p] = Proceed(@)] /\ UNCHANGED faults
  BY <1>1, AcceptedInv DEF Trigger
<1>2. CASE /\ run[p].expired \/ faults < MaxFaults
           /\ \E fate \in {"refused", "unread"} : claims' = [claims EXCEPT ![run[p].job].fate = fate]
           /\ run' = [run EXCEPT ![p].pc = "release"]
           /\ faults' = IF run[p].expired THEN faults ELSE faults + 1
  <2>1. faults' \in 0..MaxFaults
    BY <1>2, ScheduleAssumption DEF Inv, Shapes
  <2> QED
    BY <1>2, <2>1, RefusedInv DEF Trigger
<1> QED
  BY <1>1, <1>2 DEF Trigger

\* The row still carries the job of the claim that p has in hand.
Carried(p) == row[claims[run[p].job].s] # Nothing /\ row[claims[run[p].job].s].job = run[p].job

\* The loop gives its claim back: the row still carries it, and is due again after a while.
LEMMA GivenBackInv ==
  ASSUME Inv, NEW p \in Procs, run[p].pc = "release", Carried(p), GiveBack(p),
         run' = [run EXCEPT ![p] = Proceed(@)], UNCHANGED <<now, fill, config, faults>>
  PROVE  Inv'
<1>0. InHand(p) /\ run[p].pc = "release" /\ UNCHANGED <<now, fill, config, faults>>
  BY DEF InHand
<1>20. PICK j \in 1..Len(claims), s \in Schedules : j = run[p].job /\ s = claims[j].s
  BY <1>0, HandFacts
<1>1. InHand(p) /\ run[p].pc = "release" /\ row[s] # Nothing /\ row[s].job = j
  BY <1>0, <1>20 DEF Carried
<1> DEFINE c == [claims[j] EXCEPT !.released = row[s].version]
<1>2. /\ j \in 1..Len(claims) /\ j # 0 /\ claims[j] \in Claims /\ claims[j].by = p
      /\ claims[j].s = s /\ claims[j].released = 0 /\ claims[j].fate \in {"refused", "unread"}
      /\ \A q \in Procs : q # p => run[q].job # j
  BY <1>1, <1>20, HandFacts DEF Inv, RunsOK
<1>3. /\ row[s] \in Rows /\ row[s].version = Len(config[s]) /\ row[s].version \in Nat
      /\ row[s].version > 0 /\ row[s].job = j
      /\ \A k \in 1..Len(claims) : claims[k].s = s => k <= j
  BY <1>1, <1>2, Typed DEF Inv, RowsOK, Rows
<1>4. /\ c \in Claims /\ c.s = s /\ c.by = p /\ c.at = claims[j].at
      /\ c.interval = claims[j].interval /\ c.used = claims[j].used /\ c.late = claims[j].late
      /\ c.current = claims[j].current /\ c.fate = claims[j].fate /\ c.released = row[s].version
  BY <1>2, <1>3 DEF Claims
<1>5. claims' = [claims EXCEPT ![j] = c]
  BY <1>20 DEF GiveBack, Carried
<1> HIDE DEF c
<1>6. Kept /\ claims'[j] = c /\ \A k \in 1..Len(claims) : k # j => claims'[k] = claims[k]
  <2>1. /\ c \in Claims /\ c.s = claims[run[p].job].s /\ c.by = p /\ c.at = claims[run[p].job].at
        /\ c.interval = claims[run[p].job].interval /\ c.used = claims[run[p].job].used
        /\ c.late = claims[run[p].job].late /\ c.current = claims[run[p].job].current
        /\ c.fate = claims[run[p].job].fate
    BY <1>2, <1>4, <1>20
  <2>2. claims' = [claims EXCEPT ![run[p].job] = c]
    BY <1>5, <1>20
  <2>3. /\ Kept /\ claims'[run[p].job] = c
        /\ \A k \in 1..Len(claims) : k # run[p].job => claims'[k] = claims[k]
    BY <1>1, <2>1, <2>2, Settle
  <2> QED
    BY <1>20, <2>3
<1>7. /\ row' \in [Schedules -> {Nothing} \cup Rows]
      /\ row'[s] # Nothing => row'[s].version = row[s].version /\ row'[s].next = now + RetryAfter
                              /\ row'[s].job = 0
      /\ \A u \in Schedules : u # s => row'[u] = row[u]
  <2>1. now + RetryAfter \in Nat
    BY ScheduleAssumption DEF Inv, Shapes
  <2>2. row' = [row EXCEPT ![s] = [row[s] EXCEPT !.next = now + RetryAfter, !.job = 0]]
    BY <1>20 DEF Inv, Shapes, GiveBack, Carried
  <2>3. [row[s] EXCEPT !.next = now + RetryAfter, !.job = 0] \in Rows
    BY <1>3, <2>1 DEF Rows
  <2> QED
    BY <1>2, <1>3, <2>2, <2>3 DEF Inv, Shapes, Rows
<1>8. /\ cache' \in [Procs -> [Schedules -> {Nothing} \cup Entries]]
      /\ \A q \in Procs, u \in Schedules : cache'[q][u] # Nothing => cache'[q][u] = cache[q][u]
  BY <1>20, ForgetFacts DEF Inv, GiveBack, Carried
<1>9. /\ run' \in [Procs -> Runs] /\ \A q \in Procs : q # p => run'[q] = run[q]
      /\ ~InHand(p)' /\ run'[p].pc \notin {"trigger", "release"} /\ run'[p].job = 0
      /\ run'[p].at <= now /\ (run'[p].pc # "idle" /\ ~run'[p].expired => now <= run'[p].at + 1)
      /\ run'[p].due \subseteq run[p].due /\ (run'[p].due # {} => run'[p].at = run[p].at)
      /\ run'[p].store \subseteq run[p].store
  <2>1. run[p] \in Runs /\ run' = [run EXCEPT ![p] = Proceed(run[p])] /\ run[p].pc # "idle"
    BY <1>1, Typed DEF Inv
  <2> QED
    BY <1>0, <2>1, ProceedRun
<1>10. now \in Nat /\ RetryAfter \in Nat /\ RetryAfter > 0 /\ now + RetryAfter \in Nat
  BY ScheduleAssumption DEF Inv, Shapes
<1>11. Shapes'
  BY <1>0, <1>6, <1>7, <1>8, <1>9 DEF Inv, Shapes, Fills, Kept
<1>12. RowsOK'
  <2> SUFFICES ASSUME NEW u \in Schedules
               PROVE  /\ \A v \in Versions(u) : config[u][v].at <= now
                      /\ row'[u] # Nothing =>
                           /\ row'[u].version = Len(config[u]) /\ Len(config[u]) > 0
                           /\ row'[u].job = 0 \/ (row'[u].job \in 1..Len(claims) /\ claims[row'[u].job].s = u)
                           /\ row'[u].job = 0 \/ \A k \in 1..Len(claims) : claims[k].s = u => k <= row'[u].job
    BY <1>0, <1>6 DEF Kept, RowsOK, Versions
  <2>1. CASE u = s
    BY <1>1, <1>7, <2>1 DEF Inv, RowsOK
  <2>2. CASE u # s
    BY <1>7, <2>2 DEF Inv, RowsOK
  <2> QED
    BY <2>1, <2>2
<1>13. EntriesOK'
  BY <1>0, <1>8, <1>9 DEF Inv, EntriesOK, Explained, Versions
<1>14. DueOK'
  <2> SUFFICES ASSUME NEW q \in Procs, NEW h \in run'[q].due
               PROVE  /\ h.version \in Versions(h.s)
                      /\ \/ Explained(q, h.s, h.version, h.late)
                         \/ row'[h.s] = Nothing
                         \/ row'[h.s].next > run'[q].at
    BY <1>0 DEF DueOK, Explained, Versions
  <2>1. h \in run[q].due /\ run'[q].at = run[q].at
    BY <1>9
  <2>2. h.s \in Schedules /\ run[q].at \in Nat /\ run[q].at <= now
    BY <2>1, Typed DEF Inv, Runs, Held, RunsOK
  <2>3. h.version \in Versions(h.s)
    BY <2>1 DEF Inv, DueOK
  <2>4. CASE h.s = s
    <3>1. now + RetryAfter > run[q].at
      BY <1>10, <2>2
    <3> QED
      BY <1>7, <2>1, <2>3, <2>4, <3>1
  <2>5. CASE h.s # s
    BY <1>7, <2>1, <2>2, <2>5 DEF Inv, DueOK
  <2> QED
    BY <2>4, <2>5
<1>15. RunsOK'
  BY <1>0, <1>1, <1>6, <1>9, <1>20, OutOfHand
<1>16. HandsOK'
  <2> SUFFICES ASSUME NEW q \in Procs, InHand(q)', ~run'[q].expired, row'[claims'[run'[q].job].s] # Nothing
               PROVE  /\ row'[claims'[run'[q].job].s].job = run'[q].job
                      /\ row'[claims'[run'[q].job].s].next > run'[q].at + 1
    BY DEF HandsOK
  <2>1. q # p /\ run'[q] = run[q] /\ InHand(q)
    BY <1>9 DEF InHand
  <2>2. claims'[run[q].job] = claims[run[q].job] /\ claims[run[q].job].s \in Schedules
    BY <1>0, <1>1, <1>6, <2>1, <1>20, OthersInHand
  <2>3. claims[run[q].job].s # s
    BY <1>1, <1>2, <1>3, <2>1 DEF Inv, HandsOK
  <2> QED
    BY <1>7, <2>1, <2>2, <2>3 DEF Inv, HandsOK
<1>17. ClaimsOK' /\ ClaimsLate' /\ OutdatedIsExplained'
  BY <1>0, <1>6, KeptClaims
<1>18. NextOK'
  <2> SUFFICES ASSUME NEW u \in Schedules, row'[u] # Nothing
               PROVE  /\ AfterEdit(u, row[u].version, row[u].next, Len(claims))'
                      /\ AfterClaims(u, row[u].version, row[u].next, Len(claims))'
    BY DEF NextOK
  <2>1. CASE u = s
    <3>0. PICK v, t, b : v = row[s].version /\ t = now + RetryAfter /\ b = claims[j].current
      OBVIOUS
    <3>1. /\ b \in Nat /\ b <= v /\ claims[j].at \in Nat /\ claims[j].at <= now /\ v \in Versions(s)
          /\ b \in Versions(s)
      BY <3>0, <1>2, <1>3, Typed DEF Inv, ClaimsOK, Claims, Versions
    <3>2. /\ AfterEdit(s, b, claims[j].at, j - 1)
          /\ AfterClaims(s, b, claims[j].at, j - 1)
      BY <3>0, <1>2 DEF Inv, ClaimsLate
    <3>3. /\ row'[u].version = v /\ row'[u].next = t /\ t \in Nat /\ t >= claims[j].at
          /\ 1..(j - 1) \subseteq 1..Len(claims)
      BY <3>0, <1>2, <1>7, <1>10, <2>1, <3>1
    <3>4. AfterEdit(s, v, t, Len(claims))'
      <4>1. CASE b < v
        <5>1. claims'[j].s = s /\ claims'[j].current < v /\ claims'[j].released = v
          BY <3>0, <1>4, <1>6, <4>1
        <5>2. j \in 1..Len(claims')
          BY <3>0, <1>2, <1>6 DEF Kept
        <5> QED
          BY <3>0, <1>2, <5>1, <5>2 DEF AfterEdit
      <4>2. CASE b = v
        <5>1. config[s][v] \in Writes
          BY <3>0, <1>2, <3>1, Typed DEF Inv
        <5>2. config[s][v].at \in Nat /\ config[s][v].interval \in Nat
          BY <3>0, <5>1, ScheduleAssumption DEF Writes
        <5>3. AfterEdit(s, v, t, Len(claims))
          <6>1. CASE claims[j].at >= config[s][v].at + config[s][v].interval
            BY <3>1, <3>3, <5>2, <6>1 DEF AfterEdit
          <6>2. CASE \E n \in 1..(j - 1) : /\ claims[n].s = s /\ claims[n].current < v
                                           /\ claims[n].released = v
            BY <3>3, <6>2 DEF AfterEdit
          <6> QED
            BY <3>2, <4>2, <6>1, <6>2 DEF AfterEdit
        <5>4. PICK k \in 0..Len(claims) : k = Len(claims)
          BY Typed DEF Inv
        <5>5. AfterEdit(s, v, t, k)'
          BY <3>0, <1>2, <1>6, <3>1, <3>3, <5>3, <5>4, <1>0, KeptClaims
        <5> QED
          BY <3>0, <1>0, <1>6, <5>4, <5>5 DEF AfterEdit, Kept
      <4> QED
        BY <3>0, <3>1, <4>1, <4>2, <1>3
    <3>5. AfterClaims(s, v, t, Len(claims))'
      <4> SUFFICES ASSUME NEW n \in 1..Len(claims), claims'[n].s = s, claims'[n].current = v
                   PROVE  t >= claims'[n].at + Wait(n, v)'
        BY <3>0, <1>6 DEF AfterClaims, Kept
      <4>1. CASE n = j
        <5>1. claims'[n].fate # "accepted" /\ claims'[n].released = v /\ claims'[n].at = claims[j].at
          BY <3>0, <1>2, <1>4, <1>6, <4>1
        <5> QED
          BY <3>0, <3>1, <1>10, <5>1 DEF Wait
      <4> SUFFICES ASSUME n # j PROVE t >= claims'[n].at + Wait(n, v)'
        BY <4>1
      <4>2. claims'[n] = claims[n] /\ n <= j /\ n \in Nat /\ j \in Nat
        BY <3>0, <1>2, <1>3, <1>6
      <4>3. n \in 1..(j - 1)
        BY <3>0, <4>2
      <4>4. claims[n].current <= b
        BY <3>0, <1>2, <4>2, <4>3 DEF Inv, ClaimsOK
      <4>5. b = v
        BY <3>0, <1>3, <3>1, <4>2, <4>4
      <4>6. claims[j].at >= claims[n].at + Wait(n, v) /\ Wait(n, v)' = Wait(n, v)
        BY <3>0, <3>2, <4>2, <4>3, <4>5 DEF AfterClaims, Wait
      <4>7. claims[n].at \in Nat /\ Wait(n, v) \in Nat
        BY <3>0, Typed, ScheduleAssumption DEF Inv, Claims, Wait
      <4> QED
        BY <3>0, <3>1, <3>3, <4>2, <4>6, <4>7
    <3> QED
      BY <3>0, <2>1, <3>3, <3>4, <3>5 DEF AfterEdit, AfterClaims
  <2>2. CASE u # s
    <3>1. row'[u] = row[u]
      BY <1>7, <2>2
    <3>2. PICK v \in Versions(u), t \in Nat : v = row[u].version /\ t = row[u].next
      BY <3>1, Typed DEF Inv, RowsOK, Rows, Versions
    <3>3. AfterEdit(u, v, t, Len(claims)) /\ AfterClaims(u, v, t, Len(claims))
      BY <3>1, <3>2 DEF Inv, NextOK
    <3>4. PICK k \in 0..Len(claims) : k = Len(claims)
      BY Typed DEF Inv
    <3>5. AfterEdit(u, v, t, k)' /\ AfterClaims(u, v, t, k)'
      BY <1>6, <3>3, <3>4, <1>0, KeptClaims
    <3> QED
      BY <1>0, <1>6, <3>1, <3>2, <3>4, <3>5 DEF Kept, AfterEdit, AfterClaims
  <2> QED
    BY <2>1, <2>2
<1>19. LostOnlyIfCut'
  <2> SUFFICES ASSUME NEW k \in 1..Len(claims)
               PROVE  \/ claims'[k].fate = "accepted" \/ claims'[k].released > 0 \/ claims'[k].cut
                      \/ row'[claims'[k].s] = Nothing \/ run'[claims'[k].by].job = k
    BY <1>6, KeptDomain DEF LostOnlyIfCut
  <2>1. CASE k = j
    BY <1>3, <1>4, <1>6, <2>1
  <2>2. CASE k # j
    <3>1. /\ claims'[k] = claims[k] /\ claims[k].by \in Procs /\ claims[k].s \in Schedules
          /\ \/ claims[k].fate = "accepted" \/ claims[k].released > 0 \/ claims[k].cut
             \/ row[claims[k].s] = Nothing \/ run[claims[k].by].job = k
      BY <1>6, <2>2, SlotFacts
    <3>2. row[s] # Nothing
      BY <1>1
    <3> QED
      BY <1>7, <1>9, <1>20, <2>2, <3>1, <3>2
  <2> QED
    BY <2>1, <2>2
<1> QED
  BY <1>11, <1>12, <1>13, <1>14, <1>15, <1>16, <1>17, <1>18, <1>19 DEF Inv

\* The claim in hand is left as it is, or is noted as cut, and the loop goes on.
LEMMA LeftInv ==
  ASSUME Inv, NEW p \in Procs, run[p].pc = "release", NEW b \in BOOLEAN,
         claims' = [claims EXCEPT ![run[p].job].cut = b], claims[run[p].job].cut => b,
         \/ b
         \/ row[claims[run[p].job].s] = Nothing
         \/ row[claims[run[p].job].s].job # run[p].job /\ ~run[p].expired,
         run' = [run EXCEPT ![p] = Proceed(@)], UNCHANGED <<now, row, cache, fill, config, faults>>
  PROVE  Inv'
<1> DEFINE j == run[p].job
           c == [claims[j] EXCEPT !.cut = b]
<1>1. InHand(p)
  BY DEF InHand
<1>2. j \in 1..Len(claims) /\ claims[j] \in Claims /\ claims[j].by = p
  BY <1>1, HandFacts
<1>3. /\ c \in Claims /\ c.s = claims[j].s /\ c.by = p /\ c.at = claims[j].at
      /\ c.interval = claims[j].interval /\ c.used = claims[j].used /\ c.late = claims[j].late
      /\ c.current = claims[j].current /\ c.fate = claims[j].fate /\ c.cut = b
  BY <1>2 DEF Claims
<1>4. claims' = [claims EXCEPT ![j] = c]
  OBVIOUS
<1> HIDE DEF c
<1>5. Kept /\ claims'[j] = c /\ \A k \in 1..Len(claims) : k # j => claims'[k] = claims[k]
  BY <1>1, <1>2, <1>3, <1>4, Settle
<1>6. /\ run' \in [Procs -> Runs] /\ \A q \in Procs : q # p => run'[q] = run[q]
      /\ ~InHand(p)' /\ run'[p].pc \notin {"trigger", "release"} /\ run'[p].job = 0
      /\ run'[p].at <= now /\ (run'[p].pc # "idle" /\ ~run'[p].expired => now <= run'[p].at + 1)
      /\ run'[p].due \subseteq run[p].due /\ (run'[p].due # {} => run'[p].at = run[p].at)
      /\ run'[p].store \subseteq run[p].store
  <2>1. run[p] \in Runs /\ run' = [run EXCEPT ![p] = Proceed(run[p])] /\ run[p].pc # "idle"
    BY Typed DEF Inv
  <2> QED
    BY <2>1, ProceedRun
<1>7. Shapes'
  BY <1>5, <1>6 DEF Inv, Shapes, Fills, Kept
<1>8. RowsOK' /\ NextOK' /\ ClaimsOK' /\ ClaimsLate' /\ OutdatedIsExplained'
  BY <1>5, KeptClaims, KeptNext
<1>9. EntriesOK'
  BY <1>6 DEF Inv, EntriesOK, Explained, Versions
<1>10. DueOK'
  BY <1>6 DEF Inv, DueOK, Explained, Versions
<1>11. RunsOK' /\ HandsOK'
  BY <1>1, <1>5, <1>6, OutOfHand
<1>13. LostOnlyIfCut'
  <2> SUFFICES ASSUME NEW k \in 1..Len(claims)
               PROVE  \/ claims'[k].fate = "accepted" \/ claims'[k].released > 0 \/ claims'[k].cut
                      \/ row[claims'[k].s] = Nothing \/ run'[claims'[k].by].job = k
    BY <1>5, KeptDomain DEF LostOnlyIfCut
  <2>1. CASE k = j
    <3>1. b \/ row[claims[j].s] = Nothing
      BY <1>1 DEF Inv, HandsOK
    <3> QED
      BY <1>3, <1>5, <2>1, <3>1
  <2>2. CASE k # j
    <3>1. /\ claims'[k] = claims[k] /\ claims[k].by \in Procs
          /\ \/ claims[k].fate = "accepted" \/ claims[k].released > 0 \/ claims[k].cut
             \/ row[claims[k].s] = Nothing \/ run[claims[k].by].job = k
      BY <1>5, <2>2, SlotFacts
    <3> QED
      BY <1>6, <2>2, <3>1
  <2> QED
    BY <2>1, <2>2
<1> QED
  BY <1>7, <1>8, <1>9, <1>10, <1>11, <1>13 DEF Inv

\* The loop undoes its claim, if it still can.
LEMMA ReleaseClaimInv ==
  ASSUME Inv, NEW p \in Procs, ReleaseClaim(p)
  PROVE  Inv'
<1> DEFINE j == run[p].job
           s == claims[j].s
<1>1. run[p].pc = "release" /\ run' = [run EXCEPT ![p] = Proceed(@)] /\ UNCHANGED <<now, fill, config, faults>>
  BY DEF ReleaseClaim
<1>2. CASE claims' = [claims EXCEPT ![run[p].job].cut = TRUE] /\ UNCHANGED <<row, cache>>
  BY <1>1, <1>2, LeftInv
<1>3. CASE GiveBack(p) /\ row[s] # Nothing /\ row[s].job = j
  BY <1>1, <1>3, GivenBackInv DEF Carried
<1>4. CASE ~run[p].expired /\ GiveBack(p) /\ ~(row[s] # Nothing /\ row[s].job = j)
  <2>1. UNCHANGED <<row, cache, claims>>
    BY <1>4 DEF GiveBack
  <2>2. j \in 1..Len(claims) /\ claims[j] \in Claims
    BY <1>1, HandFacts DEF InHand
  <2>3. PICK b \in BOOLEAN : b = claims[j].cut
    BY <2>2 DEF Claims
  <2>4. [claims[j] EXCEPT !.cut = b] = claims[j]
    BY <2>2, <2>3 DEF Claims
  <2>5. claims' = [claims EXCEPT ![j].cut = b]
    BY <2>1, <2>2, <2>4, LenProperties DEF Inv, Shapes
  <2> QED
    BY <1>1, <1>4, <2>1, <2>3, <2>5, LeftInv
<1> QED
  BY <1>2, <1>3, <1>4 DEF ReleaseClaim

\* A process dies with a claim in hand.
LEMMA CrashInv ==
  ASSUME Inv, NEW p \in Procs, Crash(p)
  PROVE  Inv'
<1> DEFINE j == run[p].job
           c == [claims[j] EXCEPT !.cut = TRUE]
<1>1. InHand(p) /\ UNCHANGED <<now, row, config>>
  BY DEF Inv, RunsOK, InHand, Crash
<1>2. j \in 1..Len(claims) /\ claims[j] \in Claims /\ claims[j].by = p
  BY <1>1, HandFacts
<1>3. /\ c \in Claims /\ c.s = claims[j].s /\ c.by = p /\ c.at = claims[j].at
      /\ c.interval = claims[j].interval /\ c.used = claims[j].used /\ c.late = claims[j].late
      /\ c.current = claims[j].current /\ c.fate = claims[j].fate /\ c.cut
  BY <1>2 DEF Claims
<1>4. claims' = [claims EXCEPT ![j] = c]
  BY DEF Crash
<1> HIDE DEF c
<1>5. Kept /\ claims'[j] = c /\ \A k \in 1..Len(claims) : k # j => claims'[k] = claims[k]
  BY <1>1, <1>2, <1>3, <1>4, Settle
<1>6. /\ run' \in [Procs -> Runs] /\ \A q \in Procs : q # p => run'[q] = run[q]
      /\ run'[p].pc = "idle" /\ run'[p].job = 0 /\ run'[p].at = 0
      /\ run'[p].due = {} /\ run'[p].store = {}
  <2>1. Idle \in Runs
    BY DEF Idle, Runs
  <2> QED
    BY <2>1 DEF Inv, Shapes, Crash, Idle
<1>7. /\ cache' \in [Procs -> [Schedules -> {Nothing} \cup Entries]]
      /\ \A q \in Procs, s \in Schedules : cache'[q][s] # Nothing => cache'[q][s] = cache[q][s]
  BY DEF Inv, Shapes, Crash
<1>8. fill' \in {Nothing} \cup Fills /\ (fill' # Nothing => fill' = fill)
  BY DEF Inv, Shapes, Crash
<1>9. Shapes'
  <2>1. faults' \in 0..MaxFaults
    BY ScheduleAssumption DEF Inv, Shapes, Crash
  <2> QED
    BY <1>1, <1>5, <1>6, <1>7, <1>8, <2>1 DEF Inv, Shapes, Kept
<1>10. RowsOK' /\ NextOK' /\ ClaimsOK' /\ ClaimsLate' /\ OutdatedIsExplained'
  BY <1>1, <1>5, KeptClaims, KeptNext
<1>11. EntriesOK'
  BY <1>1, <1>6, <1>7, <1>8 DEF Inv, EntriesOK, Explained, Versions
<1>12. DueOK'
  BY <1>1, <1>6 DEF Inv, DueOK, Explained, Versions
<1>13. RunsOK' /\ HandsOK'
  <2>1. run'[p].at <= now /\ run'[p].pc \notin {"trigger", "release"}
    BY <1>6 DEF Inv, Shapes
  <2> QED
    BY <1>1, <1>5, <1>6, <2>1, OutOfHand
<1>15. LostOnlyIfCut'
  <2> SUFFICES ASSUME NEW k \in 1..Len(claims)
               PROVE  \/ claims'[k].fate = "accepted" \/ claims'[k].released > 0 \/ claims'[k].cut
                      \/ row'[claims'[k].s] = Nothing \/ run'[claims'[k].by].job = k
    BY <1>5, KeptDomain DEF LostOnlyIfCut
  <2>1. CASE k = j
    BY <1>3, <1>5, <2>1
  <2>2. CASE k # j
    <3>1. /\ claims'[k] = claims[k] /\ claims[k].by \in Procs /\ claims[k].s \in Schedules
          /\ \/ claims[k].fate = "accepted" \/ claims[k].released > 0 \/ claims[k].cut
             \/ row[claims[k].s] = Nothing \/ run[claims[k].by].job = k
      BY <1>5, <2>2, SlotFacts
    <3> QED
      BY <1>1, <1>6, <2>2, <3>1
  <2> QED
    BY <2>1, <2>2
<1> QED
  BY <1>9, <1>10, <1>11, <1>12, <1>13, <1>15 DEF Inv

\* Nothing has been scheduled yet.
LEMMA InitInv == Init => Inv
<1> SUFFICES ASSUME Init PROVE Inv
  OBVIOUS
<1>1. Shapes
  <2>1. Idle \in Runs
    BY DEF Idle, Runs
  <2>2. config \in [Schedules -> Seq(Writes)] /\ claims \in Seq(Claims)
    BY EmptySeq DEF Init
  <2> QED
    BY <2>1, <2>2, ScheduleAssumption DEF Init, Shapes
<1>2. Len(claims) = 0 /\ \A s \in Schedules : Versions(s) = {}
  BY EmptySeq DEF Init, Versions
<1>3. DOMAIN claims = {}
  BY <1>1, <1>2, LenProperties DEF Shapes
<1>4. RowsOK /\ NextOK
  BY <1>2 DEF Init, RowsOK, NextOK
<1>5. EntriesOK /\ DueOK
  BY DEF Init, Idle, EntriesOK, DueOK
<1>6. RunsOK /\ HandsOK
  BY DEF Init, Idle, RunsOK, HandsOK, InHand
<1>7. ClaimsOK /\ ClaimsLate
  BY <1>2 DEF ClaimsOK, ClaimsLate
<1>8. OutdatedIsExplained /\ LostOnlyIfCut
  BY <1>3 DEF OutdatedIsExplained, LostOnlyIfCut
<1> QED
  BY <1>1, <1>4, <1>5, <1>6, <1>7, <1>8 DEF Inv

\* Every step keeps the invariant.
LEMMA StepInv == Inv /\ [Next]_vars => Inv'
<1> SUFFICES ASSUME Inv, [Next]_vars PROVE Inv'
  OBVIOUS
<1>1. CASE Tick
  BY <1>1, TickInv
<1>2. CASE StoreRow
  BY <1>2, StoreRowInv
<1>3. ASSUME NEW p \in Procs, NEW s \in Schedules, Evict(p, s) PROVE Inv'
  BY <1>3, EvictInv
<1>4. ASSUME NEW p \in Procs, Loop(p) PROVE Inv'
  BY <1>4, ListDueInv, GetByIDsInv, StoreRowsInv, ClaimInv, TriggerInv, ReleaseClaimInv DEF Loop
<1>5. ASSUME NEW p \in Procs, Request(p) PROVE Inv'
  BY <1>5, CreateInv, UpdateInv, DeleteInv, ReadRowInv DEF Request
<1>6. ASSUME NEW p \in Procs, Expire(p) \/ Crash(p) PROVE Inv'
  BY <1>6, ExpireInv, CrashInv
<1>7. CASE UNCHANGED vars
  BY <1>7 DEF vars, Inv, Shapes, RowsOK, EntriesOK, DueOK, RunsOK, HandsOK, ClaimsOK, NextOK,
              ClaimsLate, OutdatedIsExplained, LostOnlyIfCut, Explained, InHand, Wait, AfterEdit,
              AfterClaims, Versions
<1> QED
  BY <1>1, <1>2, <1>3, <1>4, <1>5, <1>6, <1>7 DEF Next

\* The inductive invariant holds in every reachable state, however many processes,
\* schedules and faults there are (jobScheduleService.go:159-195).
THEOREM Invariance == Spec => []Inv
<1>1. Init => Inv
  BY InitInv
<1>2. Inv /\ [Next]_vars => Inv'
  BY StepInv
<1> QED
  BY <1>1, <1>2, PTL DEF Spec

\* The types, and that the job a loop has in hand is its own claim, and a row's last job
\* a claim of that schedule.
THEOREM TypesHold == Spec => []TypeOK
<1>1. Inv => TypeOK
  <2> SUFFICES ASSUME Inv PROVE TypeOK
    OBVIOUS
  <2>1. now \in 0..MaxTime /\ faults \in 0..MaxFaults
    BY DEF Inv, Shapes
  <2>2. \A s \in Schedules : row[s] # Nothing =>
          row[s].version = Len(config[s]) /\ (row[s].job = 0 \/ claims[row[s].job].s = s)
    BY DEF Inv, RowsOK
  <2>3. \A p \in Procs, s \in Schedules : cache[p][s] # Nothing => cache[p][s].version \in Versions(s)
    BY DEF Inv, EntriesOK
  <2>4. \A p \in Procs : run[p].pc \in {"trigger", "release"} => claims[run[p].job].by = p
    BY DEF Inv, RunsOK, InHand
  <2>5. \A p \in Procs : \A e \in run[p].due : e.version \in Versions(e.s)
    BY DEF Inv, DueOK
  <2> QED
    BY <2>1, <2>2, <2>3, <2>4, <2>5 DEF TypeOK
<1> QED
  BY <1>1, Invariance, PTL

\* A schedule runs at most once per interval unless a claim is given back, and then no
\* sooner than RetryAfter: a claim comes an interval after the last edit and after every
\* claim of the same version, whichever processes made them, but for those given back, the
\* accepted jobs that could not be read back among them
\* (jobScheduleService.go:182-192, jobService.go:131-139, operations.sql:50-62).
THEOREM OncePerInterval == Spec => []NeverEarly
<1>1. Inv => NeverEarly
  <2> SUFFICES ASSUME Inv, NEW j \in 1..Len(claims)
               PROVE  LET d == claims[j]
                          Earlier == {claims[k] : k \in {n \in 1..(j - 1) : claims[n].s = d.s}}
                          edit == config[d.s][d.current]
                      IN  /\ \/ d.at >= edit.at + edit.interval
                             \/ \E b \in Earlier : b.current < d.current /\ b.released = d.current
                          /\ \A b \in Earlier :
                               b.current = d.current =>
                                 d.at >= b.at + (IF b.fate # "accepted" /\ b.released = d.current
                                                   THEN RetryAfter ELSE b.interval)
    BY LenProperties DEF Inv, Shapes, NeverEarly
  <2>1. /\ AfterEdit(claims[j].s, claims[j].current, claims[j].at, j - 1)
        /\ AfterClaims(claims[j].s, claims[j].current, claims[j].at, j - 1)
    BY DEF Inv, ClaimsLate
  <2> QED
    BY <2>1 DEF AfterEdit, AfterClaims, Wait
<1> QED
  BY <1>1, Invariance, PTL

\* A job is enqueued with what an outdated entry said only if the edit that it missed was
\* made through another process, or while the entry was being read (jobScheduleService.go:179).
THEOREM OwnEditsAreSeen == Spec => []OutdatedIsExplained
<1>1. Inv => OutdatedIsExplained
  BY DEF Inv
<1> QED
  BY <1>1, Invariance, PTL

\* The slot that a claim took is used or given back unless the process stopped or the 30
\* seconds ran out in between, or the job was refused and then the statement that gives the
\* claim back failed as well (jobScheduleService.go:187-193).
THEOREM NoSlotIsLost == Spec => []LostOnlyIfCut
<1>1. Inv => LostOnlyIfCut
  BY DEF Inv
<1> QED
  BY <1>1, Invariance, PTL
=============================================================================
