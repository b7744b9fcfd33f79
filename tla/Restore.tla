------------------------------ MODULE Restore ------------------------------
(***************************************************************************)
(* Restoring a backup: StageRestore extracts and validates it and leaves a *)
(* marker (src/internal/services/backupService.go); ApplyPendingRestore    *)
(* swaps the files in at the next start (src/pkg/database/restore.go),     *)
(* before the database is opened (src/cmd/api/main.go).                    *)
(*                                                                         *)
(* The files are the state.  The content of a database or of the books     *)
(* directory is the version it came from: Current, what the installation   *)
(* held at first, or the backup it was restored from.  Every file          *)
(* operation is an action of its own, so a crash can fall between any two. *)
(*                                                                         *)
(* Bounds: Requests (each stages at most once), MaxCrashes process exits   *)
(* that are not clean, MaxFaults file operations that fail.                *)
(***************************************************************************)
EXTENDS Naturals, FiniteSets

CONSTANTS
  Backups,     \* archives under DATA_DIR/backups; their database hashes differ
  WithBooks,   \* those whose manifest has include_books
  Current,     \* the version the installation starts with
  None,        \* the file or directory does not exist
  Partial,     \* a file half written, a directory half written or half removed
  Requests,    \* POSTs to the restore endpoint
  MaxCrashes, MaxFaults

ASSUME BackupsAssumption ==
  /\ WithBooks \subseteq Backups
  /\ None \notin Backups /\ Partial \notin Backups /\ Current \notin Backups
  /\ None # Partial /\ None # Current /\ Partial # Current
ASSUME BoundsAssumption == MaxCrashes \in Nat /\ MaxFaults \in Nat

VARIABLES
  db,           \* the version in novelhub.db
  wal,          \* the version whose pages novelhub.db-wal holds, or None
  books,        \* the version in DATA_DIR/books
  stageDB,      \* .restore-staging/database/novelhub.db
  stageBooks,   \* .restore-staging/books
  marker,       \* .pending-restore.json: the backup it names
  safetyDB,     \* databases copied under restore-safety/, all attempts
  safetyBooks,  \* restore-safety/<this attempt>/books
  stash,        \* the books left in the safety directories of earlier attempts
  pc,           \* the step of ApplyPendingRestore, "up" once the server serves
  err,          \* ApplyPendingRestore returned an error at this start
  gate,         \* maintenanceGate: writing requests are turned away
  req,          \* req[r]: where request r stands in StageRestore
  target,       \* target[r]: the backup it names
  crashes, faults,
  before,       \* history: <<db, books>> when the marker was last written
  applied,      \* history: the database named by the marker was swapped in
  served,       \* history: a server has served since then
  cut,          \* history: steps that a crash or a failure left undone
  corrupt       \* history: the database was opened with the WAL of another one

live == <<db, wal, books>>
staging == <<stageDB, stageBooks>>
safety == <<safetyDB, safetyBooks, stash>>
requests == <<req, target>>
counters == <<crashes, faults>>
history == <<before, applied, served, cut, corrupt>>
vars == <<live, staging, marker, safety, pc, err, gate, requests, counters, history>>

Versions == Backups \cup {Current}
Steps == {"read", "safety", "temp", "booksOut", "booksIn", "swap", "undoIn", "undoOut", "wal",
          "marker", "clean", "open", "up"}
Holding == {"clear", "database", "books", "undo", "write", "gate"}
ReqStates == {"none", "waiting", "done"} \cup Holding

Fault == faults < MaxFaults /\ faults' = faults + 1

-----------------------------------------------------------------------------
(* StageRestore, with the server up.  The middleware reads the gate first; *)
(* the service's mutex then lets one request in at a time.                 *)

Admit(r) ==
  /\ pc = "up" /\ ~gate
  /\ req[r] = "none"
  /\ \E b \in Backups : target' = [target EXCEPT ![r] = b]
  /\ req' = [req EXCEPT ![r] = "waiting"]
  /\ UNCHANGED <<live, staging, marker, safety, pc, err, gate, counters, history>>

Move(r, state) == pc = "up" /\ req' = [req EXCEPT ![r] = state] /\ UNCHANGED target

StageLock(r) ==
  /\ req[r] = "waiting"
  /\ \A q \in Requests : req[q] \notin Holding
  /\ Move(r, "clear")
  /\ UNCHANGED <<live, staging, marker, safety, pc, err, gate, counters, history>>

\* os.RemoveAll(stagingRoot), whatever the marker says at that moment: one part after
\* the other, until one cannot be removed.
RemovesPart ==
  \/ stageDB # None /\ stageDB' = None /\ UNCHANGED stageBooks
  \/ stageBooks # None /\ stageBooks' \in {Partial, None} \ {stageBooks} /\ UNCHANGED stageDB

EmptyStaging(r, state, next) ==
  /\ req[r] = state
  /\ \/ staging = <<None, None>> /\ Move(r, next) /\ UNCHANGED <<staging, faults>>
     \/ RemovesPart /\ Move(r, state) /\ UNCHANGED faults
     \/ Fault /\ Move(r, "done") /\ UNCHANGED staging
  /\ UNCHANGED <<live, marker, safety, pc, err, gate, crashes, history>>

\* The directory is made anew; a failing MkdirAll ends the request as well.
StageClear(r) == EmptyStaging(r, "clear", "database")

\* extractBackup writes the database, which comes first in the archive.
StageDatabase(r) ==
  /\ req[r] = "database"
  /\ stageDB' = target[r]
  /\ stageBooks' = IF target[r] \in WithBooks THEN Partial ELSE stageBooks
  /\ Move(r, "books")
  /\ UNCHANGED <<live, marker, safety, pc, err, gate, counters, history>>

\* The rest of the extraction, the checksum and the health check.
StageBooks(r) ==
  /\ req[r] = "books"
  /\ stageBooks' = IF target[r] \in WithBooks THEN target[r] ELSE stageBooks
  /\ Move(r, "write")
  /\ UNCHANGED <<live, stageDB, marker, safety, pc, err, gate, counters, history>>

\* Unreadable archive, wrong checksum, not a NovelHub database, request cancelled: the
\* staging directory is removed, and an error of that is dropped.
StageFails(r) ==
  /\ req[r] \in {"database", "books"}
  /\ Move(r, "undo")
  /\ UNCHANGED <<live, staging, marker, safety, pc, err, gate, counters, history>>

StageUndo(r) == EmptyStaging(r, "undo", "done")

\* os.WriteFile truncates the marker and then fills it; either may fail.
StageMarker(r) ==
  /\ req[r] = "write"
  /\ \/ /\ \/ marker # Partial /\ marker' = Partial /\ Move(r, "write")
           \/ marker = Partial /\ marker' = target[r] /\ Move(r, "gate")
        /\ before' = <<db, books>> /\ applied' = FALSE /\ served' = FALSE /\ cut' = {}
        /\ UNCHANGED faults
     \/ Fault /\ Move(r, "done") /\ UNCHANGED <<marker, before, applied, served, cut>>
  /\ UNCHANGED <<live, staging, safety, pc, err, gate, crashes, corrupt>>

StageGate(r) ==
  /\ req[r] = "gate"
  /\ gate' = TRUE
  /\ Move(r, "done")
  /\ UNCHANGED <<live, staging, marker, safety, pc, err, counters, history>>

StageRestore(r) ==
  \/ Admit(r) \/ StageLock(r) \/ StageClear(r) \/ StageDatabase(r) \/ StageBooks(r)
  \/ StageFails(r) \/ StageUndo(r) \/ StageMarker(r) \/ StageGate(r)

-----------------------------------------------------------------------------
(* ApplyPendingRestore                                                     *)

ToStep(step) == pc' = step /\ UNCHANGED <<gate, requests, crashes>>
Fails == err' = TRUE /\ ToStep("open")

\* Faulty variant: the staged database is not compared with the marker's hash.
ReadMarkerUnchecked ==
  /\ pc = "read"
  /\ ToStep(IF marker = None THEN "open" ELSE "safety")
  /\ UNCHANGED <<live, staging, marker, safety, err, faults, history>>

\* A marker that cannot be read, or whose database is not the staged one, is an
\* error; it stays where it is.
ReadMarker ==
  /\ pc = "read"
  /\ \/ marker = None /\ ToStep("open") /\ UNCHANGED err
     \/ marker # None /\ stageDB = marker /\ ToStep("safety") /\ UNCHANGED err
     \/ marker # None /\ stageDB # marker /\ Fails
  /\ UNCHANGED <<live, staging, marker, safety, faults, history>>

\* The database, its -wal and its -shm, into a directory of this attempt.
SafetyCopy ==
  /\ pc = "safety"
  /\ \/ safetyDB' = safetyDB \cup {db} /\ ToStep("temp") /\ UNCHANGED <<faults, err>>
     \/ Fault /\ Fails /\ UNCHANGED safetyDB
  /\ UNCHANGED <<live, staging, marker, safetyBooks, stash, history>>

CopyTemp ==
  /\ pc = "temp"
  /\ \/ ToStep(IF marker \in WithBooks THEN "booksOut" ELSE "swap") /\ UNCHANGED <<faults, err>>
     \/ Fault /\ Fails
  /\ UNCHANGED <<live, staging, marker, safety, history>>

\* Faulty variant: the current books are removed to make room.
BooksRemoved ==
  /\ pc = "booksOut"
  /\ books' = None
  /\ ToStep("booksIn")
  /\ UNCHANGED <<db, wal, staging, marker, safety, err, faults, history>>

\* A missing books directory is not an error.
BooksOut ==
  /\ pc = "booksOut"
  /\ \/ /\ safetyBooks' = books /\ books' = None
        /\ ToStep("booksIn")
        /\ UNCHANGED <<faults, err>>
     \/ Fault /\ Fails /\ UNCHANGED <<books, safetyBooks>>
  /\ UNCHANGED <<db, wal, staging, marker, safetyDB, stash, history>>

BooksIn ==
  /\ pc = "booksIn"
  /\ \/ /\ stageBooks # None
        /\ books' = stageBooks /\ stageBooks' = None
        /\ ToStep("swap")
        /\ UNCHANGED faults
     \/ /\ stageBooks = None \/ faults < MaxFaults
        /\ faults' = IF stageBooks = None THEN faults ELSE faults + 1
        /\ ToStep("undoOut")
        /\ UNCHANGED <<books, stageBooks>>
  /\ UNCHANGED <<db, wal, stageDB, marker, safety, err, history>>

\* Faulty variant: no rollback of the books when the database cannot be replaced.
SwapNoRollback ==
  /\ pc = "swap"
  /\ \/ /\ db' = marker /\ applied' = TRUE
        /\ ToStep("wal")
        /\ UNCHANGED <<faults, err>>
     \/ Fault /\ Fails /\ UNCHANGED <<db, applied>>
  /\ UNCHANGED <<wal, books, staging, marker, safety, before, served, cut, corrupt>>

Swap ==
  /\ pc = "swap"
  /\ \/ /\ db' = marker /\ applied' = TRUE
        /\ ToStep("wal")
        /\ UNCHANGED <<faults, err>>
     \/ /\ Fault
        /\ IF marker \in WithBooks THEN ToStep("undoIn") /\ UNCHANGED err ELSE Fails
        /\ UNCHANGED <<db, applied>>
  /\ UNCHANGED <<wal, books, staging, marker, safety, before, served, cut, corrupt>>

\* The rollback ignores its own errors.
UndoIn ==
  /\ pc = "undoIn"
  /\ ToStep("undoOut")
  /\ \/ stageBooks' = books /\ books' = None /\ UNCHANGED <<faults, cut>>
     \/ Fault /\ cut' = cut \cup {pc} /\ UNCHANGED <<stageBooks, books>>
  /\ UNCHANGED <<db, wal, stageDB, marker, safety, err, before, applied, served, corrupt>>

\* Moving the safety copy back needs a copy, and no books directory in the way.
UndoOut ==
  /\ pc = "undoOut"
  /\ Fails
  /\ \/ /\ safetyBooks # None /\ books = None
        /\ books' = safetyBooks /\ safetyBooks' = None
        /\ UNCHANGED <<faults, cut>>
     \/ /\ safetyBooks = None \/ books # None
        /\ UNCHANGED <<books, safetyBooks, faults, cut>>
     \/ Fault /\ cut' = cut \cup {pc} /\ UNCHANGED <<books, safetyBooks>>
  /\ UNCHANGED <<db, wal, staging, marker, safetyDB, stash, before, applied, served, corrupt>>

\* Faulty variant: the WAL of the replaced database is left beside the new one.
RemoveWalForgotten ==
  /\ pc = "wal"
  /\ ToStep("marker")
  /\ UNCHANGED <<live, staging, marker, safety, err, faults, history>>

\* The errors of removing -wal and -shm are ignored.
RemoveWal ==
  /\ pc = "wal"
  /\ ToStep("marker")
  /\ \/ wal' = None /\ UNCHANGED <<faults, cut>>
     \/ Fault /\ cut' = cut \cup {pc} /\ UNCHANGED wal
  /\ UNCHANGED <<db, books, staging, marker, safety, err, before, applied, served, corrupt>>

\* Faulty variant: the marker and the staging directory outlive the restore.
RemoveMarkerForgotten ==
  /\ pc = "marker"
  /\ ToStep("open")
  /\ UNCHANGED <<live, staging, marker, safety, err, faults, history>>

RemoveMarker ==
  /\ pc = "marker"
  /\ \/ marker' = None /\ ToStep("clean") /\ UNCHANGED <<faults, err, cut>>
     \/ Fault /\ Fails /\ cut' = cut \cup {pc} /\ UNCHANGED marker
  /\ UNCHANGED <<live, staging, safety, before, applied, served, corrupt>>

RemoveStaging ==
  /\ pc = "clean"
  /\ \/ stageDB' = None /\ stageBooks' = None /\ ToStep("open") /\ UNCHANGED <<faults, err, cut>>
     \/ Fault /\ Fails /\ cut' = cut \cup {pc} /\ UNCHANGED staging
  /\ UNCHANGED <<live, marker, safety, before, applied, served, corrupt>>

\* NewSQLiteDB: SQLite replays the pages of a leftover WAL into the database.  An
\* error of ApplyPendingRestore is only logged.
Open ==
  /\ pc = "open"
  /\ corrupt' = (corrupt \/ wal \notin {None, db})
  /\ wal' = None
  /\ served' = applied
  /\ stash' = stash \cup ({safetyBooks} \ {None})
  /\ safetyBooks' = None
  /\ ToStep("up")
  /\ UNCHANGED <<db, books, staging, marker, safetyDB, err, faults, before, applied, cut>>

Apply ==
  \/ ReadMarker \/ SafetyCopy \/ CopyTemp \/ BooksOut \/ BooksIn \/ Swap \/ UndoIn \/ UndoOut
  \/ RemoveWal \/ RemoveMarker \/ RemoveStaging \/ Open

-----------------------------------------------------------------------------
(* The life of the process.                                                *)

\* The gate turns requests away; background jobs and schedules write on.
Write ==
  /\ pc = "up"
  /\ wal = None
  /\ wal' = db
  /\ UNCHANGED <<db, books, staging, marker, safety, pc, err, gate, requests, counters, history>>

Restart ==
  /\ pc' = "read" /\ err' = FALSE /\ gate' = FALSE
  /\ req' = [r \in Requests |-> IF req[r] = "none" THEN "none" ELSE "done"]
  /\ stash' = stash \cup ({safetyBooks} \ {None}) /\ safetyBooks' = None
  /\ UNCHANGED <<db, books, staging, marker, safetyDB, target, faults>>

\* gracefulShutdown waits five seconds for the requests, CheckpointWALAndClose
\* empties the WAL.
CleanStop ==
  /\ pc = "up"
  /\ wal' = None
  /\ Restart
  /\ UNCHANGED <<crashes, history>>

Crash ==
  /\ crashes < MaxCrashes
  /\ crashes' = crashes + 1
  /\ cut' = IF pc = "up" THEN cut ELSE cut \cup {pc}
  /\ Restart
  /\ UNCHANGED <<wal, before, applied, served, corrupt>>

-----------------------------------------------------------------------------
Init ==
  /\ db = Current /\ wal = None /\ books = Current
  /\ stageDB = None /\ stageBooks = None /\ marker = None
  /\ safetyDB = {} /\ safetyBooks = None /\ stash = {}
  /\ pc = "up" /\ err = FALSE /\ gate = FALSE
  /\ req = [r \in Requests |-> "none"] /\ target = [r \in Requests |-> None]
  /\ crashes = 0 /\ faults = 0
  /\ before = <<Current, Current>> /\ applied = FALSE /\ served = FALSE
  /\ cut = {} /\ corrupt = FALSE

Next ==
  \/ \E r \in Requests : StageRestore(r)
  \/ Apply
  \/ Write
  \/ CleanStop
  \/ Crash

Spec == Init /\ [][Next]_vars

\* The boot sequence runs on its own; nobody has to stage or to stop anything.
FairSpec == Spec /\ WF_vars(Apply)

-----------------------------------------------------------------------------
(* Properties.                                                             *)

\* Types of the files and of the control state (restore.go, backupService.go).
TypeOK ==
  /\ db \in Versions /\ wal \in Versions \cup {None}
  /\ books \in Versions \cup {None, Partial}
  /\ stageDB \in Backups \cup {None} /\ stageBooks \in Versions \cup {None, Partial}
  /\ marker \in Backups \cup {None, Partial}
  /\ safetyDB \subseteq Versions
  /\ safetyBooks \in Versions \cup {None, Partial}
  /\ stash \subseteq Versions \cup {Partial}
  /\ pc \in Steps /\ err \in BOOLEAN /\ gate \in BOOLEAN
  /\ req \in [Requests -> ReqStates] /\ target \in [Requests -> Backups \cup {None}]
  /\ crashes \in 0..MaxCrashes /\ faults \in 0..MaxFaults
  /\ before \in Versions \X (Versions \cup {None, Partial})
  /\ applied \in BOOLEAN /\ served \in BOOLEAN /\ cut \subseteq Steps /\ corrupt \in BOOLEAN

\* The promise of the restore dialog (en.json:195): whatever was live when the
\* restore was asked for is still live or in a safety directory, through failed,
\* interrupted and repeated attempts (restore.go:50-91).
NothingLost ==
  /\ Current \in {db} \cup safetyDB
  /\ Current \in {books, safetyBooks} \cup stash
  /\ before[1] \in {db} \cup safetyDB
  /\ before[2] \in {books, safetyBooks, None} \cup stash

\* A restore that fails without being interrupted, and whose rollback succeeds,
\* leaves database and books as they were, never one of each (restore.go:72-91).
RollbackComplete ==
  pc = "up" /\ err /\ cut = {} => <<db, books>> = before

\* Once a server has served the restored data, a later start replaces it again,
\* and with it everything written since, only if an earlier start was cut short
\* between the swap and the removal of the marker (restore.go:84-96).
ReapplyOnlyIfCut ==
  [][pc = "swap" /\ pc' = "wal" /\ applied /\ served => cut \cap {"wal", "marker"} # {}]_vars

\* SQLite never meets the WAL of the replaced database, unless the start died, or
\* failed, exactly between the swap and the removal of the WAL (restore.go:84-93).
ForeignWalOnlyIfCut ==
  [][corrupt' /\ ~corrupt => "wal" \in cut]_vars

Staged(b) ==
  /\ marker = b /\ stageDB = b
  /\ b \in WithBooks => stageBooks = b

\* A completely staged restore is in effect once the server is up again, and is
\* done with, when nothing fails any more (restore.go:22-98).
RestoreCompletes ==
  \A b \in Backups :
    pc = "read" /\ Staged(b) /\ crashes = MaxCrashes /\ faults = MaxFaults ~>
      /\ pc = "up" /\ ~err
      /\ db = b /\ marker = None
      /\ b \in WithBooks => books = b

\* docs/en/deployment.md:172: "Restores are staged and validated first, then applied
\* on the next start."  Then the books that go live were extracted to the end.
OnlyValidatedApplied == books # Partial

\* main.go:75: "pending restore was not applied; starting with current data".  Then,
\* whenever ApplyPendingRestore fails, the server starts with what was there before.
StartsWithCurrentData ==
  pc = "up" /\ err => <<db, books>> = before
=============================================================================
