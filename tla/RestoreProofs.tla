--------------------------- MODULE RestoreProofs ---------------------------
(***************************************************************************)
(* What holds of Restore for every value of its constants.                 *)
(***************************************************************************)
EXTENDS Restore, TLAPS

\* The three parts of TypeOK: the files, the control state, and the rest.
FilesOK ==
  /\ db \in Versions /\ wal \in Versions \cup {None}
  /\ books \in Versions \cup {None, Partial}
  /\ stageDB \in Backups \cup {None} /\ stageBooks \in Versions \cup {None, Partial}
  /\ marker \in Backups \cup {None, Partial}
  /\ safetyDB \subseteq Versions
  /\ safetyBooks \in Versions \cup {None, Partial}
  /\ stash \subseteq Versions \cup {Partial}

ControlOK ==
  /\ pc \in Steps /\ err \in BOOLEAN /\ gate \in BOOLEAN
  /\ req \in [Requests -> ReqStates] /\ target \in [Requests -> Backups \cup {None}]

HistoryOK ==
  /\ crashes \in 0..MaxCrashes /\ faults \in 0..MaxFaults
  /\ before \in Versions \X (Versions \cup {None, Partial})
  /\ applied \in BOOLEAN /\ served \in BOOLEAN /\ cut \subseteq Steps /\ corrupt \in BOOLEAN

\* A request that has come past the gate names a backup.
RequestsNamed ==
  \A r \in Requests : req[r] \in Holding \cup {"waiting"} => target[r] \in Backups

\* A start that has read the marker works on a backup, with books if it moves books, and
\* has met no error.
UnderWay ==
  /\ pc \in {"safety", "temp", "booksOut", "booksIn", "swap", "undoIn", "undoOut", "wal", "marker"}
       => marker \in Backups
  /\ pc \in {"booksOut", "booksIn", "undoIn", "undoOut"} => marker \in WithBooks
  /\ pc = "clean" => marker = None
  /\ pc \notin {"open", "up"} => ~err

\* The database that Swap will overwrite has been copied.
DatabaseSafe ==
  pc \in {"temp", "booksOut", "booksIn", "swap", "undoIn", "undoOut"} => db \in safetyDB

\* While the books are set aside, what must not be lost is not in DATA_DIR/books.
Aside == pc \in {"booksIn", "undoIn", "undoOut"} \/ (pc = "swap" /\ marker \in WithBooks)

\* While they are set aside, the copy or a stash has them.
BooksSafe ==
  /\ pc \in {"up", "read", "safety", "temp", "booksOut"} => safetyBooks = None
  /\ pc = "booksIn" => books = None
  /\ Aside => /\ Current \in {safetyBooks} \cup stash
              /\ before[2] \in {safetyBooks, None} \cup stash

\* Without a start cut short, what was there is where the steps so far have put it, so that
\* the next step back finds it.
Untouched ==
  cut = {} =>
    /\ pc \in {"booksIn", "swap", "undoIn", "undoOut"} => db = before[1]
    /\ pc \in {"up", "read", "safety", "temp", "booksOut", "open"} /\ marker # None
         => <<db, books>> = before
    /\ pc = "swap" /\ marker \notin WithBooks => books = before[2]
    /\ Aside => safetyBooks = before[2]
    /\ pc = "undoOut" => books = None
    /\ pc \in {"open", "up"} /\ marker = None => ~err

\* A backup that has been applied is named by the marker still only if a start was cut.
Reapplied ==
  applied /\ marker # None /\ pc \notin {"wal", "marker"} => cut \cap {"wal", "marker"} # {}

\* The WAL beside the database is that database's, but for the step that removes it.
OwnWal ==
  wal \notin {None, db} => pc = "wal" \/ ("wal" \in cut /\ pc # "up")

\* The inductive invariant.
Inv ==
  /\ FilesOK /\ ControlOK /\ HistoryOK /\ RequestsNamed /\ UnderWay
  /\ DatabaseSafe /\ BooksSafe /\ NothingLost
  /\ Untouched /\ Reapplied /\ OwnWal

-----------------------------------------------------------------------------
\* A new installation.
LEMMA InitInv == Init => Inv
<1> SUFFICES ASSUME Init PROVE Inv
  OBVIOUS
<1>1. FilesOK
  BY DEF Init, FilesOK, Versions
<1>2. ControlOK
  BY DEF Init, ControlOK, Steps, ReqStates
<1>3. HistoryOK
  <2>1. crashes \in 0..MaxCrashes /\ faults \in 0..MaxFaults
    BY BoundsAssumption DEF Init
  <2>2. cut \subseteq Steps
    BY DEF Init
  <2>3. before \in Versions \X (Versions \cup {None, Partial})
    BY DEF Init, Versions
  <2>4. applied \in BOOLEAN /\ served \in BOOLEAN /\ corrupt \in BOOLEAN
    BY DEF Init
  <2> QED
    BY <2>1, <2>2, <2>3, <2>4 DEF HistoryOK
<1>4. RequestsNamed
  BY DEF Init, RequestsNamed, Holding
<1>5. UnderWay
  BY DEF Init, UnderWay
<1>6. DatabaseSafe
  BY DEF Init, DatabaseSafe
<1>7. BooksSafe
  BY DEF Init, BooksSafe, Aside
<1>8. NothingLost
  BY DEF Init, NothingLost
<1>9. Untouched
  BY DEF Init, Untouched, Aside
<1>10. Reapplied
  BY DEF Init, Reapplied
<1>11. OwnWal
  BY DEF Init, OwnWal
<1> QED
  BY <1>1, <1>2, <1>3, <1>4, <1>5, <1>6, <1>7, <1>8, <1>9, <1>10, <1>11 DEF Inv

\* A request comes past the gate.
LEMMA AdmitInv ==
  ASSUME Inv, NEW r \in Requests, Admit(r)
  PROVE  Inv'
<1>1. FilesOK' /\ HistoryOK' /\ UnderWay' /\ DatabaseSafe' /\ BooksSafe' /\ NothingLost'
      /\ Untouched' /\ Reapplied' /\ OwnWal'
  BY DEF Inv, Admit, live, staging, safety, counters, history, FilesOK, HistoryOK, UnderWay,
         DatabaseSafe, BooksSafe, NothingLost, Untouched, Reapplied, OwnWal, Aside
<1>2. ControlOK'
  BY DEF Inv, Admit, ControlOK, ReqStates
<1>3. RequestsNamed'
  BY DEF Inv, Admit, RequestsNamed, ControlOK
<1> QED
  BY <1>1, <1>2, <1>3 DEF Inv

\* A request gets the service's mutex.
LEMMA StageLockInv ==
  ASSUME Inv, NEW r \in Requests, StageLock(r)
  PROVE  Inv'
<1>1. FilesOK' /\ HistoryOK' /\ UnderWay' /\ DatabaseSafe' /\ BooksSafe' /\ NothingLost'
      /\ Untouched' /\ Reapplied' /\ OwnWal'
  BY DEF Inv, StageLock, live, staging, safety, counters, history, FilesOK, HistoryOK, UnderWay,
         DatabaseSafe, BooksSafe, NothingLost, Untouched, Reapplied, OwnWal, Aside
<1>2. ControlOK'
  BY DEF Inv, StageLock, Move, ControlOK, ReqStates, Holding
<1>3. RequestsNamed'
  BY DEF Inv, StageLock, Move, RequestsNamed
<1> QED
  BY <1>1, <1>2, <1>3 DEF Inv

\* A part of the staging directory is removed, or all of it is, or it cannot be.
LEMMA EmptyStagingInv ==
  ASSUME Inv, NEW r \in Requests, NEW state \in Holding, NEW next \in ReqStates \ {"waiting"},
         EmptyStaging(r, state, next)
  PROVE  Inv'
<1>1. UnderWay' /\ DatabaseSafe' /\ BooksSafe' /\ NothingLost' /\ Untouched' /\ Reapplied'
      /\ OwnWal'
  BY DEF Inv, EmptyStaging, live, safety, history, UnderWay, DatabaseSafe, BooksSafe,
         NothingLost, Untouched, Reapplied, OwnWal, Aside
<1>2. FilesOK'
  BY DEF Inv, EmptyStaging, RemovesPart, live, staging, safety, FilesOK
<1>3. HistoryOK'
  BY BoundsAssumption DEF Inv, EmptyStaging, Fault, history, HistoryOK
<1>4. ControlOK'
  BY DEF Inv, EmptyStaging, Move, ControlOK, ReqStates, Holding
<1>5. RequestsNamed'
  <2> SUFFICES ASSUME NEW q \in Requests, req'[q] \in Holding \cup {"waiting"}
               PROVE  target'[q] \in Backups
    BY DEF RequestsNamed
  <2>1. req[q] \in Holding \cup {"waiting"}
    BY DEF Inv, EmptyStaging, Move, ControlOK
  <2> QED
    BY <2>1 DEF Inv, EmptyStaging, Move, RequestsNamed
<1> QED
  BY <1>1, <1>2, <1>3, <1>4, <1>5 DEF Inv

\* The staging directory is emptied.
LEMMA StageClearInv ==
  ASSUME Inv, NEW r \in Requests, StageClear(r)
  PROVE  Inv'
BY EmptyStagingInv DEF StageClear, ReqStates, Holding

\* The database is extracted.
LEMMA StageDatabaseInv ==
  ASSUME Inv, NEW r \in Requests, StageDatabase(r)
  PROVE  Inv'
<1>1. HistoryOK' /\ UnderWay' /\ DatabaseSafe' /\ BooksSafe' /\ NothingLost' /\ Untouched'
      /\ Reapplied' /\ OwnWal'
  BY DEF Inv, StageDatabase, live, safety, counters, history, HistoryOK, UnderWay, DatabaseSafe,
         BooksSafe, NothingLost, Untouched, Reapplied, OwnWal, Aside
<1>2. FilesOK'
  BY DEF Inv, StageDatabase, live, safety, FilesOK, RequestsNamed, Holding
<1>3. ControlOK'
  BY DEF Inv, StageDatabase, Move, ControlOK, ReqStates, Holding
<1>4. RequestsNamed'
  BY DEF Inv, StageDatabase, Move, RequestsNamed, ControlOK, Holding
<1> QED
  BY <1>1, <1>2, <1>3, <1>4 DEF Inv

\* The rest is extracted.
LEMMA StageBooksInv ==
  ASSUME Inv, NEW r \in Requests, StageBooks(r)
  PROVE  Inv'
<1>1. HistoryOK' /\ UnderWay' /\ DatabaseSafe' /\ BooksSafe' /\ NothingLost' /\ Untouched'
      /\ Reapplied' /\ OwnWal'
  BY DEF Inv, StageBooks, live, safety, counters, history, HistoryOK, UnderWay, DatabaseSafe,
         BooksSafe, NothingLost, Untouched, Reapplied, OwnWal, Aside
<1>2. FilesOK'
  BY DEF Inv, StageBooks, live, safety, FilesOK, Versions, RequestsNamed, Holding
<1>3. ControlOK'
  BY DEF Inv, StageBooks, Move, ControlOK, ReqStates, Holding
<1>4. RequestsNamed'
  BY DEF Inv, StageBooks, Move, RequestsNamed, Holding
<1> QED
  BY <1>1, <1>2, <1>3, <1>4 DEF Inv

\* The extraction fails.
LEMMA StageFailsInv ==
  ASSUME Inv, NEW r \in Requests, StageFails(r)
  PROVE  Inv'
<1>1. FilesOK' /\ HistoryOK' /\ UnderWay' /\ DatabaseSafe' /\ BooksSafe' /\ NothingLost'
      /\ Untouched' /\ Reapplied' /\ OwnWal'
  BY DEF Inv, StageFails, live, staging, safety, counters, history, FilesOK, HistoryOK, UnderWay,
         DatabaseSafe, BooksSafe, NothingLost, Untouched, Reapplied, OwnWal, Aside
<1>2. ControlOK'
  BY DEF Inv, StageFails, Move, ControlOK, ReqStates, Holding
<1>3. RequestsNamed'
  BY DEF Inv, StageFails, Move, RequestsNamed, Holding
<1> QED
  BY <1>1, <1>2, <1>3 DEF Inv

\* What it left is removed.
LEMMA StageUndoInv ==
  ASSUME Inv, NEW r \in Requests, StageUndo(r)
  PROVE  Inv'
BY EmptyStagingInv DEF StageUndo, ReqStates, Holding

\* The marker is written.
LEMMA StageMarkerInv ==
  ASSUME Inv, NEW r \in Requests, StageMarker(r)
  PROVE  Inv'
<1>1. DatabaseSafe'
  BY DEF StageMarker, Move, DatabaseSafe
<1>2. FilesOK'
  BY DEF Inv, StageMarker, live, staging, safety, FilesOK, RequestsNamed, Holding
<1>3. ControlOK'
  BY DEF Inv, StageMarker, Move, ControlOK, ReqStates, Holding
<1>4. HistoryOK'
  <2>1. crashes' \in 0..MaxCrashes /\ faults' \in 0..MaxFaults
    BY BoundsAssumption DEF Inv, StageMarker, Fault, HistoryOK
  <2>2. before' \in Versions \X (Versions \cup {None, Partial})
    BY DEF Inv, StageMarker, HistoryOK, FilesOK
  <2>3. applied' \in BOOLEAN /\ served' \in BOOLEAN /\ cut' \subseteq Steps /\ corrupt' \in BOOLEAN
    BY DEF Inv, StageMarker, HistoryOK
  <2> QED
    BY <2>1, <2>2, <2>3 DEF HistoryOK
<1>5. RequestsNamed'
  BY DEF Inv, StageMarker, Move, RequestsNamed, ControlOK, Holding
<1>6. UnderWay'
  BY DEF StageMarker, Move, UnderWay
<1>7. BooksSafe'
  BY DEF Inv, StageMarker, Move, safety, BooksSafe, Aside
<1>8. NothingLost'
  BY DEF Inv, StageMarker, live, safety, NothingLost
<1>9. Untouched'
  BY BackupsAssumption DEF Inv, StageMarker, Move, live, Untouched, Aside, RequestsNamed, Holding
<1>10. Reapplied'
  BY DEF Inv, StageMarker, Move, Reapplied
<1>11. OwnWal'
  BY DEF Inv, StageMarker, Move, live, OwnWal
<1> QED
  BY <1>1, <1>2, <1>3, <1>4, <1>5, <1>6, <1>7, <1>8, <1>9, <1>10, <1>11 DEF Inv

\* The gate closes.
LEMMA StageGateInv ==
  ASSUME Inv, NEW r \in Requests, StageGate(r)
  PROVE  Inv'
<1>1. FilesOK' /\ HistoryOK' /\ UnderWay' /\ DatabaseSafe' /\ BooksSafe' /\ NothingLost'
      /\ Untouched' /\ Reapplied' /\ OwnWal'
  BY DEF Inv, StageGate, live, staging, safety, counters, history, FilesOK, HistoryOK, UnderWay,
         DatabaseSafe, BooksSafe, NothingLost, Untouched, Reapplied, OwnWal, Aside
<1>2. ControlOK'
  BY DEF Inv, StageGate, Move, ControlOK, ReqStates
<1>3. RequestsNamed'
  BY DEF Inv, StageGate, Move, RequestsNamed, Holding
<1> QED
  BY <1>1, <1>2, <1>3 DEF Inv

\* The marker is read.
LEMMA ReadMarkerInv ==
  ASSUME Inv, ReadMarker
  PROVE  Inv'
<1>1. FilesOK' /\ HistoryOK' /\ RequestsNamed' /\ NothingLost'
  BY DEF Inv, ReadMarker, ToStep, Fails, live, staging, safety, requests, history, FilesOK,
         HistoryOK, RequestsNamed, NothingLost
<1>2. ControlOK'
  BY DEF Inv, ReadMarker, ToStep, Fails, requests, ControlOK, Steps
<1>3. UnderWay'
  BY DEF Inv, ReadMarker, ToStep, Fails, UnderWay, FilesOK
<1>4. DatabaseSafe'
  BY DEF ReadMarker, ToStep, Fails, DatabaseSafe
<1>5. BooksSafe'
  BY DEF Inv, ReadMarker, ToStep, Fails, safety, BooksSafe, Aside
<1>6. Untouched'
  BY DEF Inv, ReadMarker, ToStep, Fails, live, history, Untouched, Aside, UnderWay
<1>7. Reapplied'
  BY DEF Inv, ReadMarker, history, Reapplied
<1>8. OwnWal'
  BY DEF Inv, ReadMarker, ToStep, Fails, live, history, OwnWal
<1> QED
  BY <1>1, <1>2, <1>3, <1>4, <1>5, <1>6, <1>7, <1>8 DEF Inv

\* The database is copied aside.
LEMMA SafetyCopyInv ==
  ASSUME Inv, SafetyCopy
  PROVE  Inv'
<1>1. RequestsNamed'
  BY DEF Inv, SafetyCopy, ToStep, Fails, requests, RequestsNamed
<1>2. FilesOK'
  BY DEF Inv, SafetyCopy, live, staging, FilesOK
<1>3. ControlOK'
  BY DEF Inv, SafetyCopy, ToStep, Fails, requests, ControlOK, Steps
<1>4. HistoryOK'
  BY BoundsAssumption DEF Inv, SafetyCopy, ToStep, Fails, Fault, history, HistoryOK
<1>5. UnderWay'
  BY DEF Inv, SafetyCopy, ToStep, Fails, UnderWay
<1>6. DatabaseSafe'
  BY DEF SafetyCopy, ToStep, Fails, live, DatabaseSafe
<1>7. BooksSafe'
  BY DEF Inv, SafetyCopy, ToStep, Fails, BooksSafe, Aside
<1>8. NothingLost'
  BY DEF Inv, SafetyCopy, live, history, NothingLost
<1>9. Untouched'
  BY BackupsAssumption DEF Inv, SafetyCopy, ToStep, Fails, live, history, Untouched, Aside, UnderWay
<1>10. Reapplied'
  BY DEF Inv, SafetyCopy, history, Reapplied
<1>11. OwnWal'
  BY DEF Inv, SafetyCopy, ToStep, Fails, live, history, OwnWal
<1> QED
  BY <1>1, <1>2, <1>3, <1>4, <1>5, <1>6, <1>7, <1>8, <1>9, <1>10, <1>11 DEF Inv

\* The staged database is copied beside the live one.
LEMMA CopyTempInv ==
  ASSUME Inv, CopyTemp
  PROVE  Inv'
<1>1. FilesOK' /\ RequestsNamed' /\ NothingLost'
  BY DEF Inv, CopyTemp, ToStep, Fails, live, staging, safety, requests, history, FilesOK,
         RequestsNamed, NothingLost
<1>2. ControlOK'
  BY DEF Inv, CopyTemp, ToStep, Fails, requests, ControlOK, Steps
<1>3. HistoryOK'
  BY BoundsAssumption DEF Inv, CopyTemp, ToStep, Fails, Fault, history, HistoryOK
<1>4. UnderWay'
  BY DEF Inv, CopyTemp, ToStep, Fails, UnderWay
<1>5. DatabaseSafe'
  BY DEF Inv, CopyTemp, live, safety, DatabaseSafe
<1>6. BooksSafe'
  BY DEF Inv, CopyTemp, ToStep, Fails, safety, BooksSafe, Aside
<1>7. Untouched'
  BY BackupsAssumption DEF Inv, CopyTemp, ToStep, Fails, live, history, Untouched, Aside, UnderWay
<1>8. Reapplied'
  BY DEF Inv, CopyTemp, history, Reapplied
<1>9. OwnWal'
  BY DEF Inv, CopyTemp, ToStep, Fails, live, history, OwnWal
<1> QED
  BY <1>1, <1>2, <1>3, <1>4, <1>5, <1>6, <1>7, <1>8, <1>9 DEF Inv

\* The books are set aside.
LEMMA BooksOutInv ==
  ASSUME Inv, BooksOut
  PROVE  Inv'
<1>1. RequestsNamed'
  BY DEF Inv, BooksOut, ToStep, Fails, requests, RequestsNamed
<1>2. FilesOK'
  BY DEF Inv, BooksOut, staging, FilesOK
<1>3. ControlOK'
  BY DEF Inv, BooksOut, ToStep, Fails, requests, ControlOK, Steps
<1>4. HistoryOK'
  BY BoundsAssumption DEF Inv, BooksOut, ToStep, Fails, Fault, history, HistoryOK
<1>5. UnderWay'
  BY DEF Inv, BooksOut, ToStep, Fails, UnderWay
<1>6. DatabaseSafe'
  BY DEF Inv, BooksOut, DatabaseSafe
<1>7. BooksSafe'
  BY BackupsAssumption DEF Inv, BooksOut, ToStep, Fails, history, BooksSafe, Aside, NothingLost
<1>8. NothingLost'
  BY DEF Inv, BooksOut, history, NothingLost, BooksSafe
<1>9. Untouched'
  BY BackupsAssumption DEF Inv, BooksOut, ToStep, Fails, history, Untouched, Aside, UnderWay
<1>10. Reapplied'
  BY DEF Inv, BooksOut, history, Reapplied
<1>11. OwnWal'
  BY DEF Inv, BooksOut, ToStep, Fails, history, OwnWal
<1> QED
  BY <1>1, <1>2, <1>3, <1>4, <1>5, <1>6, <1>7, <1>8, <1>9, <1>10, <1>11 DEF Inv

\* The staged books come in, or do not.
LEMMA BooksInInv ==
  ASSUME Inv, BooksIn
  PROVE  Inv'
<1>1. RequestsNamed'
  BY DEF Inv, BooksIn, ToStep, requests, RequestsNamed
<1>2. FilesOK'
  BY DEF Inv, BooksIn, safety, FilesOK
<1>3. ControlOK'
  BY DEF Inv, BooksIn, ToStep, requests, ControlOK, Steps
<1>4. HistoryOK'
  BY BoundsAssumption DEF Inv, BooksIn, ToStep, history, HistoryOK
<1>5. UnderWay'
  BY DEF Inv, BooksIn, ToStep, UnderWay
<1>6. DatabaseSafe'
  BY DEF Inv, BooksIn, safety, DatabaseSafe
<1>7. BooksSafe'
  BY DEF Inv, BooksIn, ToStep, safety, history, BooksSafe, Aside
<1>8. NothingLost'
  BY DEF Inv, BooksIn, safety, history, NothingLost, BooksSafe, Aside
<1>9. Untouched'
  BY DEF Inv, BooksIn, ToStep, safety, history, Untouched, Aside, UnderWay, BooksSafe
<1>10. Reapplied'
  BY DEF Inv, BooksIn, history, Reapplied
<1>11. OwnWal'
  BY DEF Inv, BooksIn, ToStep, history, OwnWal
<1> QED
  BY <1>1, <1>2, <1>3, <1>4, <1>5, <1>6, <1>7, <1>8, <1>9, <1>10, <1>11 DEF Inv

\* The database is replaced, or is not.
LEMMA SwapInv ==
  ASSUME Inv, Swap
  PROVE  Inv'
<1>1. RequestsNamed'
  BY DEF Inv, Swap, ToStep, Fails, requests, RequestsNamed
<1>2. FilesOK'
  BY DEF Inv, Swap, staging, safety, FilesOK, Versions, UnderWay
<1>3. ControlOK'
  BY DEF Inv, Swap, ToStep, Fails, requests, ControlOK, Steps
<1>4. HistoryOK'
  <2>1. (crashes \in 0..MaxCrashes /\ faults \in 0..MaxFaults)'
    BY BoundsAssumption DEF Inv, Swap, ToStep, Fails, Fault, HistoryOK
  <2>2. (cut \subseteq Steps)'
    BY DEF Inv, Swap, HistoryOK
  <2>3. (before \in Versions \X (Versions \cup {None, Partial}))'
    BY DEF Inv, Swap, HistoryOK
  <2>4. (applied \in BOOLEAN /\ served \in BOOLEAN /\ corrupt \in BOOLEAN)'
    BY DEF Inv, Swap, HistoryOK
  <2> QED
    BY <2>1, <2>2, <2>3, <2>4 DEF HistoryOK
<1>5. UnderWay'
  BY DEF Inv, Swap, ToStep, Fails, UnderWay
<1>6. DatabaseSafe'
  BY DEF Inv, Swap, ToStep, safety, DatabaseSafe
<1>7. BooksSafe'
  BY DEF Inv, Swap, ToStep, Fails, safety, BooksSafe, Aside
<1>8. NothingLost'
  BY DEF Inv, Swap, safety, NothingLost, DatabaseSafe
<1>9. Untouched'
  BY BackupsAssumption DEF Inv, Swap, ToStep, Fails, safety, Untouched, Aside, UnderWay, HistoryOK
<1>10. Reapplied'
  BY DEF Inv, Swap, ToStep, Reapplied
<1>11. OwnWal'
  BY DEF Inv, Swap, ToStep, Fails, OwnWal
<1> QED
  BY <1>1, <1>2, <1>3, <1>4, <1>5, <1>6, <1>7, <1>8, <1>9, <1>10, <1>11 DEF Inv

\* The new books go back to the staging directory.
LEMMA UndoInInv ==
  ASSUME Inv, UndoIn
  PROVE  Inv'
<1>1. RequestsNamed'
  BY DEF Inv, UndoIn, ToStep, requests, RequestsNamed
<1>2. FilesOK'
  BY DEF Inv, UndoIn, safety, FilesOK
<1>3. ControlOK'
  BY DEF Inv, UndoIn, ToStep, requests, ControlOK, Steps
<1>4. HistoryOK'
  <2>1. (crashes \in 0..MaxCrashes /\ faults \in 0..MaxFaults)'
    BY BoundsAssumption DEF Inv, UndoIn, ToStep, Fault, HistoryOK
  <2>2. (cut \subseteq Steps)'
    BY DEF Inv, UndoIn, HistoryOK, Steps
  <2>3. (before \in Versions \X (Versions \cup {None, Partial}))'
    BY DEF Inv, UndoIn, HistoryOK
  <2>4. (applied \in BOOLEAN /\ served \in BOOLEAN /\ corrupt \in BOOLEAN)'
    BY DEF Inv, UndoIn, HistoryOK
  <2> QED
    BY <2>1, <2>2, <2>3, <2>4 DEF HistoryOK
<1>5. UnderWay'
  BY DEF Inv, UndoIn, ToStep, UnderWay
<1>6. DatabaseSafe'
  BY DEF Inv, UndoIn, safety, DatabaseSafe
<1>7. BooksSafe'
  BY DEF Inv, UndoIn, ToStep, safety, BooksSafe, Aside
<1>8. NothingLost'
  BY DEF Inv, UndoIn, safety, NothingLost, BooksSafe, Aside
<1>9. Untouched'
  BY DEF Inv, UndoIn, ToStep, safety, Untouched, Aside
<1>10. Reapplied'
  BY DEF Inv, UndoIn, Reapplied
<1>11. OwnWal'
  BY DEF Inv, UndoIn, ToStep, OwnWal
<1> QED
  BY <1>1, <1>2, <1>3, <1>4, <1>5, <1>6, <1>7, <1>8, <1>9, <1>10, <1>11 DEF Inv

\* The old books come back.
LEMMA UndoOutInv ==
  ASSUME Inv, UndoOut
  PROVE  Inv'
<1>1. RequestsNamed'
  BY DEF Inv, UndoOut, Fails, ToStep, requests, RequestsNamed
<1>2. FilesOK'
  BY DEF Inv, UndoOut, staging, FilesOK
<1>3. ControlOK'
  BY DEF Inv, UndoOut, Fails, ToStep, requests, ControlOK, Steps
<1>4. HistoryOK'
  <2>1. (crashes \in 0..MaxCrashes /\ faults \in 0..MaxFaults)'
    BY BoundsAssumption DEF Inv, UndoOut, Fails, Fault, ToStep, HistoryOK
  <2>2. (cut \subseteq Steps)'
    BY DEF Inv, UndoOut, HistoryOK, Steps
  <2>3. (before \in Versions \X (Versions \cup {None, Partial}))'
    BY DEF Inv, UndoOut, HistoryOK
  <2>4. (applied \in BOOLEAN /\ served \in BOOLEAN /\ corrupt \in BOOLEAN)'
    BY DEF Inv, UndoOut, HistoryOK
  <2> QED
    BY <2>1, <2>2, <2>3, <2>4 DEF HistoryOK
<1>5. UnderWay'
  BY DEF UndoOut, Fails, ToStep, UnderWay
<1>6. DatabaseSafe'
  BY DEF Inv, UndoOut, DatabaseSafe
<1>7. BooksSafe'
  BY DEF UndoOut, Fails, ToStep, BooksSafe, Aside
<1>8. NothingLost'
  BY DEF Inv, UndoOut, NothingLost
<1>9. Untouched'
  BY BackupsAssumption DEF Inv, UndoOut, Fails, ToStep, Untouched, Aside, UnderWay, HistoryOK
<1>10. Reapplied'
  BY DEF Inv, UndoOut, Reapplied
<1>11. OwnWal'
  BY DEF Inv, UndoOut, Fails, ToStep, OwnWal
<1> QED
  BY <1>1, <1>2, <1>3, <1>4, <1>5, <1>6, <1>7, <1>8, <1>9, <1>10, <1>11 DEF Inv

\* The WAL of the replaced database is removed.
LEMMA RemoveWalInv ==
  ASSUME Inv, RemoveWal
  PROVE  Inv'
<1>1. RequestsNamed' /\ NothingLost'
  BY DEF Inv, RemoveWal, ToStep, safety, requests, RequestsNamed, NothingLost
<1>2. FilesOK'
  BY DEF Inv, RemoveWal, staging, safety, FilesOK
<1>3. ControlOK'
  BY DEF Inv, RemoveWal, ToStep, requests, ControlOK, Steps
<1>4. HistoryOK'
  <2>1. (crashes \in 0..MaxCrashes /\ faults \in 0..MaxFaults)'
    BY BoundsAssumption DEF Inv, RemoveWal, ToStep, Fault, HistoryOK
  <2>2. (cut \subseteq Steps)'
    BY DEF Inv, RemoveWal, HistoryOK, Steps
  <2>3. (before \in Versions \X (Versions \cup {None, Partial}))'
    BY DEF Inv, RemoveWal, HistoryOK
  <2>4. (applied \in BOOLEAN /\ served \in BOOLEAN /\ corrupt \in BOOLEAN)'
    BY DEF Inv, RemoveWal, HistoryOK
  <2> QED
    BY <2>1, <2>2, <2>3, <2>4 DEF HistoryOK
<1>5. UnderWay'
  BY DEF Inv, RemoveWal, ToStep, UnderWay
<1>6. DatabaseSafe'
  BY DEF RemoveWal, ToStep, DatabaseSafe
<1>7. BooksSafe'
  BY DEF RemoveWal, ToStep, BooksSafe, Aside
<1>8. Untouched'
  BY DEF RemoveWal, ToStep, Untouched, Aside
<1>9. Reapplied'
  BY DEF RemoveWal, ToStep, Reapplied
<1>10. OwnWal'
  BY DEF RemoveWal, ToStep, OwnWal
<1> QED
  BY <1>1, <1>2, <1>3, <1>4, <1>5, <1>6, <1>7, <1>8, <1>9, <1>10 DEF Inv

\* The marker is removed.
LEMMA RemoveMarkerInv ==
  ASSUME Inv, RemoveMarker
  PROVE  Inv'
<1>1. RequestsNamed' /\ NothingLost'
  BY DEF Inv, RemoveMarker, ToStep, Fails, live, safety, requests, RequestsNamed, NothingLost
<1>2. FilesOK'
  BY DEF Inv, RemoveMarker, live, staging, safety, FilesOK
<1>3. ControlOK'
  BY DEF Inv, RemoveMarker, ToStep, Fails, requests, ControlOK, Steps
<1>4. HistoryOK'
  <2>1. (crashes \in 0..MaxCrashes /\ faults \in 0..MaxFaults)'
    BY BoundsAssumption DEF Inv, RemoveMarker, ToStep, Fails, Fault, HistoryOK
  <2>2. (cut \subseteq Steps)'
    BY DEF Inv, RemoveMarker, HistoryOK, Steps
  <2>3. (before \in Versions \X (Versions \cup {None, Partial}))'
    BY DEF Inv, RemoveMarker, HistoryOK
  <2>4. (applied \in BOOLEAN /\ served \in BOOLEAN /\ corrupt \in BOOLEAN)'
    BY DEF Inv, RemoveMarker, HistoryOK
  <2> QED
    BY <2>1, <2>2, <2>3, <2>4 DEF HistoryOK
<1>5. UnderWay'
  BY DEF Inv, RemoveMarker, ToStep, Fails, UnderWay
<1>6. DatabaseSafe'
  BY DEF RemoveMarker, ToStep, Fails, DatabaseSafe
<1>7. BooksSafe'
  BY DEF RemoveMarker, ToStep, Fails, BooksSafe, Aside
<1>8. Untouched'
  BY DEF RemoveMarker, ToStep, Untouched, Aside
<1>9. Reapplied'
  BY DEF RemoveMarker, Reapplied
<1>10. OwnWal'
  BY DEF Inv, RemoveMarker, ToStep, Fails, live, OwnWal
<1> QED
  BY <1>1, <1>2, <1>3, <1>4, <1>5, <1>6, <1>7, <1>8, <1>9, <1>10 DEF Inv

\* The staging directory is removed.
LEMMA RemoveStagingInv ==
  ASSUME Inv, RemoveStaging
  PROVE  Inv'
<1>1. RequestsNamed' /\ NothingLost'
  BY DEF Inv, RemoveStaging, ToStep, Fails, live, safety, requests, RequestsNamed, NothingLost
<1>2. FilesOK'
  BY DEF Inv, RemoveStaging, live, staging, safety, FilesOK
<1>3. ControlOK'
  BY DEF Inv, RemoveStaging, ToStep, Fails, requests, ControlOK, Steps
<1>4. HistoryOK'
  <2>1. (crashes \in 0..MaxCrashes /\ faults \in 0..MaxFaults)'
    BY BoundsAssumption DEF Inv, RemoveStaging, ToStep, Fails, Fault, HistoryOK
  <2>2. (cut \subseteq Steps)'
    BY DEF Inv, RemoveStaging, HistoryOK, Steps
  <2>3. (before \in Versions \X (Versions \cup {None, Partial}))'
    BY DEF Inv, RemoveStaging, HistoryOK
  <2>4. (applied \in BOOLEAN /\ served \in BOOLEAN /\ corrupt \in BOOLEAN)'
    BY DEF Inv, RemoveStaging, HistoryOK
  <2> QED
    BY <2>1, <2>2, <2>3, <2>4 DEF HistoryOK
<1>5. UnderWay'
  BY DEF RemoveStaging, ToStep, Fails, UnderWay
<1>6. DatabaseSafe'
  BY DEF RemoveStaging, ToStep, Fails, DatabaseSafe
<1>7. BooksSafe'
  BY DEF RemoveStaging, ToStep, Fails, BooksSafe, Aside
<1>8. Untouched'
  BY DEF Inv, RemoveStaging, ToStep, Untouched, Aside, UnderWay
<1>9. Reapplied'
  BY DEF Inv, RemoveStaging, Reapplied
<1>10. OwnWal'
  BY DEF Inv, RemoveStaging, ToStep, Fails, live, OwnWal
<1> QED
  BY <1>1, <1>2, <1>3, <1>4, <1>5, <1>6, <1>7, <1>8, <1>9, <1>10 DEF Inv

\* The database is opened.
LEMMA OpenInv ==
  ASSUME Inv, Open
  PROVE  Inv'
<1>1. RequestsNamed'
  BY DEF Inv, Open, ToStep, requests, RequestsNamed
<1>2. FilesOK'
  BY DEF Inv, Open, staging, FilesOK
<1>3. ControlOK'
  BY DEF Inv, Open, ToStep, requests, ControlOK, Steps
<1>4. HistoryOK'
  BY DEF Inv, Open, ToStep, HistoryOK
<1>5. UnderWay'
  BY DEF Open, ToStep, UnderWay
<1>6. DatabaseSafe'
  BY DEF Open, ToStep, DatabaseSafe
<1>7. BooksSafe'
  BY DEF Open, ToStep, BooksSafe, Aside
<1>8. NothingLost'
  BY DEF Inv, Open, NothingLost
<1>9. Untouched'
  BY DEF Inv, Open, ToStep, Untouched, Aside
<1>10. Reapplied'
  BY DEF Inv, Open, Reapplied
<1>11. OwnWal'
  BY DEF Open, OwnWal
<1> QED
  BY <1>1, <1>2, <1>3, <1>4, <1>5, <1>6, <1>7, <1>8, <1>9, <1>10, <1>11 DEF Inv

\* The server writes.
LEMMA WriteInv ==
  ASSUME Inv, Write
  PROVE  Inv'
<1>1. ControlOK' /\ HistoryOK' /\ RequestsNamed' /\ DatabaseSafe' /\ BooksSafe' /\ NothingLost'
      /\ Untouched'
  BY DEF Inv, Write, safety, requests, counters, history, ControlOK, HistoryOK, RequestsNamed,
         DatabaseSafe, BooksSafe, NothingLost, Untouched, Aside
<1>2. FilesOK'
  BY DEF Inv, Write, staging, safety, FilesOK
<1>3. UnderWay'
  BY DEF Write, UnderWay
<1>4. Reapplied'
  BY DEF Inv, Write, history, Reapplied
<1>5. OwnWal'
  BY DEF Write, OwnWal
<1> QED
  BY <1>1, <1>2, <1>3, <1>4, <1>5 DEF Inv

\* The server stops.
LEMMA CleanStopInv ==
  ASSUME Inv, CleanStop
  PROVE  Inv'
<1>1. HistoryOK'
  BY DEF Inv, CleanStop, Restart, history, HistoryOK
<1>2. FilesOK'
  BY DEF Inv, CleanStop, Restart, staging, FilesOK
<1>3. ControlOK'
  BY DEF Inv, CleanStop, Restart, ControlOK, Steps, ReqStates
<1>4. RequestsNamed'
  BY DEF CleanStop, Restart, RequestsNamed, Holding
<1>5. UnderWay'
  BY DEF CleanStop, Restart, UnderWay
<1>6. DatabaseSafe'
  BY DEF CleanStop, Restart, DatabaseSafe
<1>7. BooksSafe'
  BY DEF CleanStop, Restart, BooksSafe, Aside
<1>8. NothingLost'
  BY DEF Inv, CleanStop, Restart, history, NothingLost
<1>9. Untouched'
  BY DEF Inv, CleanStop, Restart, history, Untouched, Aside
<1>10. Reapplied'
  BY DEF Inv, CleanStop, Restart, history, Reapplied
<1>11. OwnWal'
  BY DEF CleanStop, OwnWal
<1> QED
  BY <1>1, <1>2, <1>3, <1>4, <1>5, <1>6, <1>7, <1>8, <1>9, <1>10, <1>11 DEF Inv

\* The process dies.
LEMMA CrashInv ==
  ASSUME Inv, Crash
  PROVE  Inv'
<1>1. FilesOK'
  BY DEF Inv, Crash, Restart, staging, FilesOK
<1>2. ControlOK'
  BY DEF Inv, Crash, Restart, ControlOK, Steps, ReqStates
<1>3. HistoryOK'
  BY BoundsAssumption DEF Inv, Crash, Restart, HistoryOK, ControlOK
<1>4. RequestsNamed'
  BY DEF Crash, Restart, RequestsNamed, Holding
<1>5. UnderWay'
  BY DEF Crash, Restart, UnderWay
<1>6. DatabaseSafe'
  BY DEF Crash, Restart, DatabaseSafe
<1>7. BooksSafe'
  BY DEF Crash, Restart, BooksSafe, Aside
<1>8. NothingLost'
  BY DEF Inv, Crash, Restart, NothingLost
<1>9. Untouched'
  BY DEF Inv, Crash, Restart, Untouched, Aside
<1>10. Reapplied'
  BY DEF Inv, Crash, Restart, Reapplied
<1>11. OwnWal'
  BY DEF Inv, Crash, Restart, OwnWal
<1> QED
  BY <1>1, <1>2, <1>3, <1>4, <1>5, <1>6, <1>7, <1>8, <1>9, <1>10, <1>11 DEF Inv

\* Every step keeps the invariant.
LEMMA StepInv == Inv /\ [Next]_vars => Inv'
<1> SUFFICES ASSUME Inv, [Next]_vars PROVE Inv'
  OBVIOUS
<1>1. ASSUME NEW r \in Requests, StageRestore(r) PROVE Inv'
  BY <1>1, AdmitInv, StageLockInv, StageClearInv, StageDatabaseInv, StageBooksInv, StageFailsInv,
     StageUndoInv,
     StageMarkerInv, StageGateInv
    DEF StageRestore
<1>2. CASE Apply
  BY <1>2, ReadMarkerInv, SafetyCopyInv, CopyTempInv, BooksOutInv, BooksInInv, SwapInv, UndoInInv,
     UndoOutInv, RemoveWalInv, RemoveMarkerInv, RemoveStagingInv, OpenInv
    DEF Apply
<1>3. CASE UNCHANGED vars
  BY <1>3
    DEF Inv, FilesOK, ControlOK, HistoryOK, RequestsNamed, UnderWay, DatabaseSafe, BooksSafe,
        NothingLost, Untouched, Reapplied, OwnWal, Aside, live, staging, safety, requests, counters,
        history, vars
<1> QED
  BY <1>1, <1>2, <1>3, WriteInv, CleanStopInv, CrashInv DEF Next

\* The inductive invariant holds in every reachable state, with any number of backups,
\* requests, crashes and failed steps.
THEOREM Invariance == Spec => []Inv
<1> QED
  BY InitInv, StepInv, PTL DEF Spec

\* The files on the disk, the start and the requests are always in a state they can be in.
THEOREM TypesHold == Spec => []TypeOK
<1>1. Inv => TypeOK
  BY DEF Inv, FilesOK, ControlOK, HistoryOK, TypeOK
<1> QED
  BY <1>1, Invariance, PTL

\* Whatever was live when the restore was asked for is still live or in a safety directory,
\* wherever the starts that apply it fail or are cut short (restore.go:50-91).
THEOREM NothingIsLost == Spec => []NothingLost
<1>1. Inv => NothingLost
  BY DEF Inv
<1> QED
  BY <1>1, Invariance, PTL

\* A restore that fails without being cut short, and whose rollback succeeds, leaves the
\* database and the books as they were, never one of each (restore.go:72-91).
THEOREM RollbackIsComplete == Spec => []RollbackComplete
<1>1. Inv => RollbackComplete
  BY DEF Inv, Untouched, RollbackComplete
<1> QED
  BY <1>1, Invariance, PTL

\* A backup that has been applied and served is applied again only when a start was cut
\* between the swap and the removal of the marker (restore.go:84-96).
THEOREM ReapplyNeedsCut == Spec => ReapplyOnlyIfCut
<1>1. Inv /\ [Next]_vars =>
        [pc = "swap" /\ pc' = "wal" /\ applied /\ served => cut \cap {"wal", "marker"} # {}]_vars
  BY BackupsAssumption DEF Inv, Reapplied, UnderWay
<1> QED
  BY <1>1, Invariance, PTL DEF Spec, ReapplyOnlyIfCut

\* The database is opened with the WAL of another one only when the start that replaced it
\* was cut before it had removed that WAL (restore.go:84-93).
THEOREM ForeignWalNeedsCut == Spec => ForeignWalOnlyIfCut
<1>1. Inv /\ [Next]_vars => [corrupt' /\ ~corrupt => "wal" \in cut]_vars
  <2> SUFFICES ASSUME Inv, Next, corrupt', ~corrupt PROVE "wal" \in cut
    OBVIOUS
  <2>1. Open
    BY DEF Next, StageRestore, Admit, StageLock, StageClear, StageDatabase, StageBooks, StageFails, StageUndo,
           EmptyStaging,
           StageMarker, StageGate, Apply, ReadMarker, SafetyCopy, CopyTemp, BooksOut, BooksIn, Swap,
           UndoIn, UndoOut, RemoveWal, RemoveMarker, RemoveStaging, Write, CleanStop, Crash, history
  <2> QED
    BY <2>1 DEF Open, Inv, OwnWal
<1> QED
  BY <1>1, Invariance, PTL DEF Spec, ForeignWalOnlyIfCut
=============================================================================
