------------------------------ MODULE Uploads ------------------------------
(***************************************************************************)
(* Chunked uploads (src/internal/services/uploadService.go): the sessions  *)
(* in memory, their directories under DATA_DIR/uploads, the recovery of    *)
(* the ones from the other at boot, and the task that removes stale        *)
(* directories (src/internal/services/maintenanceService.go).              *)
(*                                                                         *)
(* The sessions are those of one user: the count, the cleanup and the      *)
(* access check are per owner.  The client cuts a file into chunks of two  *)
(* units and may send each of them any number of times, in any order.      *)
(*                                                                         *)
(* Bounds: Uploads, and MaxIncidents of any kind: exits of the process,    *)
(* failures of a removal, of a write or of the queue's Enqueue, and        *)
(* directories that the task takes.                                        *)
(***************************************************************************)
EXTENDS Integers, FiniteSets

CONSTANTS
  Uploads,     \* upload ids, each a fresh uuid v7
  Chunks,      \* the chunks of a file
  Requests,    \* request handlers that run at the same time
  Limit,       \* UploadSessions, the sessions a user may have
  Nobody,
  MaxIncidents

ASSUME SetsAssumption ==
  /\ IsFiniteSet(Uploads) /\ IsFiniteSet(Chunks) /\ IsFiniteSet(Requests)
  /\ Nobody \notin Requests \cup Uploads \cup Chunks
  /\ Chunks # {} /\ Chunks \cap {"session.json", ".committing", "merged_file"} = {}
ASSUME BoundsAssumption == Limit \in Nat /\ MaxIncidents \in Nat

VARIABLES
  dir,       \* the upload directories that exist
  file,      \* file[u][n]: what directory u holds under the name n
  session,   \* s.sessions, and the removed flag of those still referred to
  bytes,     \* storedBytes
  chunks,    \* storedChunks
  count,     \* ownerCounts
  lock,      \* lock[u]: the request that holds the mutex of session u
  pc,        \* where request r stands
  sub,       \* the upload it is about
  idx,       \* the chunk it brings
  todo,      \* the expired sessions it has found
  phase,     \* "boot" while recoverSessions runs, then "up"
  unread,    \* the directories recoverSessions has not read yet
  victim,    \* the directory the boot or the task is removing
  expired,   \* uploads whose ExpiresAt has passed
  used,      \* the ids drawn so far
  incidents, \* how many of the incidents there have been
  imports,   \* history: how many times the content of u has become a book
  damaged,   \* history: uploads imported with content missing
  swept,     \* history: uploads whose directory the task has taken
  kept,      \* history: uploads where a removal failed or was cut by a crash
  refused    \* history: uploads whose import failed after the book was created

diskVars == <<dir, file>>
memVars == <<session, bytes, chunks, count>>
place == <<pc, sub, idx>>
reqVars == <<place, todo>>
bootVars == <<phase, unread, victim>>
timeVars == <<expired, used>>
history == <<imports, damaged, swept, kept, refused>>
vars == <<diskVars, memVars, lock, reqVars, bootVars, timeVars, incidents, history>>

Names == Chunks \cup {"session.json", ".committing", "merged_file"}
Contents == {"none", "empty", "cut", "whole"}
SessionStates == {"none", "live", "removed"}
Clearing == {"clear old", "clear new", "clear expired", "clear done"}
PCs == {"idle", "cleanup", "mkdir", "manifest", "lock chunk", "lock commit", "chunk", "copy", "mark",
        "check", "merge", "fill", "import", "remove", "unmark"} \cup Clearing

Live == {u \in Uploads : session[u] = "live"}
Stored(u, c) == {i \in Chunks : file[u][i] = c}
ChunkFiles(u) == Chunks \ Stored(u, "none")
BytesOnDisk(u) == Cardinality(Stored(u, "cut")) + 2 * Cardinality(Stored(u, "whole"))
TotalBytes == 2 * Cardinality(Chunks)

Incident == incidents < MaxIncidents /\ incidents' = incidents + 1
Put(u, n, c) == file' = [file EXCEPT ![u][n] = c]
Goto(r, label) == pc' = [pc EXCEPT ![r] = label] /\ UNCHANGED <<sub, idx>>
End(r) ==
  /\ pc' = [pc EXCEPT ![r] = "idle"]
  /\ sub' = [sub EXCEPT ![r] = Nobody] /\ idx' = [idx EXCEPT ![r] = Nobody]
Unlock(u) == lock' = [lock EXCEPT ![u] = Nobody]

-----------------------------------------------------------------------------
(* removeSession: under s.mu the session leaves the map and its slot is    *)
(* free; then os.RemoveAll deletes the files in any order, while the       *)
(* caller still holds the session's mutex.  Nobody sees how far it is,     *)
(* unless it fails or the process dies: then any part of them is left.     *)

Forget(u) ==
  /\ session' = [session EXCEPT ![u] = "removed"]
  /\ count' = count - 1
  /\ UNCHANGED <<bytes, chunks>>

\* The directory that request r is deleting.
Target(r) ==
  IF pc[r] = "clear new" THEN sub[r] ELSE CHOOSE u \in Uploads : lock[u] = r

Without(gone) ==
  file' = [u \in Uploads |-> [n \in Names |-> IF <<u, n>> \in gone THEN "none" ELSE file[u][n]]]
RemoveAll(u) == dir' = dir \ {u} /\ Without({u} \X Names)
RemovePart(U) == (\E gone \in SUBSET (U \X Names) : Without(gone)) /\ UNCHANGED dir

\* What follows the removal, complete or not: the next expired session, the error
\* of InitUploadSession, or the end of the request.
ClearEnds(r) ==
  /\ IF pc[r] = "clear old" THEN Goto(r, "cleanup") ELSE End(r)
  /\ IF pc[r] = "clear old" THEN todo' = [todo EXCEPT ![r] = @ \ {Target(r)}] ELSE UNCHANGED todo
  /\ IF pc[r] = "clear new"
     THEN count' = count - 1 /\ UNCHANGED lock
     ELSE Unlock(Target(r)) /\ UNCHANGED count
  /\ UNCHANGED <<session, bytes, chunks>>

ClearDone(r) ==
  /\ pc[r] \in Clearing
  /\ RemoveAll(Target(r))
  /\ ClearEnds(r)
  /\ UNCHANGED <<bootVars, timeVars, incidents, history>>

\* The error of os.RemoveAll is ignored.  CommitUpload still removes its marker.
ClearFails(r) ==
  /\ pc[r] \in Clearing
  /\ Target(r) \in dir
  /\ Incident
  /\ kept' = kept \cup {Target(r)}
  /\ RemovePart({Target(r)})
  /\ pc[r] = "clear done" => file'[Target(r)][".committing"] = "none"
  /\ ClearEnds(r)
  /\ UNCHANGED <<bootVars, timeVars, imports, damaged, swept, refused>>

Clear(r) == ClearDone(r) \/ ClearFails(r)

-----------------------------------------------------------------------------
(* InitUploadSession                                                       *)

\* cleanupExpired: the expired sessions, listed under s.mu.
InitUpload(r) ==
  /\ phase = "up" /\ pc[r] = "idle"
  /\ \E u \in Uploads \ used : sub' = [sub EXCEPT ![r] = u] /\ used' = used \cup {u}
  /\ todo' = [todo EXCEPT ![r] = Live \cap expired]
  /\ pc' = [pc EXCEPT ![r] = "cleanup"]
  /\ UNCHANGED <<diskVars, memVars, lock, idx, bootVars, expired, incidents, history>>

CleanupExpired(r) ==
  /\ pc[r] = "cleanup"
  /\ \E u \in todo[r] :
       /\ lock[u] = Nobody
       /\ \/ /\ session[u] = "live"
             /\ lock' = [lock EXCEPT ![u] = r]
             /\ Forget(u)
             /\ Goto(r, "clear old")
             /\ UNCHANGED todo
          \/ /\ session[u] = "removed"
             /\ todo' = [todo EXCEPT ![r] = @ \ {u}]
             /\ UNCHANGED <<memVars, lock, place>>
  /\ UNCHANGED <<diskVars, bootVars, timeVars, incidents, history>>

\* Faulty variant: the limit is compared with the count of the sessions before this one.
ReserveOneMore(r) ==
  /\ pc[r] = "cleanup" /\ todo[r] = {}
  /\ \/ count > Limit /\ End(r) /\ UNCHANGED count
     \/ count <= Limit /\ Goto(r, "mkdir") /\ count' = count + 1
  /\ UNCHANGED <<diskVars, session, bytes, chunks, lock, todo, bootVars, timeVars, incidents,
                 history>>

\* The slot is taken under s.mu, before there is a session to count.
Reserve(r) ==
  /\ pc[r] = "cleanup" /\ todo[r] = {}
  /\ \/ count >= Limit /\ End(r) /\ UNCHANGED count
     \/ count < Limit /\ Goto(r, "mkdir") /\ count' = count + 1
  /\ UNCHANGED <<diskVars, session, bytes, chunks, lock, todo, bootVars, timeVars, incidents,
                 history>>

\* Faulty variant: the slot of an upload that could not be set up is not given back.
MkdirLeaks(r) ==
  /\ pc[r] = "mkdir"
  /\ \/ /\ dir' = dir \cup {sub[r]}
        /\ Goto(r, "manifest")
        /\ UNCHANGED <<count, incidents>>
     \/ Incident /\ End(r) /\ UNCHANGED <<dir, count>>
  /\ UNCHANGED <<file, session, bytes, chunks, lock, todo, bootVars, timeVars, history>>

Mkdir(r) ==
  /\ pc[r] = "mkdir"
  /\ \/ /\ dir' = dir \cup {sub[r]}
        /\ Goto(r, "manifest")
        /\ UNCHANGED <<count, incidents>>
     \/ Incident /\ End(r) /\ count' = count - 1 /\ UNCHANGED dir
  /\ UNCHANGED <<file, session, bytes, chunks, lock, todo, bootVars, timeVars, history>>

\* os.WriteFile creates session.json and then fills it; at the end the session is
\* registered, with its slot already counted.
WriteManifest(r) ==
  /\ pc[r] = "manifest"
  /\ \/ /\ file[sub[r]]["session.json"] = "none"
        /\ Put(sub[r], "session.json", "cut")
        /\ UNCHANGED <<place, incidents>>
     \/ /\ file[sub[r]]["session.json"] = "cut"
        /\ Put(sub[r], "session.json", "whole")
        /\ UNCHANGED <<place, incidents>>
     \/ Incident /\ Goto(r, "clear new") /\ UNCHANGED file
  /\ file[sub[r]]["session.json"] # "whole"
  /\ UNCHANGED <<dir, memVars, lock, todo, bootVars, timeVars, history>>

Register(r) ==
  /\ pc[r] = "manifest"
  /\ file[sub[r]]["session.json"] = "whole"
  /\ session' = [session EXCEPT ![sub[r]] = "live"]
  /\ End(r)
  /\ UNCHANGED <<diskVars, bytes, chunks, count, lock, todo, bootVars, timeVars, incidents,
                 history>>

SetUp(r) == CleanupExpired(r) \/ Reserve(r) \/ Mkdir(r) \/ WriteManifest(r) \/ Register(r)

-----------------------------------------------------------------------------
(* lockSession: the session is looked up under s.mu, then its mutex is     *)
(* awaited, so it may have been removed in between.                        *)

Arrive(r) ==
  /\ phase = "up" /\ pc[r] = "idle"
  /\ \E u \in Live : sub' = [sub EXCEPT ![r] = u]
  /\ \/ /\ pc' = [pc EXCEPT ![r] = "lock chunk"]
        /\ \E i \in Chunks : idx' = [idx EXCEPT ![r] = i]
     \/ /\ pc' = [pc EXCEPT ![r] = "lock commit"]
        /\ UNCHANGED idx
  /\ UNCHANGED <<diskVars, memVars, lock, todo, bootVars, timeVars, incidents, history>>

Locked(r) == pc[r] \in {"lock chunk", "lock commit"} /\ lock[sub[r]] = Nobody

LockSession(r) ==
  /\ Locked(r)
  /\ \/ session[sub[r]] = "removed" /\ End(r) /\ UNCHANGED <<memVars, lock>>
     \/ /\ session[sub[r]] = "live" /\ sub[r] \in expired
        /\ lock' = [lock EXCEPT ![sub[r]] = r]
        /\ Forget(sub[r]) /\ Goto(r, "clear expired")
     \/ /\ session[sub[r]] = "live" /\ sub[r] \notin expired
        /\ lock' = [lock EXCEPT ![sub[r]] = r]
        /\ Goto(r, IF pc[r] = "lock chunk" THEN "chunk" ELSE "mark")
        /\ UNCHANGED memVars
  /\ UNCHANGED <<diskVars, todo, bootVars, timeVars, incidents, history>>

Return(r) == End(r) /\ Unlock(sub[r])

-----------------------------------------------------------------------------
(* SaveChunk                                                               *)

Room(u) == bytes[u] + 2 <= TotalBytes /\ chunks[u] < Cardinality(Chunks)

\* Faulty variant: the mutex stays locked when the chunk is refused.
ChunkRefusedLocked(r) ==
  /\ pc[r] = "chunk"
  /\ \/ ~Room(sub[r])
     \/ file[sub[r]][idx[r]] # "none"
     \/ sub[r] \notin dir
  /\ End(r)
  /\ UNCHANGED <<diskVars, memVars, lock, todo, bootVars, timeVars, incidents, history>>

\* The declared size is exceeded, the chunk is there already, or the directory is not.
ChunkRefused(r) ==
  /\ pc[r] = "chunk"
  /\ \/ ~Room(sub[r])
     \/ file[sub[r]][idx[r]] # "none"
     \/ sub[r] \notin dir
  /\ Return(r)
  /\ UNCHANGED <<diskVars, memVars, todo, bootVars, timeVars, incidents, history>>

\* Faulty variant: the declared size is only checked at the commit.
ChunkOpenUnchecked(r) ==
  /\ pc[r] = "chunk"
  /\ file[sub[r]][idx[r]] = "none" /\ sub[r] \in dir
  /\ Put(sub[r], idx[r], "empty")
  /\ Goto(r, "copy")
  /\ UNCHANGED <<dir, memVars, lock, todo, bootVars, timeVars, incidents, history>>

\* os.OpenFile with O_CREATE and O_EXCL
ChunkOpen(r) ==
  /\ pc[r] = "chunk"
  /\ Room(sub[r]) /\ file[sub[r]][idx[r]] = "none" /\ sub[r] \in dir
  /\ Put(sub[r], idx[r], "empty")
  /\ Goto(r, "copy")
  /\ UNCHANGED <<dir, memVars, lock, todo, bootVars, timeVars, incidents, history>>

\* io.Copy.  A file that the task has unlinked meanwhile stays unlinked.
ChunkCopy(r) ==
  /\ pc[r] = "copy"
  /\ \/ /\ file[sub[r]][idx[r]] = "empty"
        /\ Put(sub[r], idx[r], "cut")
        /\ UNCHANGED <<memVars, lock, place>>
     \/ /\ file[sub[r]][idx[r]] # "empty"
        /\ IF file[sub[r]][idx[r]] = "cut" THEN Put(sub[r], idx[r], "whole") ELSE UNCHANGED file
        /\ bytes' = [bytes EXCEPT ![sub[r]] = @ + 2]
        /\ chunks' = [chunks EXCEPT ![sub[r]] = @ + 1]
        /\ Return(r)
        /\ UNCHANGED <<session, count>>
  /\ UNCHANGED <<dir, todo, bootVars, timeVars, incidents, history>>

\* Faulty variant: the part of the chunk that did arrive is left.
ChunkFailsKeepsFile(r) ==
  /\ pc[r] = "copy"
  /\ Return(r)
  /\ UNCHANGED <<diskVars, memVars, todo, bootVars, timeVars, incidents, history>>

\* The body ends early, the client is gone, the disk is full: the file is removed,
\* and the error of that removal ignored.
ChunkFails(r) ==
  /\ pc[r] = "copy"
  /\ \/ Put(sub[r], idx[r], "none") /\ UNCHANGED <<incidents, kept>>
     \/ Incident /\ kept' = kept \cup {sub[r]} /\ UNCHANGED file
  /\ Return(r)
  /\ UNCHANGED <<dir, memVars, todo, bootVars, timeVars, imports, damaged, swept, refused>>

SaveChunk(r) == ChunkRefused(r) \/ ChunkOpen(r) \/ ChunkCopy(r) \/ ChunkFails(r)

-----------------------------------------------------------------------------
(* CommitUpload                                                            *)

\* Other metadata than the session's, no permission, a marker that is there
\* already, or no directory.
CommitRefused(r) ==
  /\ pc[r] = "mark"
  /\ Return(r)
  /\ UNCHANGED <<diskVars, memVars, todo, bootVars, timeVars, incidents, history>>

CommitMark(r) ==
  /\ pc[r] = "mark"
  /\ file[sub[r]][".committing"] = "none" /\ sub[r] \in dir
  /\ Put(sub[r], ".committing", "whole")
  /\ Goto(r, "check")
  /\ UNCHANGED <<dir, memVars, lock, todo, bootVars, timeVars, incidents, history>>

\* Faulty variant: the chunks are there, so their sizes are not added up.
CommitCheckPresence(r) ==
  /\ pc[r] = "check"
  /\ Goto(r, IF ChunkFiles(sub[r]) = Chunks THEN "merge" ELSE "unmark")
  /\ UNCHANGED <<diskVars, memVars, lock, todo, bootVars, timeVars, incidents, history>>

\* Every chunk is stat'ed; the sizes must add up to the declared total, and both to
\* what the session has counted.
CommitCheck(r) ==
  /\ pc[r] = "check"
  /\ Goto(r, IF /\ \A i \in Chunks : file[sub[r]][i] \in {"cut", "whole"}
                /\ BytesOnDisk(sub[r]) = TotalBytes
                /\ chunks[sub[r]] = Cardinality(Chunks) /\ bytes[sub[r]] = TotalBytes
             THEN "merge" ELSE "unmark")
  /\ UNCHANGED <<diskVars, memVars, lock, todo, bootVars, timeVars, incidents, history>>

\* merged_file is opened with O_EXCL.
CommitMerge(r) ==
  /\ pc[r] = "merge"
  /\ IF file[sub[r]]["merged_file"] = "none" /\ sub[r] \in dir
     THEN Put(sub[r], "merged_file", "cut") /\ Goto(r, "fill")
     ELSE UNCHANGED file /\ Goto(r, "unmark")
  /\ UNCHANGED <<dir, memVars, lock, todo, bootVars, timeVars, incidents, history>>

\* The chunks are appended in order; one that is missing, an error or the end of
\* the request's context ends the commit.
CommitFill(r) ==
  /\ pc[r] = "fill"
  /\ \/ /\ ChunkFiles(sub[r]) = Chunks
        /\ IF file[sub[r]]["merged_file"] = "cut" /\ Stored(sub[r], "whole") = Chunks
           THEN Put(sub[r], "merged_file", "whole") ELSE UNCHANGED file
        /\ Goto(r, "import")
     \/ Put(sub[r], "merged_file", "none") /\ Goto(r, "unmark")
  /\ UNCHANGED <<dir, memVars, lock, todo, bootVars, timeVars, incidents, history>>

\* ProcessSingleLocalFile, which copies the file and inserts book and file in one
\* transaction.  It fails without a trace, also because merged_file is gone, or,
\* for a library upload, after the insert, because the queue refuses a job.
CommitImport(r) ==
  LET u == sub[r] IN
  /\ pc[r] = "import"
  /\ \/ /\ Put(u, "merged_file", "none") /\ Goto(r, "unmark")
        /\ UNCHANGED <<incidents, imports, damaged, refused>>
     \/ /\ file[u]["merged_file"] # "none"
        /\ imports' = [imports EXCEPT ![u] = @ + 1]
        /\ damaged' = IF file[u]["merged_file"] = "whole" THEN damaged ELSE damaged \cup {u}
        /\ \/ Goto(r, "remove") /\ UNCHANGED <<file, incidents, refused>>
           \/ /\ Incident /\ refused' = refused \cup {u}
              /\ Put(u, "merged_file", "none") /\ Goto(r, "unmark")
  /\ UNCHANGED <<dir, memVars, lock, todo, bootVars, timeVars, swept, kept>>

\* Faulty variant: the files of the commit are removed, the session is left to expire.
CommitRemoveKeepsSession(r) ==
  /\ pc[r] = "remove"
  /\ Put(sub[r], "merged_file", "none")
  /\ Goto(r, "unmark")
  /\ UNCHANGED <<dir, memVars, lock, todo, bootVars, timeVars, incidents, history>>

CommitRemove(r) ==
  /\ pc[r] = "remove"
  /\ Forget(sub[r])
  /\ Goto(r, "clear done")
  /\ UNCHANGED <<diskVars, lock, todo, bootVars, timeVars, incidents, history>>

\* The deferred os.Remove(markerPath), whose error is ignored.
CommitUnmark(r) ==
  /\ pc[r] = "unmark"
  /\ \/ Put(sub[r], ".committing", "none") /\ UNCHANGED <<incidents, kept>>
     \/ Incident /\ kept' = kept \cup {sub[r]} /\ UNCHANGED file
  /\ Return(r)
  /\ UNCHANGED <<dir, memVars, todo, bootVars, timeVars, imports, damaged, swept, refused>>

CommitUpload(r) ==
  \/ CommitRefused(r) \/ CommitMark(r) \/ CommitCheck(r) \/ CommitMerge(r) \/ CommitFill(r)
  \/ CommitImport(r) \/ CommitRemove(r) \/ CommitUnmark(r)

-----------------------------------------------------------------------------
(* recoverSessions at boot, and the clean_orphan_uploads task, which knows *)
(* nothing of the sessions and deletes files under their hands.            *)

\* readSession: a manifest that can be parsed, and no empty chunk file.
Recoverable(u) ==
  /\ u \notin expired
  /\ file[u]["session.json"] = "whole" /\ Stored(u, "empty") = {}

RecoverSession(u) ==
  /\ Recoverable(u)
  /\ session' = [session EXCEPT ![u] = "live"]
  /\ bytes' = [bytes EXCEPT ![u] = BytesOnDisk(u)]
  /\ chunks' = [chunks EXCEPT ![u] = Cardinality(ChunkFiles(u))]
  /\ count' = count + 1
  /\ UNCHANGED <<diskVars, incidents, kept>>

\* Faulty variant: a directory that holds no session is passed over.
RecoverSkips(u) ==
  /\ ~Recoverable(u)
  /\ UNCHANGED <<diskVars, memVars, incidents, kept>>

RecoverRemoves(u) ==
  /\ ~Recoverable(u)
  /\ \/ RemoveAll(u) /\ UNCHANGED <<incidents, kept>>
     \/ RemovePart({u}) /\ Incident /\ kept' = kept \cup {u}
  /\ UNCHANGED memVars

Recover(u) ==
  /\ phase = "boot" /\ u \in unread
  /\ unread' = unread \ {u}
  /\ RecoverSession(u) \/ RecoverRemoves(u)
  /\ UNCHANGED <<lock, reqVars, phase, victim, timeVars, imports, damaged, swept, refused>>

Serve ==
  /\ phase = "boot" /\ unread = {}
  /\ phase' = "up"
  /\ UNCHANGED <<diskVars, memVars, lock, reqVars, unread, victim, timeVars, incidents, history>>

\* The newest file of the directory is over two hours old: any directory no request
\* is at work on may be, whether its session is open or not.
CleanOrphanUploads ==
  /\ phase = "up" /\ victim = Nobody
  /\ Incident
  /\ \E u \in dir :
       /\ \A r \in Requests : sub[r] # u /\ lock[u] # r
       /\ victim' = u /\ swept' = swept \cup {u}
  /\ UNCHANGED <<diskVars, memVars, lock, reqVars, phase, unread, timeVars, imports, damaged, kept,
                 refused>>

SweepFile ==
  /\ victim # Nobody
  /\ \E n \in Names : file[victim][n] # "none" /\ Put(victim, n, "none")
  /\ UNCHANGED <<dir, memVars, lock, reqVars, bootVars, timeVars, incidents, history>>

\* It ends with the directory, or with an error, which is ignored: the task also
\* meets one when a request adds a file meanwhile.
SweepDone ==
  /\ victim # Nobody
  /\ victim' = Nobody
  /\ dir' = IF \A n \in Names : file[victim][n] = "none" THEN dir \ {victim} ELSE dir
  /\ UNCHANGED <<file, memVars, lock, reqVars, phase, unread, timeVars, incidents, history>>

Sweep == CleanOrphanUploads \/ SweepFile \/ SweepDone

-----------------------------------------------------------------------------
(* Time, and the end of the process.                                       *)

Expire ==
  /\ \E u \in used \ expired : expired' = expired \cup {u}
  /\ UNCHANGED <<diskVars, memVars, lock, reqVars, bootVars, used, incidents, history>>

\* The directories that are being deleted at the moment.
HalfRemoved ==
  {Target(r) : r \in {q \in Requests : pc[q] \in Clearing}} \cup {u \in unread : ~Recoverable(u)}

Exit ==
  /\ Incident
  /\ RemovePart(HalfRemoved) /\ kept' = kept \cup HalfRemoved
  /\ session' = [u \in Uploads |-> "none"]
  /\ bytes' = [u \in Uploads |-> 0] /\ chunks' = [u \in Uploads |-> 0] /\ count' = 0
  /\ lock' = [u \in Uploads |-> Nobody]
  /\ pc' = [r \in Requests |-> "idle"]
  /\ sub' = [r \in Requests |-> Nobody] /\ idx' = [r \in Requests |-> Nobody]
  /\ todo' = [r \in Requests |-> {}]
  /\ phase' = "boot" /\ unread' = dir /\ victim' = Nobody
  /\ UNCHANGED <<timeVars, imports, damaged, swept, refused>>

-----------------------------------------------------------------------------
Init ==
  /\ dir = {} /\ file = [u \in Uploads |-> [n \in Names |-> "none"]]
  /\ session = [u \in Uploads |-> "none"]
  /\ bytes = [u \in Uploads |-> 0] /\ chunks = [u \in Uploads |-> 0] /\ count = 0
  /\ lock = [u \in Uploads |-> Nobody]
  /\ pc = [r \in Requests |-> "idle"]
  /\ sub = [r \in Requests |-> Nobody] /\ idx = [r \in Requests |-> Nobody]
  /\ todo = [r \in Requests |-> {}]
  /\ phase = "up" /\ unread = {} /\ victim = Nobody
  /\ expired = {} /\ used = {}
  /\ incidents = 0
  /\ imports = [u \in Uploads |-> 0]
  /\ damaged = {} /\ swept = {} /\ kept = {} /\ refused = {}

Proceed(r) == Clear(r) \/ SetUp(r) \/ SaveChunk(r) \/ CommitUpload(r)

Next ==
  \/ \E r \in Requests : InitUpload(r) \/ Arrive(r) \/ LockSession(r) \/ Proceed(r)
  \/ Sweep \/ (\E u \in Uploads : Recover(u)) \/ Serve
  \/ Expire \/ Exit

Spec == Init /\ [][Next]_vars

\* A request that can go on again and again does: goroutines are scheduled, and a
\* sync.Mutex is handed to a waiter that keeps waiting.  No client has to call.
Fairness == \A r \in Requests : SF_vars(LockSession(r) \/ Proceed(r))

FairSpec == Spec /\ Fairness
-----------------------------------------------------------------------------
(* Properties.                                                             *)

\* Types of the files, of the sessions and of the control state (uploadService.go).
TypeOK ==
  /\ dir \subseteq Uploads /\ file \in [Uploads -> [Names -> Contents]]
  /\ session \in [Uploads -> SessionStates]
  /\ bytes \in [Uploads -> 0..TotalBytes] /\ chunks \in [Uploads -> 0..Cardinality(Chunks)]
  /\ count \in 0..Cardinality(Uploads)
  /\ lock \in [Uploads -> Requests \cup {Nobody}]
  /\ pc \in [Requests -> PCs] /\ sub \in [Requests -> Uploads \cup {Nobody}]
  /\ idx \in [Requests -> Chunks \cup {Nobody}]
  /\ todo \in [Requests -> SUBSET Uploads]
  /\ phase \in {"boot", "up"} /\ unread \subseteq Uploads /\ victim \in Uploads \cup {Nobody}
  /\ expired \subseteq Uploads /\ used \subseteq Uploads
  /\ incidents \in 0..MaxIncidents
  /\ imports \in [Uploads -> Nat]
  /\ damaged \subseteq Uploads /\ swept \subseteq Uploads /\ kept \subseteq Uploads
  /\ refused \subseteq Uploads

SettingUp == {r \in Requests : pc[r] \in {"mkdir", "manifest", "clear new"}}

\* No slot leaks and none is given back twice: a user's count is the number of live
\* sessions and of uploads being set up, whatever expires, fails or is recovered
\* (uploadService.go:250-265, 328-335).
SlotsMatch == count = Cardinality(Live) + Cardinality(SettingUp)

\* The limit is only exceeded by sessions whose directory outlived their removal
\* and was recovered by the next process (uploadService.go:109-134, 252, 338).
LimitHolds == count <= Limit + Cardinality(kept)

\* What a session has counted is what its directory holds, whenever nobody is in
\* the middle of a chunk; so what survives a restart is continued where it stopped
\* (uploadService.go:175-176, 386-387).
CountsMatchDisk ==
  \A u \in Live \ (swept \cup kept) :
    lock[u] = Nobody => chunks[u] = Cardinality(ChunkFiles(u)) /\ bytes[u] = BytesOnDisk(u)

\* A book is only ever made of every chunk, each as it was sent: no crash in the
\* middle of a chunk, no recovery and no cleanup task gets a truncated file into
\* the library (uploadService.go:421-476).
ImportsAreIntact == damaged = {}

\* The content of an upload becomes one book, also when the process dies during or
\* after the import and the client tries again; unless the removal of the directory
\* was cut or failed, the task was at it, or the queue refused the book's jobs
\* (uploadService.go:411-419, 477, libraryService.go:389-393).
ImportsOnce == \A u \in Uploads : imports[u] > 1 => u \in kept \cup swept \cup refused

\* No directory is left behind without an owner that will remove it
\* (uploadService.go:126-130, 272-288, 338).
DirsOwned ==
  phase = "up" =>
    \A u \in dir \ kept :
      \/ u \in Live \cup {victim}
      \/ \E r \in Requests : pc[r] \in Clearing /\ Target(r) = u
      \/ \E r \in Requests : pc[r] = "manifest" /\ sub[r] = u

\* Every request returns: none waits for ever on a session's mutex, and none leaves
\* one locked (uploadService.go:194-200, 306-346).
RequestsReturn == \A r \in Requests : pc[r] # "idle" ~> pc[r] = "idle"

\* README.md:83 lists among the maintenance tasks "orphaned upload GC".  Then the task
\* takes no directory whose session is still open.
OnlyOrphansSwept == phase = "up" /\ victim # Nobody => victim \notin Live
=============================================================================
