# NovelHub: models, checks and proofs

NovelHub is a self-hosted library manager: one Go process (Fiber) over a SQLite database in WAL mode and a
data directory. This directory holds TLA+ modules of the parts whose correctness depends on the order of
steps (goroutines, restarts, file operations, failing writes), the TLC configurations that check them, and
TLAPS proofs. `PROJECT.json` maps every definition to the lines it models and lists runs, mutants, hazards
and findings.

## Inventory

| component | state | operations | what is hard | what makes it correct |
|---|---|---|---|---|
| job queue (`pkg/worker/queue.go`) | channel, pool, running jobs, `stopped`, context | Enqueue, EnqueueExisting, Start, process, StopContext | callers, dispatcher, workers and stop interleave; everything is lost at exit | a job is in one place; nothing accepted is lost; a stop drains |
| job service (`jobService.go`, `jobRepository.go`) | table `jobs` | status writes, Recover, prune | crash between effect and status write; dropped errors; batch limits | statuses move forward only; no repeat of recorded work; no row forgotten |
| restore (`restore.go`) | database, WAL, books, staging, marker, safety copies | ApplyPendingRestore | a sequence of renames, each may fail or be the last | nothing lost; all or nothing; applied once |
| backups (`backupService.go`, `systemgate`) | archives, staging directory, marker, gate | create, list, StageRestore | concurrent requests against the gate and the stop | only a validated staging is applied |
| uploads (`uploadService.go`) | sessions, slots, directories | init, chunk, commit, expire, recover | session lookup and session mutex are two steps; directories outlive the process | slots balance; only intact content is imported, once |
| maintenance (`maintenanceService.go`) | the same directories, the library | batch tasks run as jobs | works beside the services on their files | takes only what nobody owns |
| job schedules (`jobScheduleService.go`, `jobScheduleRepository.go`) | table `job_schedules`, a cache of its rows per process | ticker, claim, trigger, release, edits | crash between claim and trigger; release after a late success; several processes; stale cached rows | one run per interval, with what the row says, and none lost |
| sessions (`authService.go`, `userService.go`, `userRepository.go`, `jwtMiddleware.go`) | refresh-token list, token version, caches | sign-in, refresh, version check, twelve kinds of revocation | blind write against compare-and-set; cache filled after invalidation; version written back from a stale reading | a revoked session stays out; nobody ends another's session |
| podcasts (`podcastService.go`, `podcastRepository.go`, a trigger) | podcast, episodes, caches of both; books and their files | subscribe, edit, delete, refresh, download | a refresh or download takes minutes, in which rows, books and the whole library are edited and deleted; rows and files written one after the other; retries; covers saved late | settings kept; new episodes downloaded once; files, book and mark agree |
| one-time codes (`otpStore.go`, `totpService.go`, `magicCodeService.go`) | cache entries, rows | send, verify, consume, activate, poll | expiry against attempts; read and mark in two steps | used once, limited attempts |
| roles (`accessCache.go`, `roleService.go`) | role snapshot in memory | Reload, Can | two reads, unordered installs | the snapshot ends up current |
| caches (`pkg/cache`) | RAM cache, deferred invalidations | read-through, invalidate, flush | stale fill after an invalidation | no lasting stale value |
| settings, library, books, features, read lists, reader protocols, audiobooks, webhooks, trackers, audit, users | rows of SQLite | CRUD, imports, syncs | mostly one transaction per request | out of scope, see below |

How they interact: services call each other directly in one process. Uploads, podcasts, webhooks, schedules
and administrators call `Enqueue`; workers call the handlers of the services; `main` applies a pending restore
before it opens the database, then `SetupServer` recovers uploads and jobs before it starts the queue, the
schedules and the listener. The cleanup task is a job that deletes directories the upload service believes it owns.
Repositories put a read-through cache before the rows: a miss reads the row through a `singleflight` group and stores what it
read afterwards; a write changes the row and then deletes the keys. Three modules contain that pattern, because their
properties depend on what a late store can do.

## Modules

| module | models | used by |
|---|---|---|
| `JobLifecycle` | what readers of the `jobs` table may rely on | refined by `JobQueue` |
| `JobQueue` | queue, job service and their SQL, with process exits | `MCJobQueue`, `JobQueueProofs` |
| `JobQueueProofs` | the theorems | |
| `Restore` | StageRestore, ApplyPendingRestore, start and stop | `MCRestore`, `RestoreProofs` |
| `RestoreProofs` | the theorems | |
| `Uploads` | upload service, its recovery, the cleanup task | `MCUploads`, `UploadProofs` |
| `UploadProofs` | the theorems | |
| `JobSchedule` | the schedules and the loops of several processes over them | `MCJobSchedule`, `JobScheduleProofs` |
| `JobScheduleProofs` | the theorems | |
| `Sessions` | tokens, refresh-token list and version of one account behind their cache | `MCSessions`, `SessionProofs` |
| `SessionProofs` | the theorems | |
| `Podcasts` | one podcast, its episodes and their books, refresh and download jobs | `MCPodcasts`, `PodcastProofs` |
| `PodcastProofs` | the theorems | `PodcastCopyProofs` |
| `PodcastCopyProofs` | the theorem about second copies | |

Each module starts with the code it models. The *faulty variants* in the modules (`AcceptWhenFull`,
`RecoverSkips`, ...) are not part of any specification: each is a plausible bug of the operator that follows it,
and substituting it must make a property fail.

### JobQueue

A job is a row plus at most one copy in memory. `row` is the table; `chan`, `pool`, `pc/cur/attempt` are the
channel, pond's submit queue and the workers; `call[j]` is the goroutine inside `enqueue`. `enqueue` is cut where
the code can be overtaken: reading `stopped` (`EnqueueStart`), the insert (`Queued`), the `select` (`Accept`,
`Reject`), the failing of a refused row (`RejectFailed`). `process` is cut at every status write and handler call.
Boot is `BootMark`, `BootList`, `Requeue`, `RequeueDone`, `BootPrune`, `BootStart`, in the order of `Recover` and
`SetupServer`. `Exit` stands for a kill, a `log.Fatal` during boot and the end of a graceful stop, whose wait gives up
after five seconds. A write under `q.ctx` is lost once `StopCancel` has happened; a write under `context.Background()`
only if the database refuses it; a write that returns an error is taken not to have been committed. The recovery batch and the rows that pruning keeps are any sets of the right size:
`created_at` and `updated_at` have a resolution of a second. `Failed` also dispatches a webhook event, which is one
more caller of `Enqueue`.

### Restore

Files are variables whose value is the version they came from. Each file operation of `ApplyPendingRestore` is an
action with its success, its failure (within `MaxFaults`) and the code's reaction; `Crash` may follow any of them.
`cut` remembers which steps were interrupted or failed silently, because three of the promises hold only up to these:
`ReapplyOnlyIfCut` and `ForeignWalOnlyIfCut` say exactly which interruption can break them. Two starts within one second
share the name of the safety directory; the copy then fails on `O_EXCL`, which is the failure of `SafetyCopy`. The
auto-restart of `StageRestore` is `CleanStop`, which may come at any time. `os.RemoveAll` of the staging directory takes the
database and the books one after the other (`RemovesPart`) and may be cut in between or fail: at the start of a request that ends it,
after a failed extraction nobody notices. The `os.WriteFile` of the marker may fail before or after it has truncated the file.

### Uploads

The sessions of one user: count, cleanup and access check are per owner. A chunk has two units, so a file can be
missing, empty, cut or whole. The session's mutex is `lock`; waiting for it is a separate step from looking the
session up, so the session may be gone. `os.RemoveAll` is one step unless it fails or the process dies in it, when any
part is left (`kept`). `CleanOrphanUploads` deletes file by file without any lock; a directory is old enough for it
once no request is at work on it, which the two-hour cutoff allows and no code forbids. An import is one
step of the commit, with three outcomes: no trace, a book, a book whose jobs the queue refused. After a crash the
leftover marker and the leftover `merged_file` each refuse a second commit by themselves, which TLC confirms by
taking either away.

### JobSchedule

`runDue` is cut where another process, a request or the clock can come between: `ListDue` (the ids), `GetByIDs` (cached or
read), `StoreRows`, and per schedule `Claim`, `Trigger`, `ReleaseClaim`. A row carries the number of the write that made
it, so an outdated cached row is told from a current one. The 30 seconds of a `runDue` may run out anywhere (`Expire`);
every later statement then fails. The release may fail by itself as well (a busy database, a full disk): its error is
dropped (jobScheduleService.go:192), so the claim stays and its slot is lost. The queue is its contract: it accepts a job
or refuses it, and an accepted job may still not be read back. Five things break a promise one might expect, and the
properties name them: an edit through another process leaves this one's cache alone (up to 15 minutes of old tasks); a row
read before an edit may be cached after it; a claim given back after an edit makes the first run come early; **a job that the queue took
and that could not be read back (jobService.go:134-139) counts as refused, so its claim is given back and the schedule runs a second time
a minute later** (fate "unread" in `NeverEarly`); a refused job whose release fails loses its slot (`LostOnlyIfCut`).

### Sessions

A pair of tokens is a number with the version it carries and the session it belongs to. `Lookup`, `FlightReads`,
`FlightStores` are the read-through cache: a caller who finds a call on its way joins it. A revocation reads the account
(through the cache, or past it, or in its own transaction), commits, and invalidates in a step of its own; the
middleware's check and the handler's read of the row are two steps. The statement and the deletion of the keys that follows it
are one step for refresh and sign-in, whose reader in between is a reader before. An UPDATE of a deleted account matches no
row. A session counts as dead when the revocation has returned. `RevocationFinal` has three exceptions, each found by TLC and each
real: a version stored in the cache after the invalidation (until it expires, 15 minutes at most); a revocation that
writes a version it read too early, so that the version does not grow; and a refresh that passed the check before a
revocation which keeps the list, and read the new version after it. Without any of the three the run fails.
The twelve revocations are records, one per handler, that say where the handler reads the account, which account it skips,
which version it writes, whether it clears the list, and what its statements do with a deleted account; `Revoke`, `ReadRow`,
`Commit` and `Invalidate` carry them out. The bulk ones (`userService_bulk.go`) read through `GetByIDs`, which also finds
deleted rows, and are followed for one of their accounts. An update of one user with `revoke_sessions`
(`userService.go`) revokes with the same statement as `BulkUpdateUserInfo` and has no record of its own. Activating a magic code
(magicCodeService.go:94-99) also issues a token, with a version it may have read from the cache; it is outside the model, so
`RevocationFinal` and `SignedInIsAdmitted` say nothing of the tokens it issues.

### Podcasts

One podcast whose feed lists all of `Guids` from the beginning of a refresh on; a shorter feed makes a refresh do the first part of what it
does here. Every job carries what it has read (`copy`, `known`, `book`); a copy knows when it was true, and a cached value
whether the row had moved on when it was stored. `Returned` is the queue's retry from the start of the handler, `Crash` its recovery:
waiting jobs survive, running ones are failed. The UPDATE and the deletion of the cache key are one step (who reads the cached
copy in between might have read it before). "Refresh all" goes through a cached list of ids that only the deletion of a book clears, so it may skip the podcast.

What happens to the books is part of the module, because files, rows and marks are three stores that only agree step by step:

* `DeleteBook` commits, and with it a trigger resets the episodes (`Dropped`) and the deletion clears `podcasts:*`
  (bookCatalogRepository.go:752; `TestPodcastEpisodeDeleteBookTrigger` asserts it); `RemoveFiles` follows. A download that had read the
  episode before may still store an outdated answer after that. Deleting several books (bookService_bulk.go:64-86), the last file of one
  (bookService_files.go:165-185), merging (bookService_merge.go:60-93) and the maintenance task for missing files
  (maintenanceService.go:222-240) go through the same two steps.
* `Purge`, `PurgeLists`, `PurgeDeletes`, `PurgeEnds` are `ProcessDeleteLibrary`: list the books, delete them and their directories, and
  again until a list is empty or fails, then delete the library. The statement's error is only logged and the directories go all the same, which leaves
  books without files (`spoiled`). The last statement cascades to the podcast and to books that came after the last list; their files stay
  (`strays`). The list comes from a cache that readers share, so "after the last list" may be some minutes.
* `ReadsBook`, `SavesCover` are the `extract_metadata` job that follows a download and `UpdateCover`: read the book, work on it,
  then `SaveCover`, which makes the directory if it is not there (bookFileRepository.go:243-247). When the book was deleted
  in between, that leaves a directory nobody owns. Files that are converted (bookService_convert.go:115) or added to a book
  (bookService_files.go:68) or merged into it are saved in the same way. The other job that follows a download, `hash_file`, only reads the file.

The exceptions that TLC found
necessary, or that the properties name after the code: two downloads of an episode at once, a book that could not be marked or lost its
mark to another copy, or a cached answer stored after the marking make a second copy; a refresh or an edit that had read the podcast before a
setting was saved undoes it; an episode inserted just before a failed enqueue is known to the retry and never downloaded;
`DownloadedIsPlayable` excepts books of a library whose deletion statement failed; `NoStrayFiles` excepts what a fault, a late
cover or the cascade of a library deletion left behind. The last two of these need no fault at all.

## Checks

Every property of a passing run is broken by a mutant listed in `PROJECT.json`.

| run | instance | shows |
|---|---|---|
| `JobQueue` | 2 jobs, 2 workers, channel 1, keep 1, 1 exit, 1 refused write (0.5 M states) | `SingleCopy`, `InFlightUnfinished`, `NoOrphanRow`, `RerunOnlyUnrecorded`, `RejectedNeverRuns`, `RecoveryFits`, refinement of `JobLifecycle`; `AcceptedFinishes`, `StopDrains` |
| `JobQueueBackpressure` | 4 jobs, 1 worker | violates `ChannelIsOnlyBound` |
| `JobQueueDrain` | 1 job, no failure | violates `RunningIsRunning` |
| `RestoreSafe` | 2 backups (one with books), 2 requests, 2 crashes, 2 failures (0.4 M states) | `NothingLost`, `RollbackComplete`, `ReapplyOnlyIfCut`, `ForeignWalOnlyIfCut`, `RestoreCompletes` |
| `RestoreValidated` | no crash, no failure | violates `OnlyValidatedApplied` |
| `RestoreMixed` | 1 crash | violates `StartsWithCurrentData` |
| `UploadsContent` | 1 upload of 2 chunks, 3 requests, 3 incidents (0.4 M states) | `CountsMatchDisk`, `ImportsAreIntact`, `ImportsOnce` |
| `UploadsSlots` | 2 uploads of 1 chunk, 2 requests, limit 1, 1 incident (0.4 M states) | `SlotsMatch`, `LimitHolds`, `DirsOwned`, `RequestsReturn` |
| `UploadsSwept` | 1 upload, 1 incident | violates `OnlyOrphansSwept` |
| `JobSchedule` | 2 processes, 1 schedule of interval 2, 3 time units, 2 writes, 1 fault (1.9 M states) | `NeverEarly`, `OutdatedIsExplained`, `LostOnlyIfCut`, `DueIsServed` |
| `Sessions` | 3 handlers, 4 requests, 3 tokens, 2 per account, 2 tries (2.4 M states) | `RevocationFinal`, `RotatedOnce`, `NoSessionLost`, `SignedInIsAdmitted` |
| `Podcasts` | 1 episode, 2 jobs on 2 workers, 2 attempts, 2 books, 1 setting, library deletion or cover, 1 fault (3.6 M states) | `DownloadedIsPlayable`, `SecondCopyExplained`, `NoStrayFiles`, `SettingKept`, `NewIsQueued` |

Why the bounds suffice. Two jobs with a channel of one and two workers bring a refused, a waiting and a running job about, two
at a time; one restart separates two lives, and the theorems below cover all sizes of the safety part. Two crashes let the
start after a crash crash again; two failures let the rollback of a failure fail. Upload content is per directory, so one
upload with two chunks, three requests and three incidents shows missing, cut and repeated chunks across several
restarts; slots are about several uploads, so two of them compete for one slot there. A schedule is on its own, so one suffices; two
processes list, claim and release it against each other, and three time units hold a claim, its release and the next run. Three
handlers are one that fills the cache, one that revokes and one that presents a token; four requests let the session of a
sign-in be revoked and presented again. A failing release counts as no fault, so it is there beside every crash. Two jobs are a refresh and
the download it enqueues, or two downloads of the same episode, each with a second attempt (with two faults the run has
9.3 M states and finds nothing either). One setting, library deletion or cover per behaviour keeps the instance small (`MaxEdits` is their
common budget); one library deletion and one cover are under way at a time, a deletion takes all listed books in one batch (the code: 500), and
the podcast stays in its library. The run never has more jobs than workers, so the limit on running jobs is left to the
theorem `TypeCorrect`, as is what three downloads can do to `SecondCopyHasReason`.
The theorems cover any settings, episodes, jobs, books and faults. `CHECK_DEADLOCK` is off where
the system may stop: job ids, upload ids, requests and faults are finite in the models, and nobody has to call.
Symmetry (interchangeable handlers and jobs) is used in `Sessions`, `Podcasts` and `UploadsContent`, which check safety only.

### Violations

The five violating runs state what the repository says of itself and show where the code does otherwise:

* `JobQueueBackpressure`: the comment at `queue.go:89` says the channel is the only bound, but `Start` moves every job on into
  pond's unbounded queue, so `ErrQueueFull` appears only while the dispatcher has not caught up.
* `JobQueueDrain`: a job that ends during the drain writes its result under the cancelled context. Its row stays
  "running" and the next start records 'server restarted while job was running'.
* `RestoreValidated`: staging clears and refills the directory that an earlier marker points to. A second request already
  past the gate, and a stop in the middle of its clearing or extraction, lead to half a books directory going live.
* `RestoreMixed`: after a crash between the two swaps the next start cannot finish, undoes its own part of the work
  and serves the old database with the restored books, although the log says "starting with current data".
  `NothingLost` still holds: the old books are in the first attempt's safety directory.
* `UploadsSwept`: "orphaned upload GC" judges by file times, with a cutoff of two hours, and sessions live six.
  `ImportsAreIntact` still holds: the commit notices.

### Fairness

`JobQueue`: weak fairness of the dispatcher, of each worker and of the boot sequence; these are goroutines that
can run. A handler is called with a timeout of one hour, so it returns. No fairness for callers, administrators, stop
or exit. `Restore`: weak fairness of the boot sequence. `Uploads`: strong fairness per request, since a request may be
waiting for a mutex that others take in turn, and Go's `sync.Mutex` hands itself to a waiter that has waited
for a millisecond. The maintenance task and the clients are under no obligation. `JobSchedule`: weak fairness of each
process's loop, a goroutine woken by a ticker and never blocked for good, since its statements have a timeout; the clock, requests and crashes
are under no obligation. `Sessions` and `Podcasts` state no liveness: whether a request or a job ends is the queue's and the
server's business.

## Proofs

`JobQueueProofs` proves, for any finite set of jobs, any set of workers, any capacity, `Keep` and bounds (the assumptions
named in `JobQueue`):

| theorem | property |
|---|---|
| `TypeCorrect` | `TypeOK` |
| `NeverTwoCopies` | `SingleCopy` |
| `MemoryMatchesRows` | `InFlightUnfinished` |
| `ImplementsLifecycle` | `LifecycleSpec` |
| `RerunsWereUnrecorded` | `RerunOnlyUnrecorded` |
| `RejectedStaysDead` | `RejectedNeverRuns` |
| `RecoveryNeverRefuses` | `RecoveryFits` |
| `NoRowForgotten` | `NoOrphanRow` |

The argument is a stack of inductive invariants, each relying on those before it.

* `TypeInv` adds to the types that a busy worker holds a job and that a worker in its backoff has attempts left.
* `IInv` is why a job is never in two places. `SingleCopy` is not inductive: it breaks if a caller could send a job that is
  already in memory, or a boot could requeue one. So `CallInv` says that a job whose call has not finished is nowhere in memory and its
  row is still "none" or "pending"; `BootInv` says that during boot nothing is in memory but what was requeued, and that what is
  still to be requeued is not; `RowInv` ties memory to rows, so that pruning, which takes finished rows only, cannot touch them.
* The refinement follows from `TypeInv` and `IInv` action by action (`LifecycleStep`).
* `HistoryInv` says which row a job that was started must have, unless the write of its start was lost.
* `FitInv` counts channel and batch together, which is what the requeueing keeps constant.
* `HeldInv` says who holds each unfinished row from the listing on.

`PodcastProofs` proves, for any episodes, jobs, settings, workers and bounds (`PodcastAssumption`):

| theorem | property |
|---|---|
| `TypeCorrect` | `TypeOK` |
| `PlayableAlways` | `DownloadedIsPlayable` |
| `NoStrayFilesAlways` | `NoStrayFiles` |
| `SettingKeptAlways` | `SettingKept` |
| `NewIsQueuedAlways` | `NewIsQueued` |

* `Inv` adds to the shapes what the place of a job says of its fields: a job past `GetPodcast` holds a copy no younger than the last edit,
  one that creates or marks has a book. One lemma per action (`SubscribeInv`, ..., `EvictInv`) keeps it. `TypeOK` also says that
  at most `Workers` jobs run, which is an argument about cardinalities (`FewerRun`, `FewRun`): only `Start` adds one.
* `BookInv` follows a book from its files to its row and back. `NoStrayFiles` is not inductive, because two downloads that shared a book could
  remove each other's files; so it says that book ids are fresh (`books.dirs \subseteq 1..books.used`), that a book being created
  belongs to one job, and that files under removal have no row. A library deletion may list books that are gone
  by the time it removes them, so files under removal either have no row or belong to a book the failed statement has `spoiled`. And a cover
  under way names a book that has been created, so that saving it cannot take part in a download.
* `SettingInv` says that every copy of the podcast that anybody may write back, the cached one included, says what the administrator wants or is known to
  be stale, as long as nothing was undone with an excuse. It also says that nothing exists before the subscription.
* `QueueInv` says that what a refresh or the cache holds to be known is in the table, so whoever inserts an episode takes it for
  new; it needs `SettingInv` for the setting the refresh works with.

`PodcastCopyProofs` proves, from the same assumption:

| theorem | property |
|---|---|
| `SecondCopyHasReason` | `SecondCopyExplained` |

The invariant `CopyInv` relates all downloads of an episode, its books, its mark and the cached answer, on top of `Inv` and `BookInv`.

* `Sure` is a download with no reason to expect a copy: it ran on its own and had an answer that was not late. `SureOK` says that it
  is right, all copies there are were left unmarked. It becomes sure at the test of the answer, so this needs `AnswersOK` (a cached "not
  downloaded" that is not late is true) and `MarksOK` (a copy is the mark, is about to be marked, or is one of those left unmarked).
* `OverlapOK` says that of two running downloads of an episode both know it, so that a copy about to be marked belongs to a download the
  sure one would have met.
* `TableOK` and `BooksOfOK` keep what a job or a book is about in the table: only with the podcast do episodes go, and then no copy is made any more.
* `LaterOK` covers the order of ids: a book that was numbered first may be created last.

The deletion of the library breaks `AnswersOK`, because it leaves the cache of podcasts alone. It does so for good: no book can be created in a library
that is gone, so the invariant is `CopyInv \/ Emptied`, and `Emptied` (the library is gone and has no books) keeps itself (`EmptyStays`).

The attempt to prove it showed that the property, as first stated, held only within the bounds of its run. Two overlapping downloads make
two books, the second takes the mark from the first and is deleted, and a third download, on its own and correctly told that the
episode is not downloaded, puts a third book beside the first. So `unmarked` now also records the book that `Marks` takes the
mark from.

`RestoreProofs` proves, for any backups, requests and bounds, with no assumption on the constants but those of `Restore`:

| theorem | property |
|---|---|
| `TypesHold` | `TypeOK` |
| `NothingIsLost` | `NothingLost` |
| `RollbackIsComplete` | `RollbackComplete` |
| `ReapplyNeedsCut` | `ReapplyOnlyIfCut` |
| `ForeignWalNeedsCut` | `ForeignWalOnlyIfCut` |

One invariant, `Inv`, says for every step of a start where the previous version is. `NothingLost` alone is not inductive: `Swap`
overwrites the database, so `DatabaseSafe` says that it has been copied by then, and `BooksIn` overwrites what is in
`DATA_DIR/books`, so `BooksSafe` says that nothing is there and the copy or a stash has the books. `Untouched` says, for starts that were not
cut, what each later step of the rollback will find. `UnderWay` and `RequestsNamed` say that a start under way works on a complete
backup. `Reapplied` and `OwnWal` turn the two action properties into state predicates: a marker that names an applied backup, and a
log that is not the database's, exist only between the two operations in question or after a cut there.

`JobScheduleProofs` proves, for any processes, schedules, tasks and bounds:

| theorem | property |
|---|---|
| `TypesHold` | `TypeOK` |
| `OncePerInterval` | `NeverEarly` |
| `OwnEditsAreSeen` | `OutdatedIsExplained` |
| `NoSlotIsLost` | `LostOnlyIfCut` |

The assumptions it needs are that an interval is longer than one unit of time, so that the slot a claim moves on to is past what the
30 seconds of a `runDue` can reach (`Tick` lets one unit pass in it), and longer than `RetryAfter`, one minute; the code refuses
intervals under five minutes (jobScheduleService.go:58). `OncePerInterval` is about claims, and about runs as far as a claim that was not given back goes:
one that was, also by a job that runs but could not be read back, is followed by the next after `RetryAfter` only.
`NoSlotIsLost` holds up to a release that was tried and failed. `Inv` ties three things together. `NextOK` says that the row's `next_run_at` is late enough for every claim of its version that has taken
its slot and for the edit that made it; that is what makes the conditional UPDATE of `Claim` sufficient, and `ClaimsLate` is
`NeverEarly` in the same words. `HandsOK` says that while a loop has a claim in hand and its time has not run out, nobody else has claimed
the schedule: without it, giving back a claim could reopen the slot of another. `RunsOK` and `ClaimsOK` say which fate a claim has
at which step and that claims of a schedule follow its versions. `EntriesOK` and `DueOK` follow a version from the row into the caches
and the list of a loop: whoever has missed an edit has missed another process's or has read around it, or the row will
refuse the claim.

`SessionProofs` proves, for any handlers, limits and bounds (`SessionAssumption`: no handler is called like a cache key):

| theorem | property |
|---|---|
| `TypesHold` | `TypeOK` |
| `RevokedStaysOut` | `RevocationFinal` |
| `ExchangedOnce` | `RotatedOnce` |
| `SessionsAreKept` | `NoSessionLost` |
| `NobodyThrownOut` | `SignedInIsAdmitted` |

The invariant speaks of what a request holds (`RequestOK`), and one lemma (`Kept`) shows that this stays true whatever others do: tokens are
only added, and the version is the row's as long as no revocation is counted. So each action has to answer for its own request only.
`Fresh` is that version argument, and with it a token is refused only after a revocation. `TokensOK` and `RevokedOK` say that the
row's version is past the versions of all tokens a revocation has covered, already at its commit, unless it is excused or the
account is deleted; `CacheOK` carries this over to what the cache says once the revocation has dropped its keys, and
`RequestOK` to a request that has read the cache. `SpentOK` is the mutual exclusion of the compare-and-set: a
token that was exchanged is not in the list, so no second comparison can succeed, but for the sign-ins that write back.
The proof found a hole in an earlier version of the model, beyond the bounds of the run: a call that reads the account just before
its deletion and stores just after it was not counted as late when the deletion did not raise the version. A value is
now late when either the version or the deletion has moved on. The sequence (six requests) ends with an access token accepted from the cache, after the revocation of the
session of a deleted account; it is the first of the races listed under `Sessions`.

`UploadProofs` proves, for any finite sets of uploads, chunks and requests, any limit and any number of incidents (`SetsAssumption`,
`BoundsAssumption`):

| theorem | property |
|---|---|
| `TypesHold` | `TypeOK` |
| `NoSlotLeaks` | `SlotsMatch` |
| `LimitIsKept` | `LimitHolds` |
| `TalliesAreTrue` | `CountsMatchDisk` |
| `OnlyWholeFiles` | `ImportsAreIntact` |
| `NoDuplicates` | `ImportsOnce` |
| `NoneAbandoned` | `DirsOwned` |

All seven follow from one invariant (theorem `Invariance`). Everything rests on mutual exclusion: `PlaceOK` says that a request past its
look-up holds the mutex of the session it works on or removes, and that a new upload is known to nobody else; `LocksOK` says the converse,
that a mutex is held by one request and for that session. Hence the lemma `Step`: a step of a request changes what belongs to one
upload that no other request is about (`Alone`, `Moves`), so each action has to answer for that upload only. None of the properties is
inductive by itself:

* `SlotsOK` counts the uploads that hold a slot as one set, `Counted`, since a step may turn an upload being set up into a session and leave the
  count. `SlotsMatch` then needs that no two requests set up the same upload and none sets up a live session.
* `RoomOK` carries the limit across restarts: what recovery has still to read counts as well, and `DirsOK` says that every directory is a
  session, unread, or being removed, so the directories a process leaves behind are no more than the sessions it had room for.
* `Tally` says what a session has counted while a chunk is being written: its directory but for that chunk. `Room` keeps bytes and chunks
  within their declared totals, and with them `Complete`: when the sizes add up to the total, every chunk is there and whole, from which `ImportsAreIntact`
  follows. The merge does not rely on the directory staying as it was checked, because the cleanup task may be at it.
* `Once` says that what has become a book has its marker, or no directory, and that nobody is committing it.

Outside the prover's reach and left to TLC: the liveness properties (`AcceptedFinishes`, `StopDrains`, `RequestsReturn`, `RestoreCompletes`,
`DueIsServed`), since they need `ENABLED`. Every invariant that a
passing run checks is a theorem.

## Not modelled

* Several processes (`ENABLE_PREFORK`): `JobSchedule` has them; the other models have one process. In particular a recovery that
  runs beside the queues of other processes, and their separate caches of account rows (the version check then skips the cache), are not covered.
* Loss of disk content at power failure: a crash is the end of the process, and what the process wrote stays written.
* The read-through cache of the job list: its readers only display it, and `Recover` reads it after an invalidation.
* Data races on shared memory: callers that join a `singleflight` call get one shared entity, and `UpdatePodcast` writes into it
  (podcastService.go:341).
* The check-then-act of `Reorder` (readListService.go:185), a pair of statements: a book added in between leaves a duplicate position.
* Creating backups, library scans, the content of jobs, reader protocols, audiobooks, webhooks, trackers, settings:
  database transactions over single rows, or I/O with other systems.
* Book parsers, converters, waveforms, card export: pure functions over file formats.
* Controllers, routes, middlewares, the web client, generated code.

## Plan

1. (done) `JobLifecycle`, `JobQueue`, its proofs; `Restore`; `Uploads`.
2. (done) `JobSchedule`; `Sessions`; `Podcasts` and its proofs.
3. `OneTimeCodes`: OTP entries with attempts, cooldown, expiry and tickets, TOTP replay window, recovery and magic codes.
   `AccessCache`: concurrent reloads against role changes.
4. A variant of `JobQueue` in which a second process recovers while the first one works, as `ENABLE_PREFORK` allows.
5. (done) Proofs of `Restore`, `JobSchedule`, `Sessions` and `Uploads`, and of `SecondCopyExplained` of `Podcasts`.
6. Runs stay at one per question: safety and liveness of a module share a run where the instance allows it.
