------------------------------ MODULE Podcasts ------------------------------
(***************************************************************************)
(* One podcast: its settings, the episodes its feed has brought, the books *)
(* made of downloaded episodes, the jobs that refresh and download         *)
(* (src/internal/services/podcastService.go), the cache in front of the    *)
(* rows (src/internal/repositories/podcastRepository.go), and what takes   *)
(* books away or writes into their directories: the deletion of a book     *)
(* and of the whole library, and the saving of a cover                     *)
(* (src/internal/services/bookService.go, libraryService.go).              *)
(*                                                                         *)
(* The background queue is what JobQueue shows it to be: a job starts in   *)
(* any order, at most Workers run at once, a failed one is tried again, a  *)
(* queued one survives a crash and a running one does not.                 *)
(***************************************************************************)
EXTENDS Naturals, FiniteSets

CONSTANTS
  Guids,      \* the episodes of the feed
  Jobs,       \* bound: the jobs that may be enqueued
  Settings,   \* what a request may say of auto_download, None if nothing
  Workers,    \* how many jobs run at once
  Attempts,   \* how often the queue calls a handler that fails
  None,
  MaxBooks,   \* bound: book ids drawn
  MaxEdits,   \* bound: settings saved, library deletions and covers, in all
  MaxFaults   \* bound: errors and crashes

ASSUME PodcastAssumption ==
  /\ Settings \subseteq BOOLEAN \cup {None}
  /\ Guids # {} /\ IsFiniteSet(Jobs) /\ None \notin Nat
  /\ Workers \in Nat \ {0} /\ Attempts \in Nat \ {0}
  /\ MaxBooks \in Nat /\ MaxEdits \in Nat /\ MaxFaults \in Nat

VARIABLES
  podcast,    \* the row: [state, auto (auto_download)]
  episode,    \* episode[g]: None, or the row: the book it is downloaded as, or 0
  podcastC, guidsC, episodeC,   \* the cached podcast, guids, and episodes
  job,        \* job[j]: the jobs
  edit,       \* the PUT /podcasts/:id in progress (bound: one at a time)
  books,      \* [used (ids drawn), of, rows, dirs (directories on disk), removing, purge and
              \* ids (the deletion of the library, and the books it has listed), cover (the
              \* book a cover will be saved for), calls (deletions and covers), spoiled
              \* (history: books a failed deletion of the library leaves without files)]
  faults,     \* errors and crashes so far
  edits,      \* history: settings saved
  wish,       \* history: the last setting an administrator saved
  undone,     \* history: the setting was overwritten by someone with an excuse
  asked,      \* history: episodes a download job was enqueued for
  promised,   \* history: episodes a refresh brought while the wish was to download
  excused,    \* history: of these, the ones a fault or a stale copy may lose
  why,        \* history: why[b]: how a book may come to be a second copy
  unmarked,   \* history: books whose episode was not marked, for a fault, or not for long
  strays      \* history: books whose files a fault, a late cover or the deletion of the
              \* library may leave behind

rows == <<podcast, episode>>
caches == <<podcastC, guidsC, episodeC>>
history == <<edits, wish, undone, asked, promised, excused, why, unmarked, strays>>
vars == <<rows, caches, job, edit, books, faults, history>>

Books == 1..MaxBooks

\* A job at the start of its handler, or before or after it: one that was never enqueued,
\* one that waits, one that has ended.
Fresh(kind, pc, g, tries, over) ==
  [kind |-> kind, pc |-> pc, g |-> g, tries |-> tries, over |-> over, late |-> FALSE,
   copy |-> None, known |-> {}, todo |-> {}, book |-> 0]
Free == Fresh("free", "idle", None, 0, FALSE)
Ended == Fresh("ended", "idle", None, 0, FALSE)
Queued(kind, g) == Fresh(kind, "queued", g, 0, FALSE)

Running(j) == job[j].pc \notin {"idle", "queued"}
At(j, kind, pc) == job[j].kind = kind /\ job[j].pc = pc
Goes(j, pc) == job' = [job EXCEPT ![j].pc = pc]

\* What someone knows of the podcast, and when it was true.
Copy(auto, late) == [auto |-> auto, late |-> late, since |-> edits]
Stale(copy) == copy.late \/ copy.since < edits

Found == podcast.state = "live"

LibraryGone == books.purge = "done"

\* The requests that MaxEdits bounds.
Spent == edits + books.calls

Init ==
  /\ podcast = [state |-> "none", auto |-> FALSE]
  /\ episode = [g \in Guids |-> None]
  /\ podcastC = None /\ guidsC = None
  /\ episodeC = [g \in Guids |-> None]
  /\ job = [j \in Jobs |-> Free]
  /\ edit = None
  /\ books = [used |-> 0, of |-> [b \in Books |-> None], rows |-> {}, dirs |-> {}, removing |-> {},
              purge |-> "none", ids |-> {}, cover |-> 0, calls |-> 0, spoiled |-> {}]
  /\ faults = 0 /\ edits = 0
  /\ wish = FALSE /\ undone = FALSE
  /\ asked = {} /\ promised = {} /\ excused = {}
  /\ why = [b \in Books |-> {}]
  /\ unmarked = {} /\ strays = {}

-----------------------------------------------------------------------------
\* Requests.

\* Subscribing brings in the feed, in one transaction, and downloads nothing.  The
\* podcast is subscribed to once: a second request fails on the unique feed_url.
Subscribe(feed) ==
  /\ podcast.state = "none" /\ ~LibraryGone
  /\ podcast' = [state |-> "live", auto |-> FALSE]
  /\ episode' = [g \in Guids |-> IF g \in feed THEN 0 ELSE None]
  /\ UNCHANGED <<caches, job, edit, books, faults, history>>

\* The episodes go with the row (ON DELETE CASCADE), their books stay.  The history of
\* the podcast ends here, and that of a book where it is deleted.
DeletePodcast ==
  /\ Found
  /\ podcast' = [podcast EXCEPT !.state = "gone"]
  /\ episode' = [g \in Guids |-> None]
  /\ podcastC' = None /\ guidsC' = None
  /\ episodeC' = [g \in Guids |-> None]
  /\ wish' = FALSE /\ undone' = FALSE
  /\ asked' = {} /\ promised' = {} /\ excused' = {}
  /\ UNCHANGED <<job, edit, books, faults, edits, why, unmarked, strays>>

\* UpdatePodcast reads the podcast through the cache, and writes all of it back.  A
\* request may leave auto_download out (None): then the value read is written back.
Edit(v) ==
  /\ edit = None /\ Spent < MaxEdits
  /\ edit' = [value |-> v, pc |-> "get", copy |-> None]
  /\ UNCHANGED <<rows, caches, job, books, faults, history>>

EditGets ==
  /\ edit # None => edit.pc = "get"
  /\ edit # None
  /\ \/ podcastC # None /\ edit' = [edit EXCEPT !.copy = Copy(podcastC.auto, podcastC.late), !.pc = "write"]
     \/ podcastC = None /\ Found /\ edit' = [edit EXCEPT !.copy = Copy(podcast.auto, FALSE), !.pc = "store"]
     \/ podcastC = None /\ ~Found /\ edit' = None
  /\ UNCHANGED <<rows, caches, job, books, faults, history>>

\* What was read from the row is cached in a later step.
CachePodcast(copy) ==
  podcastC' = [auto |-> copy.auto, late |-> ~Found \/ podcast.auto # copy.auto]

EditStores ==
  /\ edit # None => edit.pc = "store"
  /\ edit # None
  /\ CachePodcast(edit.copy)
  /\ edit' = [edit EXCEPT !.pc = "write"]
  /\ UNCHANGED <<rows, guidsC, episodeC, job, books, faults, history>>

\* Faulty variant, for mutants only: a statement that does not clean the cache.
WriteBackUncleaned(auto, copy, own) ==
  /\ podcast' = [podcast EXCEPT !.auto = auto]
  /\ undone' = (~own /\ (undone \/ (auto # wish /\ Stale(copy))))
  /\ UNCHANGED podcastC

\* The UPDATE, which finds no row once the podcast is deleted, and the cleaning of the
\* cache.  Whoever reads the cached copy between the two might as well have read it before.
WriteBack(auto, copy, own) ==
  /\ podcast' = [podcast EXCEPT !.auto = auto]
  /\ podcastC' = None
  /\ undone' = (~own /\ (undone \/ (auto # wish /\ Stale(copy))))

EditWrites ==
  /\ edit # None => edit.pc = "write"
  /\ edit # None
  /\ edit' = None
  /\ LET own == edit.value # None IN
     IF Found
       THEN /\ WriteBack(IF own THEN edit.value ELSE edit.copy.auto, edit.copy, own)
            /\ wish' = IF own THEN edit.value ELSE wish
            /\ edits' = edits + 1
       ELSE UNCHANGED <<podcast, podcastC, undone, wish, edits>>
  /\ UNCHANGED <<episode, guidsC, episodeC, job, books, faults,
                 asked, promised, excused, why, unmarked, strays>>

-----------------------------------------------------------------------------
\* What takes books away, and what writes into their directories.

\* A trigger returns the episodes of deleted books to what they were, and the deletion
\* cleans the cache of podcasts.  Whoever reads an entry between the two might as well
\* have read it before.
Dropped(gone) ==
  /\ episode' = [g \in Guids |-> IF episode[g] \in gone THEN 0 ELSE episode[g]]
  /\ podcastC' = None /\ guidsC' = None
  /\ episodeC' = [g \in Guids |-> None]
  /\ why' = [b \in Books |-> IF b \in gone THEN {} ELSE why[b]]
  /\ unmarked' = unmarked \ gone

\* DeleteBook commits; the files go in a step of their own.
DeleteBook(b) ==
  /\ b \in books.rows
  /\ books' = [books EXCEPT !.rows = @ \ {b}, !.removing = @ \cup {b}, !.spoiled = @ \ {b}]
  /\ Dropped({b})
  /\ UNCHANGED <<podcast, job, edit, faults, edits, wish, undone, asked, promised, excused, strays>>

RemoveFiles(b) ==
  /\ b \in books.removing
  /\ \/ /\ books' = [books EXCEPT !.removing = @ \ {b}, !.dirs = @ \ {b}]
        /\ UNCHANGED <<faults, strays>>
     \/ /\ faults < MaxFaults /\ faults' = faults + 1
        /\ books' = [books EXCEPT !.removing = @ \ {b}]
        /\ strays' = strays \cup {b}
  /\ UNCHANGED <<rows, caches, job, edit, edits, wish, undone, asked, promised, excused, why, unmarked>>

\* ProcessDeleteLibrary, in the queue or, if that is full, in the request.  It deletes the
\* books it lists, and their directories, until there are none left, and then the library.
Purge ==
  /\ podcast.state # "none" /\ books.purge = "none" /\ Spent < MaxEdits
  /\ books' = [books EXCEPT !.purge = "list", !.calls = @ + 1]
  /\ UNCHANGED <<rows, caches, job, edit, faults, history>>

\* The directories of the last batch are gone.  An error ends the loop as no books do.  What
\* a list lacks that was cached earlier counts as having come after it.
PurgeLists ==
  /\ books.purge = "list" /\ books.ids \cap books.removing = {}
  /\ \/ /\ books' = [books EXCEPT !.purge = IF books.rows = {} THEN "last" ELSE "delete", !.ids = books.rows]
        /\ UNCHANGED faults
     \/ /\ faults < MaxFaults /\ faults' = faults + 1
        /\ books' = [books EXCEPT !.purge = "last", !.ids = {}]
  /\ UNCHANGED <<rows, caches, job, edit, history>>

\* The statement, whose error is only logged: RemoveFiles follows all the same.
PurgeDeletes ==
  /\ books.purge = "delete"
  /\ \/ /\ books' = [books EXCEPT !.purge = "list", !.removing = @ \cup books.ids,
                                  !.rows = @ \ books.ids, !.spoiled = @ \ books.ids]
        /\ Dropped(books.ids)
        /\ UNCHANGED faults
     \/ /\ faults < MaxFaults /\ faults' = faults + 1
        /\ books' = [books EXCEPT !.purge = "list", !.removing = @ \cup books.ids,
                                  !.spoiled = @ \cup (books.ids \cap books.rows)]
        /\ UNCHANGED <<episode, caches, why, unmarked>>
  /\ UNCHANGED <<podcast, job, edit, edits, wish, undone, asked, promised, excused, strays>>

\* The library goes, and with it (ON DELETE CASCADE) the podcast and the books that came
\* after the last list; their directories stay, and so does the cache of podcasts.  After
\* an error the queue calls the handler again, or gives up.
PurgeEnds ==
  /\ books.purge = "last"
  /\ \/ /\ books' = [books EXCEPT !.purge = "done", !.rows = {}, !.spoiled = {}]
        /\ strays' = strays \cup books.rows
        /\ podcast' = [podcast EXCEPT !.state = "gone"]
        /\ episode' = [g \in Guids |-> None]
        /\ wish' = FALSE /\ undone' = FALSE
        /\ asked' = {} /\ promised' = {} /\ excused' = {}
        /\ why' = [b \in Books |-> {}] /\ unmarked' = {}
        /\ UNCHANGED faults
     \/ /\ faults < MaxFaults /\ faults' = faults + 1
        /\ \E pc \in {"none", "list"} : books' = [books EXCEPT !.purge = pc]
        /\ UNCHANGED <<rows, wish, undone, asked, promised, excused, why, unmarked, strays>>
  /\ UNCHANGED <<caches, job, edit, edits>>

\* The extract_metadata job that follows a download, and UpdateCover, read the book and
\* save its cover later (bound: one at a time).  What they find in the cache of books
\* counts as read when it was cached.  A converted or added file is saved in the same way.
ReadsBook(b) ==
  /\ b \in books.rows /\ books.cover = 0 /\ Spent < MaxEdits
  /\ books' = [books EXCEPT !.cover = b, !.calls = @ + 1]
  /\ UNCHANGED <<rows, caches, job, edit, faults, history>>

\* SaveCover makes the directory if it is not there.
SavesCover ==
  /\ books.cover # 0
  /\ books' = [books EXCEPT !.cover = 0, !.dirs = @ \cup {books.cover}]
  /\ strays' = strays \cup ({books.cover} \ (books.rows \cup books.dirs))
  /\ UNCHANGED <<rows, caches, job, edit, faults, edits, wish, undone, asked, promised, excused, why, unmarked>>

-----------------------------------------------------------------------------
\* The queue, and what ends a job.

Unused == {j \in Jobs : job[j].kind = "free"}

\* QueueRefreshPodcast, the schedule's refresh of all podcasts, and DownloadEpisode.
Ask(j, kind, g) ==
  /\ Found /\ j \in Unused
  /\ kind = "download" => g # None /\ episode[g] # None
  /\ kind # "download" => g = None
  /\ job' = [job EXCEPT ![j] = Queued(kind, g)]
  /\ asked' = IF kind = "download" THEN asked \cup {g} ELSE asked
  /\ UNCHANGED <<rows, caches, edit, books, faults, edits, wish, undone, promised, excused, why, unmarked, strays>>

SameDownload(i, j) == i # j /\ Running(i) /\ job[i].kind = "download" /\ job[i].g = job[j].g

\* RefreshAllPodcasts visits the podcasts of a cached list, which may lack this one; as it
\* only logs the error of one podcast, there is no second attempt.
Start(j) ==
  /\ job[j].pc = "queued"
  /\ Cardinality({i \in Jobs : Running(i)}) < Workers
  /\ IF job[j].kind = "download"
       THEN job' = [i \in Jobs |->
              IF i = j THEN [job[j] EXCEPT !.pc = "episode", !.tries = 1,
                                           !.over = \E k \in Jobs : SameDownload(k, j)]
              ELSE [job[i] EXCEPT !.over = @ \/ SameDownload(i, j)]]
       ELSE \/ job' = [job EXCEPT ![j].pc = "get", ![j].kind = "refresh",
                                 ![j].tries = IF job[j].kind = "all" THEN Attempts ELSE 1]
            \/ job[j].kind = "all" /\ job' = [job EXCEPT ![j] = Ended]
  /\ UNCHANGED <<rows, caches, edit, books, faults, history>>

\* Faulty variant, for mutants only: the attempts are counted from zero.
ReturnedOnceMore(j) ==
  IF job[j].tries > Attempts THEN Ended
  ELSE Fresh(job[j].kind, IF job[j].kind = "download" THEN "episode" ELSE "get",
             job[j].g, job[j].tries + 1, job[j].over)

\* A handler returns an error: it is called again from the start, until the queue gives up.
Returned(j) ==
  IF job[j].tries = Attempts THEN Ended
  ELSE Fresh(job[j].kind, IF job[j].kind = "download" THEN "episode" ELSE "get",
             job[j].g, job[j].tries + 1, job[j].over)

Errs(j) == job' = [job EXCEPT ![j] = Returned(j)]

\* A read, the feed, the download, the saved file or a statement fails.
Fails(j) ==
  /\ Running(j) /\ job[j].pc \notin {"store", "storeGuids", "storeEpisode", "storePodcast",
                                     "enqueue", "create", "mark"}
  /\ faults < MaxFaults /\ faults' = faults + 1
  /\ Errs(j)
  /\ UNCHANGED <<rows, caches, edit, books, history>>

\* The process dies.  Running jobs are failed at the next start, queued ones survive.
Crash ==
  /\ faults < MaxFaults /\ faults' = faults + 1
  /\ job' = [j \in Jobs |-> IF Running(j) THEN Ended ELSE job[j]]
  /\ edit' = None
  /\ podcastC' = None /\ guidsC' = None
  /\ episodeC' = [g \in Guids |-> None]
  /\ books' = [books EXCEPT !.removing = {}, !.ids = {}, !.cover = 0,
                            !.purge = IF LibraryGone THEN @ ELSE "none"]
  /\ strays' = strays \cup books.removing \cup {job[j].book : j \in {i \in Jobs : job[i].pc = "create"}}
  /\ unmarked' = unmarked \cup {job[j].book : j \in {i \in Jobs : job[i].pc = "mark"}}
  /\ excused' = excused \cup {job[j].g : j \in {i \in Jobs : job[i].pc = "enqueue"}}
  /\ UNCHANGED <<rows, edits, wish, undone, asked, promised, why>>

-----------------------------------------------------------------------------
\* RefreshPodcast.

\* GetPodcast, by a refresh or a download: `after` is where the job goes on, with what
\* it needs of the podcast.
Keeps(j, copy) == IF job[j].kind = "download" THEN None ELSE copy

Gets(j, at, store, after) ==
  /\ job[j].pc = at
  /\ \/ /\ podcastC # None
        /\ job' = [job EXCEPT ![j].pc = after,
                             ![j].copy = Keeps(j, Copy(podcastC.auto, podcastC.late))]
     \/ /\ podcastC = None /\ Found
        /\ job' = [job EXCEPT ![j].pc = store, ![j].copy = Copy(podcast.auto, FALSE)]
     \/ podcastC = None /\ ~Found /\ Errs(j)
  /\ UNCHANGED <<rows, caches, edit, books, faults, history>>

Stores(j, store, after) ==
  /\ job[j].pc = store
  /\ CachePodcast(job[j].copy)
  /\ job' = [job EXCEPT ![j].pc = after, ![j].copy = Keeps(j, @)]
  /\ UNCHANGED <<rows, guidsC, episodeC, edit, books, faults, history>>

RefreshGets(j) == Gets(j, "get", "store", "feed") \/ Stores(j, "store", "feed")

KnownGuids == {g \in Guids : episode[g] # None}

\* The feed is fetched, and then the known guids.  Every feed lists all episodes: with
\* a shorter one a refresh does the first part of what it does here.
ListsGuids(j) ==
  /\ job[j].pc = "feed"
  /\ IF guidsC # None
       THEN job' = [job EXCEPT ![j].pc = "write", ![j].todo = Guids, ![j].known = guidsC]
       ELSE job' = [job EXCEPT ![j].pc = "storeGuids", ![j].todo = Guids, ![j].known = KnownGuids]
  /\ UNCHANGED <<rows, caches, edit, books, faults, history>>

StoresGuids(j) ==
  /\ job[j].pc = "storeGuids"
  /\ guidsC' = job[j].known
  /\ Goes(j, "write")
  /\ UNCHANGED <<rows, podcastC, episodeC, edit, books, faults, history>>

\* The time of the check is saved, and with it everything read before the feed came.
SavesCheck(j) ==
  /\ job[j].pc = "write"
  /\ IF Found
       THEN WriteBack(job[j].copy.auto, job[j].copy, FALSE) /\ Goes(j, "upsert")
       ELSE Errs(j) /\ UNCHANGED <<podcast, podcastC, undone>>
  /\ UNCHANGED <<episode, guidsC, episodeC, edit, books, faults,
                 edits, wish, asked, promised, excused, why, unmarked, strays>>

\* Faulty variant, for mutants only: the test is made against the episodes as they are
\* once the episode has been written.
IsNewNow(j, g) == g \notin KnownGuids'

IsNew(j, g) == g \notin job[j].known

\* On to the next episode, if there is one.
GoesOn(j, todo) ==
  IF todo = {} THEN Ended ELSE [job[j] EXCEPT !.pc = "upsert", !.todo = todo, !.g = None]

\* An episode is inserted, or updated: that changes its texts only.
Upserts(j, g) ==
  /\ job[j].pc = "upsert" /\ g \in job[j].todo
  /\ LET inserted == episode[g] = None
         rest == job[j].todo \ {g} IN
     IF Found
       THEN /\ episode' = IF inserted THEN [episode EXCEPT ![g] = 0] ELSE episode
            /\ guidsC' = None
            /\ job' = [job EXCEPT ![j] =
                 IF job[j].copy.auto /\ IsNew(j, g)
                   THEN [job[j] EXCEPT !.pc = "enqueue", !.todo = rest, !.g = g]
                   ELSE GoesOn(j, rest)]
            /\ promised' = IF inserted /\ wish THEN promised \cup {g} ELSE promised
            /\ excused' = IF inserted /\ (undone \/ Stale(job[j].copy)) THEN excused \cup {g} ELSE excused
       ELSE Errs(j) /\ UNCHANGED <<episode, guidsC, promised, excused>>
  /\ UNCHANGED <<podcast, podcastC, episodeC, edit, books, faults,
                 edits, wish, undone, asked, why, unmarked, strays>>

\* enqueueDownload; the queue may be full or closed.
EnqueuesDownload(j) ==
  /\ job[j].pc = "enqueue"
  /\ \/ /\ \E k \in Unused :
             job' = [job EXCEPT ![k] = Queued("download", job[j].g),
                                ![j] = GoesOn(j, job[j].todo)]
        /\ asked' = asked \cup {job[j].g}
        /\ UNCHANGED <<faults, excused>>
     \/ /\ faults < MaxFaults /\ faults' = faults + 1
        /\ Errs(j)
        /\ excused' = excused \cup {job[j].g}
        /\ UNCHANGED asked
  /\ UNCHANGED <<rows, caches, edit, books, edits, wish, undone, promised, why, unmarked, strays>>

-----------------------------------------------------------------------------
\* ExecutePodcastDownloadJob.

Decided(j, downloaded, late) ==
  IF downloaded THEN Ended ELSE [job[j] EXCEPT !.pc = "podcast", !.late = late]

GetsEpisode(j) ==
  /\ job[j].pc = "episode"
  /\ LET g == job[j].g IN
     \/ episodeC[g] # None
        /\ job' = [job EXCEPT ![j] = Decided(j, episodeC[g].downloaded, episodeC[g].late)]
     \/ episodeC[g] = None /\ episode[g] # None
        /\ job' = [job EXCEPT ![j].pc = "storeEpisode", ![j].book = episode[g]]
     \/ episodeC[g] = None /\ episode[g] = None /\ Errs(j)
  /\ UNCHANGED <<rows, caches, edit, books, faults, history>>

StoresEpisode(j) ==
  /\ job[j].pc = "storeEpisode"
  /\ LET g == job[j].g
         downloaded == job[j].book # 0 IN
       /\ episodeC' = [episodeC EXCEPT ![g] =
            [downloaded |-> downloaded, late |-> episode[g] = None \/ (episode[g] # 0) # downloaded]]
       /\ job' = [job EXCEPT ![j] = Decided(j, downloaded, FALSE)]
  /\ UNCHANGED <<rows, podcastC, guidsC, edit, books, faults, history>>

DownloadGets(j) == Gets(j, "podcast", "storePodcast", "save") \/ Stores(j, "storePodcast", "save")

\* The audio is downloaded and becomes the file of a book with a fresh id.
Saves(j) ==
  /\ job[j].pc = "save"
  /\ books.used < MaxBooks
  /\ LET b == books.used + 1 IN
       /\ books' = [books EXCEPT !.used = b, !.of[b] = job[j].g, !.dirs = @ \cup {b}]
       /\ job' = [job EXCEPT ![j].pc = "create", ![j].book = b]
  /\ UNCHANGED <<rows, caches, edit, faults, history>>

CopiesOf(g) == {b \in books.rows : books.of[b] = g}

Creates(j) ==
  /\ job[j].pc = "create" /\ ~LibraryGone
  /\ books' = [books EXCEPT !.rows = @ \cup {job[j].book}]
  /\ job' = [job EXCEPT ![j].pc = "mark", ![j].late = FALSE]
  /\ why' = [why EXCEPT ![job[j].book] =
       {r \in {"overlap", "late", "unmarked"} :
          \/ r = "overlap" /\ job[j].over
          \/ r = "late" /\ job[j].late
          \/ r = "unmarked" /\ CopiesOf(job[j].g) \cap unmarked # {}}]
  /\ UNCHANGED <<rows, caches, edit, faults, edits, wish, undone, asked, promised, excused, unmarked, strays>>

\* Faulty variant, for mutants only: the files of a book that was not created stay.
CreateFailsUncleaned(j) ==
  /\ job[j].pc = "create"
  /\ faults < MaxFaults /\ faults' = faults + 1
  /\ Errs(j)
  /\ UNCHANGED <<rows, caches, edit, books, edits, wish, undone, asked, promised, excused, why, unmarked, strays>>

\* The row is refused, as it always is once the library is gone, and the files are removed;
\* RemoveBookDir may fail, and does nothing under the context of a cancelled job.
CreateFails(j) ==
  /\ job[j].pc = "create"
  /\ Errs(j)
  /\ \/ /\ LibraryGone /\ UNCHANGED <<faults, strays>>
        /\ books' = [books EXCEPT !.dirs = @ \ {job[j].book}]
     \/ /\ faults < MaxFaults /\ faults' = faults + 1
        /\ \/ books' = [books EXCEPT !.dirs = @ \ {job[j].book}] /\ UNCHANGED strays
           \/ strays' = strays \cup {job[j].book} /\ UNCHANGED books
  /\ UNCHANGED <<rows, caches, edit, edits, wish, undone, asked, promised, excused, why, unmarked>>

\* Faulty variants, for mutants only: marking an episode with a book that is gone, and
\* leaving the cached episode as it is.
MarksAnyBook(j) ==
  /\ job[j].pc = "mark"
  /\ LET g == job[j].g IN
       /\ episode' = IF episode[g] = None THEN episode ELSE [episode EXCEPT ![g] = job[j].book]
       /\ episodeC' = [episodeC EXCEPT ![g] = None]
       /\ job' = [job EXCEPT ![j] = Ended]
  /\ UNCHANGED <<podcast, podcastC, guidsC, edit, books, faults, history>>

MarksKeepingEntry(j) ==
  /\ job[j].pc = "mark"
  /\ LET g == job[j].g IN
     IF job[j].book \in books.rows
       THEN /\ episode' = IF episode[g] = None THEN episode ELSE [episode EXCEPT ![g] = job[j].book]
            /\ job' = [job EXCEPT ![j] = Ended]
            /\ unmarked' = unmarked \cup (({episode[g]} \cap Books) \ {job[j].book})
       ELSE Errs(j) /\ UNCHANGED <<episode, unmarked>>
  /\ UNCHANGED <<podcast, caches, edit, books, faults,
                 edits, wish, undone, asked, promised, excused, why, strays>>

\* MarkEpisodeDownloaded: refused by the foreign key if the book has been deleted
\* meanwhile, and without effect if the episode has.  It takes the mark from another copy.
Marks(j) ==
  /\ job[j].pc = "mark"
  /\ LET g == job[j].g IN
     IF job[j].book \in books.rows
       THEN /\ episode' = IF episode[g] = None THEN episode ELSE [episode EXCEPT ![g] = job[j].book]
            /\ episodeC' = [episodeC EXCEPT ![g] = None]
            /\ job' = [job EXCEPT ![j] = Ended]
            /\ unmarked' = unmarked \cup (({episode[g]} \cap Books) \ {job[j].book})
       ELSE Errs(j) /\ UNCHANGED <<episode, episodeC, unmarked>>
  /\ UNCHANGED <<podcast, podcastC, guidsC, edit, books, faults,
                 edits, wish, undone, asked, promised, excused, why, strays>>

MarkFails(j) ==
  /\ job[j].pc = "mark"
  /\ faults < MaxFaults /\ faults' = faults + 1
  /\ Errs(j)
  /\ unmarked' = unmarked \cup {job[j].book}
  /\ UNCHANGED <<rows, caches, edit, books, edits, wish, undone, asked, promised, excused, why, strays>>

-----------------------------------------------------------------------------
\* An entry expires (10 to 15 minutes) or is evicted.
Evict ==
  /\ \/ podcastC # None /\ podcastC' = None /\ UNCHANGED <<guidsC, episodeC>>
     \/ guidsC # None /\ guidsC' = None /\ UNCHANGED <<podcastC, episodeC>>
     \/ \E g \in Guids : episodeC[g] # None /\ episodeC' = [episodeC EXCEPT ![g] = None]
                         /\ UNCHANGED <<podcastC, guidsC>>
  /\ UNCHANGED <<rows, job, edit, books, faults, history>>

Request ==
  \/ \E feed \in SUBSET Guids : Subscribe(feed)
  \/ DeletePodcast
  \/ \E v \in Settings : Edit(v)
  \/ EditGets \/ EditStores \/ EditWrites
  \/ \E b \in Books : DeleteBook(b) \/ RemoveFiles(b) \/ ReadsBook(b)
  \/ Purge \/ PurgeLists \/ PurgeDeletes \/ PurgeEnds \/ SavesCover
  \/ \E j \in Jobs, kind \in {"refresh", "all", "download"}, g \in Guids \cup {None} : Ask(j, kind, g)

Refresh(j) ==
  \/ RefreshGets(j) \/ ListsGuids(j) \/ StoresGuids(j) \/ SavesCheck(j)
  \/ \E g \in Guids : Upserts(j, g)
  \/ EnqueuesDownload(j)

Download(j) ==
  \/ GetsEpisode(j) \/ StoresEpisode(j) \/ DownloadGets(j)
  \/ Saves(j) \/ Creates(j) \/ CreateFails(j) \/ Marks(j) \/ MarkFails(j)

Next ==
  \/ Request
  \/ \E j \in Jobs : Start(j) \/ Refresh(j) \/ Download(j) \/ Fails(j)
  \/ Crash \/ Evict

Spec == Init /\ [][Next]_vars

-----------------------------------------------------------------------------
HeldCopies == [auto : BOOLEAN, late : BOOLEAN, since : 0..MaxEdits]
Copies == {None} \cup HeldCopies

RefreshPCs == {"get", "store", "feed", "storeGuids", "write", "upsert", "enqueue"}
DownloadPCs == {"episode", "storeEpisode", "podcast", "storePodcast", "save", "create", "mark"}

JobRecords ==
  [kind : {"free", "ended", "refresh", "all", "download"},
   pc : {"idle", "queued"} \cup RefreshPCs \cup DownloadPCs,
   g : Guids \cup {None}, tries : 0..Attempts, copy : Copies,
   known : SUBSET Guids, todo : SUBSET Guids, over : BOOLEAN, late : BOOLEAN, book : 0..MaxBooks]

SettingShapes ==
  /\ podcast \in [state : {"none", "live", "gone"}, auto : BOOLEAN]
  /\ podcastC \in {None} \cup [auto : BOOLEAN, late : BOOLEAN]
  /\ edit \in {None} \cup [value : BOOLEAN \cup {None}, pc : {"get", "store", "write"}, copy : Copies]
  /\ edits \in 0..MaxEdits
  /\ wish \in BOOLEAN /\ undone \in BOOLEAN

EpisodeShapes ==
  /\ episode \in [Guids -> {None} \cup 0..MaxBooks]
  /\ guidsC \in {None} \cup SUBSET Guids
  /\ episodeC \in [Guids -> {None} \cup [downloaded : BOOLEAN, late : BOOLEAN]]
  /\ asked \subseteq Guids /\ promised \subseteq Guids /\ excused \subseteq Guids

BookRecords ==
  [used : 0..MaxBooks, of : [Books -> Guids \cup {None}],
   rows : SUBSET Books, dirs : SUBSET Books, removing : SUBSET Books,
   purge : {"none", "list", "delete", "last", "done"}, ids : SUBSET Books,
   cover : 0..MaxBooks, calls : 0..MaxEdits, spoiled : SUBSET Books]

BookShapes ==
  /\ books \in BookRecords
  /\ why \in [Books -> SUBSET {"overlap", "late", "unmarked"}]
  /\ unmarked \subseteq Books /\ strays \subseteq Books

\* Shapes and bounds: the handler of a job is called at most Attempts times, and at
\* most Workers jobs run.
TypeOK ==
  /\ SettingShapes /\ EpisodeShapes /\ BookShapes
  /\ job \in [Jobs -> JobRecords]
  /\ faults \in 0..MaxFaults
  /\ Cardinality({j \in Jobs : Running(j)}) <= Workers

\* An episode that counts as downloaded has its book, and the book its directory, whatever
\* deletes books, podcasts and the library while downloads run.  Only a deletion of the
\* library whose statement failed takes the directory of a book that stays
\* (libraryService.go:189-197).
DownloadedIsPlayable ==
  \A g \in Guids : episode[g] \notin {None, 0} =>
    episode[g] \in books.rows /\ episode[g] \in books.dirs \cup books.spoiled

\* An episode is on the shelf twice only if two downloads of it ran at the same time, the
\* first book could not be marked or lost its mark to another copy, or a stale cached
\* episode was read that a slow reader had stored after the marking.
SecondCopyExplained ==
  \A b, c \in books.rows : b < c /\ books.of[b] = books.of[c] => why[c] # {}

\* A directory without a book belongs to a download or a deletion that is still at work,
\* or is one of three that stay: a fault has cut the download or the deletion short, a cover
\* or another file still to be saved came after the removal (bookFileRepository.go:243-247), or the
\* book had come after the last list of the deletion of its library (libraryService.go:202).
NoStrayFiles ==
  \A b \in books.dirs \ books.rows :
    \/ b \in books.removing \cup strays
    \/ \E j \in Jobs : At(j, "download", "create") /\ job[j].book = b

\* The saved setting stays until it is changed, unless a refresh or an edit wrote back
\* what it had read before, or had found in a cache filled too late.
SettingKept == Found /\ podcast.auto # wish => undone

\* An episode that appears while automatic download is on gets its download job, unless
\* a fault or a crash came right between, or the refresh worked with a stale setting.
NewIsQueued ==
  \A g \in promised \ (asked \cup excused) :
    \E j \in Jobs : At(j, "refresh", "enqueue") /\ job[j].g = g
=============================================================================
