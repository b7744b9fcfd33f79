--------------------------- MODULE PodcastProofs ---------------------------
(***************************************************************************)
(* What holds of Podcasts for every value of its constants.                *)
(***************************************************************************)
EXTENDS Podcasts, FiniteSetTheorems, TLAPS

\* Where a job or an edit holds a copy of the podcast.
Holding == {"store", "feed", "storeGuids", "write", "upsert", "enqueue", "storePodcast"}

\* What the place a job has reached says of the job, e being the number of edits.
JobOK(r, e) ==
  /\ r.pc \in DownloadPCs => r.kind = "download"
  /\ r.pc \in RefreshPCs => r.kind = "refresh"
  /\ r.pc = "queued" => r.kind \in {"refresh", "all", "download"}
  /\ r.kind = "download" \/ r.pc = "enqueue" => r.g \in Guids
  /\ r.pc \in Holding => r.copy \in HeldCopies /\ r.copy.since <= e
  /\ r.pc \in {"create", "mark"} => r.book \in Books

EditOK ==
  edit # None =>
    /\ edits < MaxEdits
    /\ edit.pc # "get" => edit.copy \in HeldCopies /\ edit.copy.since <= edits

JobsOK == job \in [Jobs -> JobRecords] /\ \A j \in Jobs : JobOK(job[j], edits)

Inv ==
  /\ SettingShapes /\ EpisodeShapes /\ BookShapes
  /\ JobsOK /\ EditOK
  /\ faults \in 0..MaxFaults

-----------------------------------------------------------------------------
\* The initial state has the shapes.
LEMMA InitInv == Init => Inv
<1> SUFFICES ASSUME Init PROVE Inv
  OBVIOUS
<1> USE PodcastAssumption DEF Init
<1>1. Free \in JobRecords /\ JobOK(Free, 0)
  BY DEF Free, Fresh, JobRecords, JobOK, Copies, Holding, RefreshPCs, DownloadPCs
<1>2. SettingShapes
  <2>1. podcast \in [state : {"none", "live", "gone"}, auto : BOOLEAN]
    OBVIOUS
  <2>2. edits \in 0..MaxEdits
    OBVIOUS
  <2>3. podcastC = None /\ edit = None /\ wish \in BOOLEAN /\ undone \in BOOLEAN
    OBVIOUS
  <2> QED
    BY <2>1, <2>2, <2>3 DEF SettingShapes
<1>6. EpisodeShapes
  <2>1. episode \in [Guids -> {None} \cup 0..MaxBooks]
    OBVIOUS
  <2>2. guidsC \in {None} \cup SUBSET Guids
    OBVIOUS
  <2>3. episodeC \in [Guids -> {None} \cup [downloaded : BOOLEAN, late : BOOLEAN]]
    OBVIOUS
  <2> QED
    BY <2>1, <2>2, <2>3 DEF EpisodeShapes
<1>3. BookShapes
  BY DEF BookShapes, BookRecords, Books
<1>4. JobsOK
  BY <1>1 DEF JobsOK
<1>5. EditOK
  BY DEF EditOK
<1> QED
  BY <1>2, <1>3, <1>4, <1>5, <1>6 DEF Inv

\* A step that changes one job and leaves it well-shaped.
LEMMA OneJob ==
  ASSUME JobsOK, NEW j \in Jobs, edits \in Nat, edits' \in Nat, edits <= edits',
         job' = [job EXCEPT ![j] = job'[j]],
         job'[j] \in JobRecords, JobOK(job'[j], edits')
  PROVE  JobsOK'
<1>1. job' \in [Jobs -> JobRecords]
  BY DEF JobsOK
<1>2. ASSUME NEW i \in Jobs PROVE JobOK(job'[i], edits')
  <2>1. CASE i = j
    BY <2>1
  <2>2. CASE i # j
    <3>1. job'[i] = job[i] /\ JobOK(job[i], edits)
      BY <2>2 DEF JobsOK
    <3>2. job[i].copy \in HeldCopies => job[i].copy.since \in Nat
      BY PodcastAssumption DEF HeldCopies
    <3> QED
      BY <3>1, <3>2 DEF JobOK
  <2> QED
    BY <2>1, <2>2
<1> QED
  BY <1>1, <1>2 DEF JobsOK

\* A copy that has just been read is well-shaped and as old as the last edit.
LEMMA CopyOK ==
  ASSUME SettingShapes, NEW auto \in BOOLEAN, NEW late \in BOOLEAN
  PROVE  Copy(auto, late) \in HeldCopies /\ Copy(auto, late).since <= edits
BY PodcastAssumption DEF SettingShapes, Copy, HeldCopies

\* A job that has ended.
LEMMA EndedOK ==
  Ended \in JobRecords /\ JobOK(Ended, edits)
<1>1. Ended \in JobRecords
  BY PodcastAssumption DEF Ended, Fresh, JobRecords, Copies
<1>2. JobOK(Ended, edits)
  BY DEF Ended, Fresh, JobOK, Holding, RefreshPCs, DownloadPCs
<1> QED
  BY <1>1, <1>2

\* Handing a job back to the queue.
LEMMA ReturnedOK ==
  ASSUME Inv, NEW j \in Jobs, Running(j)
  PROVE  Returned(j) \in JobRecords /\ JobOK(Returned(j), edits)
<1> USE PodcastAssumption
<1>1. job[j] \in JobRecords /\ JobOK(job[j], edits)
  BY DEF Inv, JobsOK
<1>2. Ended \in JobRecords /\ JobOK(Ended, edits)
  <2>1. Ended \in JobRecords
    BY DEF Ended, Fresh, JobRecords, Copies, HeldCopies
  <2>2. JobOK(Ended, edits)
    BY DEF Ended, Fresh, JobOK, Holding, RefreshPCs, DownloadPCs
  <2> QED
    BY <2>1, <2>2
<1>3. CASE job[j].tries = Attempts
  BY <1>2, <1>3 DEF Returned
<1>4. CASE job[j].tries # Attempts
  <2>1. job[j].kind \in {"refresh", "download"} /\ job[j].tries + 1 \in 0..Attempts
    BY <1>1, <1>4 DEF JobRecords, JobOK, Running
  <2>2. Returned(j) \in JobRecords
    BY <1>1, <2>1 DEF Returned, Fresh, JobRecords, Copies, RefreshPCs, DownloadPCs
  <2>3. JobOK(Returned(j), edits)
    BY <1>1, <2>1 DEF Returned, Fresh, JobOK, Holding, RefreshPCs, DownloadPCs
  <2> QED
    BY <2>2, <2>3
<1> QED
  BY <1>3, <1>4

\* A step in which a job ends.
LEMMA EndsOK ==
  ASSUME Inv, NEW j \in Jobs, job' = [job EXCEPT ![j] = Ended], edits' = edits
  PROVE  JobsOK'
<1>1. job'[j] = Ended /\ job' = [job EXCEPT ![j] = job'[j]]
  BY DEF Inv, JobsOK
<1>2. edits \in Nat /\ edits <= edits'
  BY PodcastAssumption DEF Inv, SettingShapes
<1>3. job'[j] \in JobRecords /\ JobOK(job'[j], edits')
  BY <1>1, EndedOK
<1> QED
  BY <1>1, <1>2, <1>3, OneJob DEF Inv

\* A step in which a handler returns an error.
LEMMA ErrsOK ==
  ASSUME Inv, NEW j \in Jobs, Running(j), Errs(j), edits' = edits
  PROVE  JobsOK'
<1>1. Returned(j) \in JobRecords /\ JobOK(Returned(j), edits)
  BY ReturnedOK
<1>2. job'[j] = Returned(j) /\ job' = [job EXCEPT ![j] = job'[j]]
  BY DEF Errs, Inv, JobsOK
<1>3. edits \in Nat
  BY PodcastAssumption DEF Inv, SettingShapes
<1> QED
  BY <1>1, <1>2, <1>3, OneJob DEF Inv

\* What a step leaves alone stays as it was.
LEMMA Frame ==
  ASSUME Inv
  PROVE  /\ UNCHANGED <<podcast, podcastC, edit, edits, wish, undone>> => SettingShapes'
         /\ UNCHANGED <<episode, guidsC, episodeC, asked, promised, excused>> => EpisodeShapes'
         /\ UNCHANGED <<books, why, unmarked, strays>> => BookShapes'
         /\ UNCHANGED <<job, edits>> => JobsOK'
         /\ UNCHANGED <<edit, edits>> => EditOK'
         /\ UNCHANGED faults => faults' \in 0..MaxFaults
<1>1. UNCHANGED <<podcast, podcastC, edit, edits, wish, undone>> => SettingShapes'
  BY DEF Inv, SettingShapes
<1>2. UNCHANGED <<episode, guidsC, episodeC, asked, promised, excused>> => EpisodeShapes'
  BY DEF Inv, EpisodeShapes
<1>3. UNCHANGED <<books, why, unmarked, strays>> => BookShapes'
  BY DEF Inv, BookShapes
<1>4. UNCHANGED <<job, edits>> => JobsOK'
  BY DEF Inv, JobsOK
<1>5. UNCHANGED <<edit, edits>> => EditOK'
  BY DEF Inv, EditOK
<1> QED
  BY <1>1, <1>2, <1>3, <1>4, <1>5 DEF Inv

\* A subscription keeps the shapes.
LEMMA SubscribeInv ==
  ASSUME Inv, NEW feed \in SUBSET Guids, Subscribe(feed)
  PROVE  Inv'
<1>1. BookShapes' /\ JobsOK' /\ EditOK' /\ faults' \in 0..MaxFaults
  BY Frame DEF Subscribe, rows, caches, history
<1>2. SettingShapes'
  BY DEF Inv, SettingShapes, Subscribe, caches, history
<1>3. EpisodeShapes'
  BY PodcastAssumption DEF Inv, EpisodeShapes, Subscribe, caches, history
<1> QED
  BY <1>1, <1>2, <1>3 DEF Inv

\* So does the deletion of the podcast.
LEMMA DeletePodcastInv ==
  ASSUME Inv, DeletePodcast
  PROVE  Inv'
<1>1. BookShapes' /\ JobsOK' /\ EditOK' /\ faults' \in 0..MaxFaults
  BY Frame DEF DeletePodcast, rows, caches, history
<1>2. SettingShapes'
  BY DEF Inv, SettingShapes, DeletePodcast
<1>3. EpisodeShapes'
  BY DEF EpisodeShapes, DeletePodcast
<1> QED
  BY <1>1, <1>2, <1>3 DEF Inv

\* An edit begins, while fewer than MaxEdits have been saved.
LEMMA EditInv ==
  ASSUME Inv, NEW v \in Settings, Edit(v)
  PROVE  Inv'
<1>1. EpisodeShapes' /\ BookShapes' /\ JobsOK' /\ faults' \in 0..MaxFaults
  BY Frame DEF Edit, rows, caches, history
<1>2. SettingShapes'
  <2>1. podcast' \in [state : {"none", "live", "gone"}, auto : BOOLEAN]
    BY DEF Inv, SettingShapes, Edit, rows
  <2>2. podcastC' \in {None} \cup [auto : BOOLEAN, late : BOOLEAN]
    BY DEF Inv, SettingShapes, Edit, caches
  <2>3. edit' \in {None} \cup [value : BOOLEAN \cup {None}, pc : {"get", "store", "write"}, copy : Copies]
    BY PodcastAssumption DEF Copies, Edit
  <2>4. edits' \in 0..MaxEdits
    BY DEF Inv, SettingShapes, Edit, history
  <2>5. wish' \in BOOLEAN
    BY DEF Inv, SettingShapes, Edit, history
  <2>6. undone' \in BOOLEAN
    BY DEF Inv, SettingShapes, Edit, history
  <2> QED
    BY <2>1, <2>2, <2>3, <2>4, <2>5, <2>6 DEF SettingShapes
<1>6. EditOK'
  <2>1. books.calls \in Nat /\ edits \in Nat /\ edits + books.calls < MaxEdits
    BY PodcastAssumption DEF Inv, SettingShapes, BookShapes, BookRecords, Edit, Spent
  <2>2. edits < MaxEdits
    BY <2>1, PodcastAssumption
  <2> QED
    BY <2>2 DEF EditOK, Edit, history
<1> QED
  BY <1>1, <1>2, <1>6 DEF Inv

\* It takes a copy no older than the last edit, from the cache or from the row.
LEMMA EditGetsInv ==
  ASSUME Inv, EditGets
  PROVE  Inv'
<1>1. EpisodeShapes' /\ BookShapes' /\ JobsOK' /\ faults' \in 0..MaxFaults
  BY Frame DEF EditGets, rows, caches, history
<1>2. SettingShapes'
  <2>1. podcast' \in [state : {"none", "live", "gone"}, auto : BOOLEAN]
    BY DEF Inv, SettingShapes, EditGets, rows
  <2>2. podcastC' \in {None} \cup [auto : BOOLEAN, late : BOOLEAN]
    BY DEF Inv, SettingShapes, EditGets, caches
  <2>3. edit' \in {None} \cup [value : BOOLEAN \cup {None}, pc : {"get", "store", "write"}, copy : Copies]
    <3>1. CASE podcastC # None
      <4>1. Copy(podcastC.auto, podcastC.late) \in HeldCopies
        BY <3>1, CopyOK DEF Inv, SettingShapes
      <4> QED
        BY <3>1, <4>1 DEF Inv, SettingShapes, EditGets, Copies
    <3>2. CASE podcastC = None
      <4>1. Copy(podcast.auto, FALSE) \in HeldCopies
        BY CopyOK DEF Inv, SettingShapes
      <4> QED
        BY <3>2, <4>1 DEF Inv, SettingShapes, EditGets, Copies
    <3> QED
      BY <3>1, <3>2
  <2>4. edits' \in 0..MaxEdits
    BY DEF Inv, SettingShapes, EditGets, history
  <2>5. wish' \in BOOLEAN
    BY DEF Inv, SettingShapes, EditGets, history
  <2>6. undone' \in BOOLEAN
    BY DEF Inv, SettingShapes, EditGets, history
  <2> QED
    BY <2>1, <2>2, <2>3, <2>4, <2>5, <2>6 DEF SettingShapes
<1>6. EditOK'
  <2>1. CASE podcastC # None
    <3>1. Copy(podcastC.auto, podcastC.late) \in HeldCopies /\ Copy(podcastC.auto, podcastC.late).since <= edits
      BY <2>1, CopyOK DEF Inv, SettingShapes
    <3> QED
      BY <2>1, <3>1 DEF Inv, SettingShapes, EditGets, EditOK, history
  <2>2. CASE podcastC = None
    <3>1. Copy(podcast.auto, FALSE) \in HeldCopies /\ Copy(podcast.auto, FALSE).since <= edits
      BY CopyOK DEF Inv, SettingShapes
    <3> QED
      BY <2>2, <3>1 DEF Inv, SettingShapes, EditGets, EditOK, history
  <2> QED
    BY <2>1, <2>2
<1> QED
  BY <1>1, <1>2, <1>6 DEF Inv

\* It fills the cache.
LEMMA EditStoresInv ==
  ASSUME Inv, EditStores
  PROVE  Inv'
<1>1. EpisodeShapes' /\ BookShapes' /\ JobsOK' /\ faults' \in 0..MaxFaults
  BY Frame DEF EditStores, rows, caches, history
<1>2. SettingShapes'
  <2>1. podcast' \in [state : {"none", "live", "gone"}, auto : BOOLEAN]
    BY DEF Inv, SettingShapes, EditStores, rows
  <2>2. podcastC' \in {None} \cup [auto : BOOLEAN, late : BOOLEAN]
    BY DEF Inv, EditOK, HeldCopies, EditStores, CachePodcast
  <2>3. edit' \in {None} \cup [value : BOOLEAN \cup {None}, pc : {"get", "store", "write"}, copy : Copies]
    BY DEF Inv, SettingShapes, EditStores
  <2>4. edits' \in 0..MaxEdits
    BY DEF Inv, SettingShapes, EditStores, history
  <2>5. wish' \in BOOLEAN
    BY DEF Inv, SettingShapes, EditStores, history
  <2>6. undone' \in BOOLEAN
    BY DEF Inv, SettingShapes, EditStores, history
  <2> QED
    BY <2>1, <2>2, <2>3, <2>4, <2>5, <2>6 DEF SettingShapes
<1>6. EditOK'
  BY DEF Inv, EditOK, EditStores, history
<1> QED
  BY <1>1, <1>2, <1>6 DEF Inv

\* It saves: one more edit, so every copy held elsewhere is older still.
LEMMA EditWritesInv ==
  ASSUME Inv, EditWrites
  PROVE  Inv'
<1>1. EpisodeShapes' /\ BookShapes' /\ faults' \in 0..MaxFaults
  BY Frame DEF EditWrites, rows, caches, history
<1>2. SettingShapes'
  <2>1. podcast' \in [state : {"none", "live", "gone"}, auto : BOOLEAN]
    BY DEF Inv, SettingShapes, EditOK, HeldCopies, EditWrites, WriteBack
  <2>2. podcastC' \in {None} \cup [auto : BOOLEAN, late : BOOLEAN]
    BY DEF Inv, SettingShapes, EditWrites, WriteBack
  <2>3. edit' \in {None} \cup [value : BOOLEAN \cup {None}, pc : {"get", "store", "write"}, copy : Copies]
    BY DEF EditWrites
  <2>4. edits' \in 0..MaxEdits
    BY PodcastAssumption DEF Inv, SettingShapes, EditOK, EditWrites
  <2>5. wish' \in BOOLEAN
    BY DEF Inv, SettingShapes, EditWrites
  <2>6. undone' \in BOOLEAN
    BY DEF Inv, SettingShapes, EditWrites, WriteBack
  <2> QED
    BY <2>1, <2>2, <2>3, <2>4, <2>5, <2>6 DEF SettingShapes
<1>5. JobsOK'
  BY DEF Inv, JobsOK, SettingShapes, JobOK, HeldCopies, EditWrites
<1>6. EditOK'
  BY DEF EditOK, EditWrites
<1> QED
  BY <1>1, <1>2, <1>5, <1>6 DEF Inv

\* The rows of some books go: their episodes are back at 0.
LEMMA DroppedShapes ==
  ASSUME Inv, NEW gone \in SUBSET Books, Dropped(gone),
         UNCHANGED <<podcast, edit, edits, wish, undone, asked, promised, excused>>
  PROVE  /\ SettingShapes' /\ EpisodeShapes'
         /\ why' \in [Books -> SUBSET {"overlap", "late", "unmarked"}] /\ unmarked' \subseteq Books
<1>1. SettingShapes'
  BY DEF Inv, SettingShapes, Dropped
<1>2. EpisodeShapes'
  BY PodcastAssumption DEF Inv, EpisodeShapes, Dropped
<1>3. why' \in [Books -> SUBSET {"overlap", "late", "unmarked"}] /\ unmarked' \subseteq Books
  BY DEF Inv, BookShapes, Dropped
<1> QED
  BY <1>1, <1>2, <1>3

\* A book is deleted.
LEMMA DeleteBookInv ==
  ASSUME Inv, NEW b \in Books, DeleteBook(b)
  PROVE  Inv'
<1>1. JobsOK' /\ EditOK' /\ faults' \in 0..MaxFaults
  BY Frame DEF DeleteBook
<1>2. /\ SettingShapes' /\ EpisodeShapes'
      /\ why' \in [Books -> SUBSET {"overlap", "late", "unmarked"}] /\ unmarked' \subseteq Books
  BY DroppedShapes DEF DeleteBook
<1>3. books' \in BookRecords
  BY DEF Inv, BookShapes, BookRecords, DeleteBook
<1>4. strays' \subseteq Books
  BY DEF Inv, BookShapes, DeleteBook
<1> QED
  BY <1>1, <1>2, <1>3, <1>4 DEF Inv, BookShapes

\* The files of a deleted book go, or stay for good.
LEMMA RemoveFilesInv ==
  ASSUME Inv, NEW b \in Books, RemoveFiles(b)
  PROVE  Inv'
<1>1. SettingShapes' /\ EpisodeShapes' /\ JobsOK' /\ EditOK'
  BY Frame DEF RemoveFiles, rows, caches, history
<1>4. BookShapes'
  <2>1. books' \in BookRecords
    <3>1. CASE books' = [books EXCEPT !.removing = @ \ {b}, !.dirs = @ \ {b}]
      BY <3>1 DEF Inv, BookShapes, BookRecords
    <3>2. CASE books' = [books EXCEPT !.removing = @ \ {b}]
      BY <3>2 DEF Inv, BookShapes, BookRecords
    <3> QED
      BY <3>1, <3>2 DEF RemoveFiles
  <2>2. why' \in [Books -> SUBSET {"overlap", "late", "unmarked"}]
    BY DEF Inv, BookShapes, RemoveFiles
  <2>3. unmarked' \subseteq Books
    BY DEF Inv, BookShapes, RemoveFiles
  <2>4. strays' \subseteq Books
    BY DEF Inv, BookShapes, RemoveFiles
  <2> QED
    BY <2>1, <2>2, <2>3, <2>4 DEF BookShapes
<1>7. faults' \in 0..MaxFaults
  BY PodcastAssumption DEF Inv, RemoveFiles, rows, caches, history
<1> QED
  BY <1>1, <1>4, <1>7 DEF Inv

\* The deletion of the library begins, and lists the books.
LEMMA PurgeInv ==
  ASSUME Inv, Purge
  PROVE  Inv'
<1>1. SettingShapes' /\ EpisodeShapes' /\ JobsOK' /\ EditOK' /\ faults' \in 0..MaxFaults
  BY Frame DEF Purge, rows, caches, history
<1>2. books.calls + 1 \in 0..MaxEdits
  BY PodcastAssumption DEF Inv, SettingShapes, BookShapes, BookRecords, Purge, Spent
<1>3. books' \in BookRecords
  BY <1>2 DEF Inv, BookShapes, BookRecords, Purge
<1> QED
  BY <1>1, <1>3 DEF Inv, BookShapes, Purge, history

LEMMA PurgeListsInv ==
  ASSUME Inv, PurgeLists
  PROVE  Inv'
<1>1. SettingShapes' /\ EpisodeShapes' /\ JobsOK' /\ EditOK'
  BY Frame DEF PurgeLists, rows, caches, history
<1>2. books' \in BookRecords
  BY DEF Inv, BookShapes, BookRecords, PurgeLists
<1>3. faults' \in 0..MaxFaults
  BY PodcastAssumption DEF Inv, PurgeLists
<1> QED
  BY <1>1, <1>2, <1>3 DEF Inv, BookShapes, PurgeLists, history

\* Its statement succeeds, or does not.
LEMMA PurgeDeletesInv ==
  ASSUME Inv, PurgeDeletes
  PROVE  Inv'
<1>1. JobsOK' /\ EditOK'
  BY Frame DEF PurgeDeletes
<1>2. faults' \in 0..MaxFaults
  BY PodcastAssumption DEF Inv, PurgeDeletes
<1>3. books' \in BookRecords
  <2>1. books \in BookRecords
    BY DEF Inv, BookShapes
  <2>2. CASE books' = [books EXCEPT !.purge = "list", !.removing = @ \cup books.ids,
                                    !.rows = @ \ books.ids, !.spoiled = @ \ books.ids]
    BY <2>1, <2>2 DEF BookRecords
  <2>3. CASE books' = [books EXCEPT !.purge = "list", !.removing = @ \cup books.ids,
                                    !.spoiled = @ \cup (books.ids \cap books.rows)]
    BY <2>1, <2>3 DEF BookRecords
  <2> QED
    BY <2>2, <2>3 DEF PurgeDeletes
<1>4. strays' \subseteq Books
  BY DEF Inv, BookShapes, PurgeDeletes
<1>5. /\ SettingShapes' /\ EpisodeShapes'
      /\ why' \in [Books -> SUBSET {"overlap", "late", "unmarked"}] /\ unmarked' \subseteq Books
  <2>1. CASE Dropped(books.ids)
    <3>1. books.ids \in SUBSET Books
      BY DEF Inv, BookShapes, BookRecords
    <3> QED
      BY <2>1, <3>1, DroppedShapes DEF PurgeDeletes
  <2>2. CASE UNCHANGED <<episode, caches, why, unmarked>>
    BY <2>2, Frame DEF PurgeDeletes, caches, Inv, BookShapes
  <2> QED
    BY <2>1, <2>2 DEF PurgeDeletes
<1> QED
  BY <1>1, <1>2, <1>3, <1>4, <1>5 DEF Inv, BookShapes

\* The library goes with what is left, or stays for now.
LEMMA PurgeEndsInv ==
  ASSUME Inv, PurgeEnds
  PROVE  Inv'
<1>1. JobsOK' /\ EditOK'
  BY Frame DEF PurgeEnds
<1>2. faults' \in 0..MaxFaults
  BY PodcastAssumption DEF Inv, PurgeEnds
<1>3. books' \in BookRecords
  BY DEF Inv, BookShapes, BookRecords, PurgeEnds
<1>4. strays' \subseteq Books
  BY DEF Inv, BookShapes, BookRecords, PurgeEnds
<1>5. why' \in [Books -> SUBSET {"overlap", "late", "unmarked"}] /\ unmarked' \subseteq Books
  BY DEF Inv, BookShapes, PurgeEnds
<1>6. SettingShapes'
  BY DEF Inv, SettingShapes, PurgeEnds, rows, caches
<1>7. EpisodeShapes'
  BY DEF Inv, EpisodeShapes, PurgeEnds, rows, caches
<1> QED
  BY <1>1, <1>2, <1>3, <1>4, <1>5, <1>6, <1>7 DEF Inv, BookShapes

\* A cover is to be saved, and is saved.
LEMMA ReadsBookInv ==
  ASSUME Inv, NEW b \in Books, ReadsBook(b)
  PROVE  Inv'
<1>1. SettingShapes' /\ EpisodeShapes' /\ JobsOK' /\ EditOK' /\ faults' \in 0..MaxFaults
  BY Frame DEF ReadsBook, rows, caches, history
<1>2. books.calls + 1 \in 0..MaxEdits /\ b \in 0..MaxBooks
  BY PodcastAssumption DEF Inv, SettingShapes, BookShapes, BookRecords, ReadsBook, Spent, Books
<1>3. books' \in BookRecords
  BY <1>2 DEF Inv, BookShapes, BookRecords, ReadsBook
<1> QED
  BY <1>1, <1>3 DEF Inv, BookShapes, ReadsBook, history

LEMMA SavesCoverInv ==
  ASSUME Inv, SavesCover
  PROVE  Inv'
<1>1. SettingShapes' /\ EpisodeShapes' /\ JobsOK' /\ EditOK' /\ faults' \in 0..MaxFaults
  BY Frame DEF SavesCover, rows, caches
<1>2. books.cover \in Books
  BY PodcastAssumption DEF Inv, BookShapes, BookRecords, SavesCover, Books
<1>3. books' \in BookRecords
  <2>1. books \in BookRecords /\ 0 \in 0..MaxBooks
    BY PodcastAssumption DEF Inv, BookShapes
  <2>2. books' = [books EXCEPT !.cover = 0, !.dirs = books.dirs \cup {books.cover}]
    BY DEF SavesCover
  <2> QED
    BY <1>2, <2>1, <2>2 DEF BookRecords
<1> QED
  BY <1>1, <1>2, <1>3 DEF Inv, BookShapes, SavesCover

\* A new job waits, and it is of one of the three kinds.
LEMMA AskInv ==
  ASSUME Inv, NEW j \in Jobs, NEW kind \in {"refresh", "all", "download"}, NEW g \in Guids \cup {None}, Ask(j, kind, g)
  PROVE  Inv'
<1>0. job[j] \in JobRecords /\ JobOK(job[j], edits)
  BY DEF Inv, JobsOK
<1>1. SettingShapes' /\ BookShapes' /\ EditOK' /\ faults' \in 0..MaxFaults
  BY Frame DEF Ask, rows, caches, history
<1>3. EpisodeShapes'
  BY DEF Inv, EpisodeShapes, Ask, rows, caches
<1>5. JobsOK'
  <2>1. edits \in Nat /\ edits' = edits
    BY DEF Inv, SettingShapes, Ask
  <2>31. job' = [job EXCEPT ![j] = job'[j]]
    BY DEF Ask
  <2>32. job'[j] \in JobRecords
    BY PodcastAssumption DEF Inv, JobsOK, JobRecords, Copies, Ask, Queued, Fresh
  <2>33. JobOK(job'[j], edits')
    BY <1>0 DEF JobOK, RefreshPCs, DownloadPCs, Holding, Ask, Queued, Fresh
  <2> QED
    BY <2>1, <2>31, <2>32, <2>33, OneJob DEF Inv
<1> QED
  BY <1>1, <1>3, <1>5 DEF Inv

\* A job starts at the first place of its handler; other downloads learn of it.
LEMMA StartInv ==
  ASSUME Inv, NEW j \in Jobs, Start(j)
  PROVE  Inv'
<1>0. job[j] \in JobRecords /\ JobOK(job[j], edits)
  BY DEF Inv, JobsOK
<1>1. SettingShapes' /\ EpisodeShapes' /\ BookShapes' /\ EditOK' /\ faults' \in 0..MaxFaults
  BY Frame DEF Start, rows, caches, history
<1>5. JobsOK'
  <2>1. edits \in Nat /\ edits' = edits
    <3>1. UNCHANGED history
      BY DEF Start
    <3> QED
      BY <3>1, PodcastAssumption DEF Inv, SettingShapes, history
  <2>2. CASE job[j].kind = "download"
    <3>1. ASSUME NEW i \in Jobs PROVE job'[i] \in JobRecords /\ JobOK(job'[i], edits)
      <4>1. job[i] \in JobRecords /\ JobOK(job[i], edits)
        BY DEF Inv, JobsOK
      <4>2. CASE i = j
        <5>1. job'[i] = [job[j] EXCEPT !.pc = "episode", !.tries = 1,
                                       !.over = \E k \in Jobs : SameDownload(k, j)]
          BY <2>2, <4>2 DEF Start
        <5>2. ASSUME NEW over \in BOOLEAN
              PROVE  [job[j] EXCEPT !.pc = "episode", !.tries = 1, !.over = over] \in JobRecords
          <6>0. 1 \in 0..Attempts
            BY PodcastAssumption
          <6>1. [job[j] EXCEPT !.pc = "episode", !.tries = 1] \in JobRecords
            BY <1>0, <6>0 DEF JobRecords, RefreshPCs, DownloadPCs
          <6>2. ASSUME NEW r \in JobRecords PROVE [r EXCEPT !.over = over] \in JobRecords
            BY DEF JobRecords
          <6>3. [job[j] EXCEPT !.pc = "episode", !.tries = 1, !.over = over]
                = [[job[j] EXCEPT !.pc = "episode", !.tries = 1] EXCEPT !.over = over]
            BY <1>0 DEF JobRecords
          <6> QED
            BY <6>1, <6>2, <6>3
        <5>3. job'[i] \in JobRecords
          BY <5>1, <5>2
        <5>4. JobOK(job'[i], edits)
          BY <1>0, <2>2, <5>1 DEF JobOK, RefreshPCs, Holding
        <5> QED
          BY <5>3, <5>4
      <4>3. CASE i # j
        <5>1. job'[i] = [job[i] EXCEPT !.over = job[i].over \/ SameDownload(i, j)]
          BY <2>2, <4>3 DEF Start
        <5>2. (job[i].over \/ SameDownload(i, j)) \in BOOLEAN
          OBVIOUS
        <5>3. job'[i] \in JobRecords
          BY <4>1, <5>1, <5>2 DEF JobRecords
        <5>4. JobOK(job'[i], edits)
          BY <4>1, <5>1 DEF JobRecords, JobOK
        <5> QED
          BY <5>3, <5>4
      <4> QED
        BY <4>2, <4>3
    <3>2. job' = [i \in Jobs |-> job'[i]]
      BY <2>2 DEF Start
    <3> QED
      BY <2>1, <3>1, <3>2 DEF JobsOK
  <2>3. CASE job[j].kind # "download" /\ job' # [job EXCEPT ![j] = Ended]
    <3>1. job' = [job EXCEPT ![j] = job'[j]]
      BY <2>3 DEF Inv, JobsOK, Start
    <3>2. job'[j] = [job[j] EXCEPT !.pc = "get", !.kind = "refresh",
                                   !.tries = IF job[j].kind = "all" THEN Attempts ELSE 1]
      BY <2>3 DEF Inv, JobsOK, Start
    <3>3. job'[j] \in JobRecords
      <4>1. (IF job[j].kind = "all" THEN Attempts ELSE 1) \in 0..Attempts
        BY PodcastAssumption
      <4> QED
        BY <1>0, <3>2, <4>1 DEF JobRecords, RefreshPCs, DownloadPCs
    <3>4. JobOK(job'[j], edits)
      BY <1>0, <3>2 DEF JobRecords, JobOK, RefreshPCs, DownloadPCs, Holding
    <3> QED
      BY <2>1, <3>1, <3>3, <3>4, OneJob DEF Inv
  <2>4. CASE job' = [job EXCEPT ![j] = Ended]
    BY <2>1, <2>4, EndsOK
  <2> QED
    BY <2>2, <2>3, <2>4
<1> QED
  BY <1>1, <1>5 DEF Inv

\* GetPodcast, in a refresh (at "get") and in a download (at "podcast"): a hit, a miss, or no podcast.
LEMMA GetsInv ==
  ASSUME Inv, NEW j \in Jobs, NEW at, NEW store, NEW after,
         ((at = "get" /\ store = "store" /\ after = "feed")
            \/ (at = "podcast" /\ store = "storePodcast" /\ after = "save")), Gets(j, at, store, after)
  PROVE  Inv'
<1>0. job[j] \in JobRecords /\ JobOK(job[j], edits)
  BY DEF Inv, JobsOK
<1>1. SettingShapes' /\ EpisodeShapes' /\ BookShapes' /\ EditOK' /\ faults' \in 0..MaxFaults
  BY Frame DEF Gets, rows, caches, history
<1>5. JobsOK'
  <2>1. edits \in Nat /\ edits' = edits
    BY DEF Inv, SettingShapes, Gets, history
  <2>3. CASE podcastC # None
    <3>31. job' = [job EXCEPT ![j] = job'[j]]
      BY DEF Gets, Errs
    <3>32. job'[j] \in JobRecords
      BY <1>0, <2>3
         DEF Inv, JobsOK, EpisodeShapes, JobRecords, RefreshPCs, DownloadPCs, Gets, rows, caches, Copy
    <3>33. JobOK(job'[j], edits')
      BY <2>3
         DEF Inv, JobsOK, SettingShapes, JobRecords, HeldCopies, JobOK, RefreshPCs, DownloadPCs,
             Holding, Gets, history, Copy, Keeps
    <3> QED
      BY <2>1, <3>31, <3>32, <3>33, OneJob DEF Inv
  <2>4. CASE podcastC = None /\ job' = [job EXCEPT ![j].pc = store, ![j].copy = Copy(podcast.auto, FALSE)]
    <3>41. job' = [job EXCEPT ![j] = job'[j]]
      BY DEF Gets, Errs
    <3>42. job'[j] \in JobRecords
      BY <1>0, <2>4, PodcastAssumption
         DEF Inv, JobsOK, SettingShapes, JobRecords, JobOK, RefreshPCs, DownloadPCs, Gets, Errs
    <3>43. JobOK(job'[j], edits')
      BY <2>4
         DEF Inv, JobsOK, SettingShapes, HeldCopies, JobOK, RefreshPCs, DownloadPCs, Gets, history, Copy
    <3> QED
      BY <2>1, <3>41, <3>42, <3>43, OneJob DEF Inv
  <2>5. CASE podcastC = None /\ Errs(j)
    <3>15. Running(j) /\ Errs(j) /\ edits' = edits
      BY <2>5 DEF Running, Gets, history
    <3> QED
      BY <3>15, ErrsOK
  <2> QED
    BY <2>3, <2>4, <2>5 DEF Gets
<1> QED
  BY <1>1, <1>5 DEF Inv

\* The store after a miss, in both handlers.
LEMMA StoresInv ==
  ASSUME Inv, NEW j \in Jobs, NEW at, NEW store, NEW after,
         ((at = "get" /\ store = "store" /\ after = "feed")
            \/ (at = "podcast" /\ store = "storePodcast" /\ after = "save")), Stores(j, store, after)
  PROVE  Inv'
<1>0. job[j] \in JobRecords /\ JobOK(job[j], edits)
  BY DEF Inv, JobsOK
<1>1. EpisodeShapes' /\ BookShapes' /\ EditOK' /\ faults' \in 0..MaxFaults
  BY Frame DEF Stores, rows, caches, history
<1>2. SettingShapes'
  <2>1. podcast' \in [state : {"none", "live", "gone"}, auto : BOOLEAN]
    BY DEF Inv, SettingShapes, Stores, rows
  <2>2. podcastC' \in {None} \cup [auto : BOOLEAN, late : BOOLEAN]
    BY DEF Inv, JobsOK, JobOK, HeldCopies, Holding, Stores, CachePodcast
  <2>3. edit' \in {None} \cup [value : BOOLEAN \cup {None}, pc : {"get", "store", "write"}, copy : Copies]
    BY DEF Inv, SettingShapes, Stores
  <2>4. edits' \in 0..MaxEdits
    BY DEF Inv, SettingShapes, Stores, history
  <2>5. wish' \in BOOLEAN
    BY DEF Inv, SettingShapes, Stores, history
  <2>6. undone' \in BOOLEAN
    BY DEF Inv, SettingShapes, Stores, history
  <2> QED
    BY <2>1, <2>2, <2>3, <2>4, <2>5, <2>6 DEF SettingShapes
<1>5. JobsOK'
  <2>1. edits \in Nat /\ edits' = edits
    BY DEF Inv, SettingShapes, Stores, history
  <2>31. job' = [job EXCEPT ![j] = job'[j]]
    BY DEF Stores
  <2>32. job'[j] \in JobRecords
    BY <1>0, PodcastAssumption DEF Inv, JobsOK, JobRecords, Copies, RefreshPCs, DownloadPCs, Stores, Keeps
  <2>33. JobOK(job'[j], edits')
    BY <2>1 DEF Inv, JobsOK, JobRecords, JobOK, RefreshPCs, DownloadPCs, Holding, Stores
  <2> QED
    BY <2>1, <2>31, <2>32, <2>33, OneJob DEF Inv
<1> QED
  BY <1>1, <1>2, <1>5 DEF Inv

\* The feed and the known guids are there.
LEMMA ListsGuidsInv ==
  ASSUME Inv, NEW j \in Jobs, ListsGuids(j)
  PROVE  Inv'
<1>0. job[j] \in JobRecords /\ JobOK(job[j], edits)
  BY DEF Inv, JobsOK
<1>1. SettingShapes' /\ EpisodeShapes' /\ BookShapes' /\ EditOK' /\ faults' \in 0..MaxFaults
  BY Frame DEF ListsGuids, rows, caches, history
<1>5. JobsOK'
  <2>1. edits \in Nat /\ edits' = edits
    BY PodcastAssumption DEF Inv, SettingShapes, ListsGuids, rows, caches, history
  <2>31. job' = [job EXCEPT ![j] = job'[j]]
    BY DEF ListsGuids
  <2>32. job'[j] \in JobRecords
    BY DEF Inv, JobsOK, JobRecords, RefreshPCs, ListsGuids
  <2>33. JobOK(job'[j], edits')
    BY <2>1 DEF Inv, JobsOK, JobRecords, JobOK, DownloadPCs, Holding, ListsGuids
  <2> QED
    BY <2>1, <2>31, <2>32, <2>33, OneJob DEF Inv
<1> QED
  BY <1>1, <1>5 DEF Inv

\* The known guids are cached.
LEMMA StoresGuidsInv ==
  ASSUME Inv, NEW j \in Jobs, StoresGuids(j)
  PROVE  Inv'
<1>0. job[j] \in JobRecords /\ JobOK(job[j], edits)
  BY DEF Inv, JobsOK
<1>1. SettingShapes' /\ BookShapes' /\ EditOK' /\ faults' \in 0..MaxFaults
  BY Frame DEF StoresGuids, rows, caches, history
<1>3. EpisodeShapes'
  <2>1. episode' \in [Guids -> {None} \cup 0..MaxBooks]
    BY DEF Inv, EpisodeShapes, StoresGuids, rows
  <2>2. guidsC' \in {None} \cup SUBSET Guids
    BY DEF Inv, JobsOK, JobRecords, StoresGuids
  <2>3. episodeC' \in [Guids -> {None} \cup [downloaded : BOOLEAN, late : BOOLEAN]]
    BY DEF Inv, EpisodeShapes, StoresGuids
  <2>4. asked' \subseteq Guids /\ promised' \subseteq Guids
    BY DEF Inv, EpisodeShapes, StoresGuids, history
  <2>5. excused' \subseteq Guids
    BY DEF Inv, EpisodeShapes, StoresGuids, history
  <2> QED
    BY <2>1, <2>2, <2>3, <2>4, <2>5 DEF EpisodeShapes
<1>5. JobsOK'
  <2>1. edits \in Nat /\ edits' = edits
    BY DEF Inv, SettingShapes, StoresGuids, history
  <2>31. job' = [job EXCEPT ![j] = job'[j]]
    BY DEF StoresGuids, Goes
  <2>32. job'[j] \in JobRecords
    BY <1>0 DEF JobRecords, RefreshPCs, StoresGuids, Goes
  <2>33. JobOK(job'[j], edits')
    BY <1>0 DEF JobOK, RefreshPCs, DownloadPCs, Holding, StoresGuids, history, Goes
  <2> QED
    BY <2>1, <2>31, <2>32, <2>33, OneJob DEF Inv
<1> QED
  BY <1>1, <1>3, <1>5 DEF Inv

\* The check is saved, or the podcast is gone.
LEMMA SavesCheckInv ==
  ASSUME Inv, NEW j \in Jobs, SavesCheck(j)
  PROVE  Inv'
<1>0. job[j] \in JobRecords /\ JobOK(job[j], edits)
  BY DEF Inv, JobsOK
<1>1. EpisodeShapes' /\ BookShapes' /\ EditOK' /\ faults' \in 0..MaxFaults
  BY Frame DEF SavesCheck, rows, caches, history
<1>2. SettingShapes'
  <2>1. podcast' \in [state : {"none", "live", "gone"}, auto : BOOLEAN]
    BY DEF Inv, SettingShapes, JobsOK, JobOK, HeldCopies, Holding, SavesCheck, WriteBack
  <2>2. podcastC' \in {None} \cup [auto : BOOLEAN, late : BOOLEAN]
    BY DEF Inv, SettingShapes, SavesCheck, WriteBack
  <2>3. edit' \in {None} \cup [value : BOOLEAN \cup {None}, pc : {"get", "store", "write"}, copy : Copies]
    BY DEF Inv, SettingShapes, SavesCheck
  <2>4. edits' \in 0..MaxEdits
    BY DEF Inv, SettingShapes, SavesCheck
  <2>5. wish' \in BOOLEAN
    BY DEF Inv, SettingShapes, SavesCheck
  <2>6. undone' \in BOOLEAN
    BY DEF Inv, SettingShapes, SavesCheck, WriteBack
  <2> QED
    BY <2>1, <2>2, <2>3, <2>4, <2>5, <2>6 DEF SettingShapes
<1>5. JobsOK'
  <2>1. edits \in Nat /\ edits' = edits
    BY DEF Inv, SettingShapes, SavesCheck
  <2>3. CASE Found
    <3>31. job' = [job EXCEPT ![j] = job'[j]]
      BY DEF SavesCheck, Goes, Errs
    <3>32. job'[j] \in JobRecords
      BY <1>0, <2>3, PodcastAssumption
         DEF Inv, JobsOK, SettingShapes, JobRecords, RefreshPCs, SavesCheck, Goes
    <3>33. JobOK(job'[j], edits')
      BY <2>3 DEF Inv, JobsOK, JobRecords, JobOK, DownloadPCs, Holding, SavesCheck, Goes
    <3> QED
      BY <2>1, <3>31, <3>32, <3>33, OneJob DEF Inv
  <2>4. CASE ~Found
    <3>14. Running(j) /\ Errs(j) /\ edits' = edits
      BY <2>4 DEF Running, SavesCheck
    <3> QED
      BY <3>14, ErrsOK
  <2> QED
    BY <2>3, <2>4 
<1> QED
  BY <1>1, <1>2, <1>5 DEF Inv

\* An episode is written: the refresh goes on, enqueues, ends, or finds the podcast gone.
LEMMA UpsertsInv ==
  ASSUME Inv, NEW j \in Jobs, NEW g \in Guids, Upserts(j, g)
  PROVE  Inv'
<1>0. job[j] \in JobRecords /\ JobOK(job[j], edits)
  BY DEF Inv, JobsOK
<1>1. SettingShapes' /\ BookShapes' /\ EditOK' /\ faults' \in 0..MaxFaults
  BY Frame DEF Upserts, rows, caches, history
<1>3. EpisodeShapes'
  BY PodcastAssumption DEF Inv, EpisodeShapes, Upserts
<1>5. JobsOK'
  <2>1. edits \in Nat /\ edits' = edits
    BY DEF Inv, SettingShapes, Upserts
  <2>2. job[j].pc = "upsert"
    BY DEF Upserts
  <2>3. CASE Found /\ job[j].copy.auto /\ IsNew(j, g)
    <3>1. job' = [job EXCEPT ![j] = [job[j] EXCEPT !.pc = "enqueue", !.todo = job[j].todo \ {g}, !.g = g]]
      BY <2>3 DEF Upserts, GoesOn
    <3>2. job'[j] = [job[j] EXCEPT !.pc = "enqueue", !.todo = job[j].todo \ {g}, !.g = g] /\ job' = [job EXCEPT ![j] = job'[j]]
      BY <3>1 DEF Inv, JobsOK
    <3>3. job'[j] \in JobRecords
      BY <1>0, <3>2 DEF JobRecords, RefreshPCs, DownloadPCs
    <3>4. JobOK(job'[j], edits)
      BY <1>0, <3>2, <2>2 DEF JobOK, RefreshPCs, DownloadPCs, Holding
    <3> QED
      BY <2>1, <3>2, <3>3, <3>4, OneJob DEF Inv
  <2>4. CASE Found /\ ~(job[j].copy.auto /\ IsNew(j, g)) /\ job[j].todo \ {g} = {}
    <3>1. job' = [job EXCEPT ![j] = Ended]
      BY <2>4 DEF Upserts, GoesOn
    <3> QED
      BY <2>1, <3>1, EndsOK
  <2>5. CASE Found /\ ~(job[j].copy.auto /\ IsNew(j, g)) /\ job[j].todo \ {g} # {}
    <3>1. job' = [job EXCEPT ![j] = [job[j] EXCEPT !.pc = "upsert", !.todo = job[j].todo \ {g}, !.g = None]]
      BY <2>5 DEF Upserts, GoesOn
    <3>2. job'[j] = [job[j] EXCEPT !.pc = "upsert", !.todo = job[j].todo \ {g}, !.g = None] /\ job' = [job EXCEPT ![j] = job'[j]]
      BY <3>1 DEF Inv, JobsOK
    <3>3. job'[j] \in JobRecords
      BY <1>0, <3>2 DEF JobRecords, RefreshPCs, DownloadPCs
    <3>4. JobOK(job'[j], edits)
      BY <1>0, <3>2, <2>2 DEF JobOK, RefreshPCs
    <3> QED
      BY <2>1, <3>2, <3>3, <3>4, OneJob DEF Inv
  <2>6. CASE ~Found
    <3>16. Running(j) /\ Errs(j) /\ edits' = edits
      BY <2>6 DEF Running, Upserts
    <3> QED
      BY <3>16, ErrsOK
  <2> QED
    BY <2>3, <2>4, <2>5, <2>6 
<1> QED
  BY <1>1, <1>3, <1>5 DEF Inv

\* A download is enqueued in another job, or the refresh fails.
LEMMA EnqueuesDownloadInv ==
  ASSUME Inv, NEW j \in Jobs, EnqueuesDownload(j)
  PROVE  Inv'
<1>0. job[j] \in JobRecords /\ JobOK(job[j], edits)
  BY DEF Inv, JobsOK
<1>1. SettingShapes' /\ BookShapes' /\ EditOK'
  BY Frame DEF EnqueuesDownload, rows, caches, history
<1>3. EpisodeShapes'
  <2>1. episode' \in [Guids -> {None} \cup 0..MaxBooks]
    BY DEF Inv, EpisodeShapes, EnqueuesDownload, rows
  <2>2. guidsC' \in {None} \cup SUBSET Guids
    BY DEF Inv, EpisodeShapes, EnqueuesDownload, caches
  <2>3. episodeC' \in [Guids -> {None} \cup [downloaded : BOOLEAN, late : BOOLEAN]]
    BY DEF Inv, EpisodeShapes, EnqueuesDownload, caches
  <2>4. asked' \subseteq Guids /\ promised' \subseteq Guids
    BY DEF Inv, EpisodeShapes, JobsOK, JobOK, EnqueuesDownload
  <2>5. excused' \subseteq Guids
    BY DEF Inv, EpisodeShapes, JobsOK, JobOK, EnqueuesDownload
  <2> QED
    BY <2>1, <2>2, <2>3, <2>4, <2>5 DEF EpisodeShapes
<1>5. JobsOK'
  <2>1. edits \in Nat /\ edits' = edits /\ job[j].pc = "enqueue"
    BY PodcastAssumption DEF Inv, SettingShapes, EnqueuesDownload
  <2>2. CASE Errs(j)
    BY <2>1, <2>2, ErrsOK DEF Running
  <2>3. ASSUME NEW k \in Unused,
               job' = [job EXCEPT ![k] = Queued("download", job[j].g), ![j] = GoesOn(j, job[j].todo)]
        PROVE  JobsOK'
    <3>1. Queued("download", job[j].g) \in JobRecords /\ JobOK(Queued("download", job[j].g), edits)
      BY <1>0, <2>1, PodcastAssumption
      DEF Queued, Fresh, JobRecords, JobOK, Copies, RefreshPCs, DownloadPCs, Holding
    <3>2. GoesOn(j, job[j].todo) \in JobRecords /\ JobOK(GoesOn(j, job[j].todo), edits)
      <4>1. CASE job[j].todo = {}
        BY <4>1, EndedOK DEF GoesOn
      <4>2. CASE job[j].todo # {}
        <5>1. GoesOn(j, job[j].todo) = [job[j] EXCEPT !.pc = "upsert", !.todo = job[j].todo, !.g = None]
          BY <4>2 DEF GoesOn
        <5>2. GoesOn(j, job[j].todo) \in JobRecords
          BY <1>0, <5>1 DEF JobRecords, RefreshPCs, DownloadPCs
        <5>3. JobOK(GoesOn(j, job[j].todo), edits)
          BY <1>0, <2>1, <5>1 DEF JobOK, RefreshPCs, DownloadPCs, Holding
        <5> QED
          BY <5>2, <5>3
      <4> QED
        BY <4>1, <4>2
    <3>3. job' \in [Jobs -> JobRecords]
      BY <2>3, <3>1, <3>2 DEF Inv, JobsOK
    <3>4. ASSUME NEW i \in Jobs PROVE JobOK(job'[i], edits)
      BY <2>3, <3>1, <3>2 DEF Inv, JobsOK, Unused
    <3> QED
      BY <2>1, <3>3, <3>4 DEF JobsOK
  <2> QED
    BY <2>2, <2>3 DEF EnqueuesDownload
<1>7. faults' \in 0..MaxFaults
  BY PodcastAssumption DEF Inv, EnqueuesDownload, rows, caches, history, Errs
<1> QED
  BY <1>1, <1>3, <1>5, <1>7 DEF Inv

\* A download reads its episode: from the cache, from the row, or finds none.
LEMMA GetsEpisodeInv ==
  ASSUME Inv, NEW j \in Jobs, GetsEpisode(j)
  PROVE  Inv'
<1>0. job[j] \in JobRecords /\ JobOK(job[j], edits)
  BY DEF Inv, JobsOK
<1>1. SettingShapes' /\ EpisodeShapes' /\ BookShapes' /\ EditOK' /\ faults' \in 0..MaxFaults
  BY Frame DEF GetsEpisode, rows, caches, history
<1>5. JobsOK'
  <2>1. edits \in Nat /\ edits' = edits
    BY DEF Inv, SettingShapes, GetsEpisode, history
  <2>2. job[j].pc = "episode" /\ job[j].kind = "download" /\ job[j].g \in Guids
    BY <1>0 DEF GetsEpisode, JobOK, DownloadPCs
  <2>3. CASE episodeC[job[j].g] # None /\ episodeC[job[j].g].downloaded
    <3>1. job' = [job EXCEPT ![j] = Ended]
      BY <2>3 DEF GetsEpisode, Decided
    <3> QED
      BY <2>1, <3>1, EndsOK
  <2>4. CASE episodeC[job[j].g] # None /\ ~episodeC[job[j].g].downloaded
    <3>0. episodeC[job[j].g].late \in BOOLEAN
      BY <2>2, <2>4 DEF Inv, EpisodeShapes
    <3>1. job' = [job EXCEPT ![j] = [job[j] EXCEPT !.pc = "podcast", !.late = episodeC[job[j].g].late]]
      BY <2>4 DEF GetsEpisode, Decided
    <3>2. job'[j] = [job[j] EXCEPT !.pc = "podcast", !.late = episodeC[job[j].g].late] /\ job' = [job EXCEPT ![j] = job'[j]]
      BY <3>1 DEF Inv, JobsOK
    <3>3. job'[j] \in JobRecords
      BY <1>0, <3>2, <3>0 DEF JobRecords, DownloadPCs
    <3>4. JobOK(job'[j], edits)
      BY <3>2, <2>2 DEF JobOK, RefreshPCs, Holding
    <3> QED
      BY <2>1, <3>2, <3>3, <3>4, OneJob DEF Inv
  <2>5. CASE episodeC[job[j].g] = None /\ episode[job[j].g] # None
    <3>0. episode[job[j].g] \in 0..MaxBooks
      BY <2>2, <2>5 DEF Inv, EpisodeShapes
    <3>1. job' = [job EXCEPT ![j] = [job[j] EXCEPT !.pc = "storeEpisode", !.book = episode[job[j].g]]]
      BY <2>5 DEF GetsEpisode, Decided
    <3>2. job'[j] = [job[j] EXCEPT !.pc = "storeEpisode", !.book = episode[job[j].g]] /\ job' = [job EXCEPT ![j] = job'[j]]
      BY <3>1 DEF Inv, JobsOK
    <3>3. job'[j] \in JobRecords
      BY <1>0, <3>2, <3>0 DEF JobRecords, DownloadPCs
    <3>4. JobOK(job'[j], edits)
      BY <3>2, <2>2 DEF JobOK, RefreshPCs, Holding
    <3> QED
      BY <2>1, <3>2, <3>3, <3>4, OneJob DEF Inv
  <2>6. CASE episodeC[job[j].g] = None /\ episode[job[j].g] = None
    <3>16. Running(j) /\ Errs(j) /\ edits' = edits
      BY <2>6 DEF Running, GetsEpisode, history
    <3> QED
      BY <3>16, ErrsOK
  <2> QED
    BY <2>3, <2>4, <2>5, <2>6 
<1> QED
  BY <1>1, <1>5 DEF Inv

\* A download caches its episode and decides.
LEMMA StoresEpisodeInv ==
  ASSUME Inv, NEW j \in Jobs, StoresEpisode(j)
  PROVE  Inv'
<1>0. job[j] \in JobRecords /\ JobOK(job[j], edits)
  BY DEF Inv, JobsOK
<1>1. SettingShapes' /\ BookShapes' /\ EditOK' /\ faults' \in 0..MaxFaults
  BY Frame DEF StoresEpisode, rows, caches, history
<1>3. EpisodeShapes'
  BY DEF Inv, EpisodeShapes, StoresEpisode, rows, history
<1>5. JobsOK'
  <2>1. edits \in Nat /\ edits' = edits
    BY PodcastAssumption DEF Inv, SettingShapes, StoresEpisode, rows, caches, history
  <2>2. job[j].pc = "storeEpisode" /\ job[j].kind = "download"
    BY <1>0 DEF StoresEpisode, JobOK, DownloadPCs
  <2>3. CASE job[j].book # 0
    <3>1. job' = [job EXCEPT ![j] = Ended]
      BY <2>3 DEF StoresEpisode, Decided
    <3> QED
      BY <2>1, <3>1, EndsOK
  <2>4. CASE job[j].book = 0
    <3>1. job' = [job EXCEPT ![j] = [job[j] EXCEPT !.pc = "podcast", !.late = FALSE]]
      BY <2>4 DEF StoresEpisode, Decided
    <3>2. job'[j] = [job[j] EXCEPT !.pc = "podcast", !.late = FALSE] /\ job' = [job EXCEPT ![j] = job'[j]]
      BY <3>1 DEF Inv, JobsOK
    <3>3. job'[j] \in JobRecords
      BY <1>0, <3>2 DEF JobRecords, DownloadPCs
    <3>4. JobOK(job'[j], edits)
      BY <1>0, <3>2, <2>2 DEF JobOK, RefreshPCs, Holding
    <3> QED
      BY <2>1, <3>2, <3>3, <3>4, OneJob DEF Inv
  <2> QED
    BY <2>3, <2>4 DEF StoresEpisode, rows, caches, history
<1> QED
  BY <1>1, <1>3, <1>5 DEF Inv

\* A book id is drawn and the files are there.
LEMMA SavesInv ==
  ASSUME Inv, NEW j \in Jobs, Saves(j)
  PROVE  Inv'
<1>0. job[j] \in JobRecords /\ JobOK(job[j], edits)
  BY DEF Inv, JobsOK
<1>1. SettingShapes' /\ EpisodeShapes' /\ EditOK' /\ faults' \in 0..MaxFaults
  BY Frame DEF Saves, rows, caches, history
<1>4. BookShapes'
  <2>1. books' \in BookRecords
    <3>1. books.used + 1 \in 0..MaxBooks /\ books.used + 1 \in Books
      BY PodcastAssumption DEF Inv, BookShapes, BookRecords, Saves, Books
    <3>2. job[j].g \in Guids \cup {None}
      BY <1>0 DEF JobRecords
    <3>3. books' = [books EXCEPT !.used = books.used + 1, !.of[books.used + 1] = job[j].g,
                                 !.dirs = books.dirs \cup {books.used + 1}]
      BY DEF Saves
    <3> QED
      BY <3>1, <3>2, <3>3 DEF Inv, BookShapes, BookRecords
  <2>2. why' \in [Books -> SUBSET {"overlap", "late", "unmarked"}]
    BY DEF Inv, BookShapes, Saves, history
  <2>3. unmarked' \subseteq Books
    BY DEF Inv, BookShapes, Saves, history
  <2>4. strays' \subseteq Books
    BY DEF Inv, BookShapes, Saves, history
  <2> QED
    BY <2>1, <2>2, <2>3, <2>4 DEF BookShapes
<1>5. JobsOK'
  <2>1. edits \in Nat /\ edits' = edits
    BY DEF Inv, SettingShapes, Saves, history
  <2>2. books.used + 1 \in 0..MaxBooks /\ books.used + 1 \in Books /\ job[j].pc = "save"
    BY PodcastAssumption DEF Inv, BookShapes, BookRecords, Saves, Books
  <2>3. job' = [job EXCEPT ![j].pc = "create", ![j].book = books.used + 1]
    BY DEF Saves
  <2>31. job'[j] = [job[j] EXCEPT !.pc = "create", !.book = books.used + 1]
         /\ job' = [job EXCEPT ![j] = job'[j]]
    BY <2>3 DEF Inv, JobsOK
  <2>32. job'[j] \in JobRecords
    BY <1>0, <2>2, <2>31 DEF JobRecords, RefreshPCs, DownloadPCs
  <2>33. JobOK(job'[j], edits')
    BY <1>0, <2>2, <2>31 DEF JobOK, RefreshPCs, DownloadPCs, Holding
  <2> QED
    BY <2>1, <2>31, <2>32, <2>33, OneJob DEF Inv
<1> QED
  BY <1>1, <1>4, <1>5 DEF Inv

\* The rows of the book are there.
LEMMA CreatesInv ==
  ASSUME Inv, NEW j \in Jobs, Creates(j)
  PROVE  Inv'
<1>0. job[j] \in JobRecords /\ JobOK(job[j], edits)
  BY DEF Inv, JobsOK
<1>1. SettingShapes' /\ EpisodeShapes' /\ EditOK' /\ faults' \in 0..MaxFaults
  BY Frame DEF Creates, rows, caches, history
<1>4. BookShapes'
  <2>1. books' \in BookRecords
    BY DEF Inv, BookShapes, BookRecords, JobsOK, JobOK, Creates
  <2>2. why' \in [Books -> SUBSET {"overlap", "late", "unmarked"}]
    BY DEF Inv, BookShapes, Creates
  <2>3. unmarked' \subseteq Books
    BY DEF Inv, BookShapes, Creates
  <2>4. strays' \subseteq Books
    BY DEF Inv, BookShapes, Creates
  <2> QED
    BY <2>1, <2>2, <2>3, <2>4 DEF BookShapes
<1>5. JobsOK'
  <2>1. edits \in Nat /\ edits' = edits
    BY PodcastAssumption DEF Inv, SettingShapes, Creates, rows, caches, history
  <2>31. job' = [job EXCEPT ![j] = job'[j]]
    BY PodcastAssumption DEF Inv, JobsOK, Creates, rows, caches, history
  <2>32. job'[j] \in JobRecords
    BY <1>0 DEF Inv, JobsOK, JobRecords, DownloadPCs, Creates
  <2>33. JobOK(job'[j], edits')
    BY DEF Inv, JobsOK, JobOK, RefreshPCs, DownloadPCs, Holding, Creates
  <2> QED
    BY <2>1, <2>31, <2>32, <2>33, OneJob DEF Inv
<1> QED
  BY <1>1, <1>4, <1>5 DEF Inv

\* The rows are refused.
LEMMA CreateFailsInv ==
  ASSUME Inv, NEW j \in Jobs, CreateFails(j)
  PROVE  Inv'
<1>0. job[j] \in JobRecords /\ JobOK(job[j], edits)
  BY DEF Inv, JobsOK
<1>1. SettingShapes' /\ EpisodeShapes' /\ EditOK'
  BY Frame DEF CreateFails, rows, caches, history
<1>4. BookShapes'
  <2>1. books' \in BookRecords
    BY DEF Inv, BookShapes, BookRecords, CreateFails
  <2>2. why' \in [Books -> SUBSET {"overlap", "late", "unmarked"}]
    BY DEF Inv, BookShapes, CreateFails
  <2>3. unmarked' \subseteq Books
    BY DEF Inv, BookShapes, CreateFails
  <2>4. strays' \subseteq Books
    BY DEF Inv, BookShapes, JobsOK, JobOK, CreateFails
  <2> QED
    BY <2>1, <2>2, <2>3, <2>4 DEF BookShapes
<1>5. JobsOK'
  <2>1. edits \in Nat /\ edits' = edits
    BY DEF Inv, SettingShapes, CreateFails
  <2>13. Running(j) /\ Errs(j) /\ edits' = edits
    BY <1>0 DEF Running, Errs, CreateFails, rows, caches, history
  <2> QED
    BY <2>13, ErrsOK
<1>7. faults' \in 0..MaxFaults
  BY PodcastAssumption DEF Inv, CreateFails, rows, caches, history, Errs
<1> QED
  BY <1>1, <1>4, <1>5, <1>7 DEF Inv

\* The episode gets its book, or the book is gone.
LEMMA MarksInv ==
  ASSUME Inv, NEW j \in Jobs, Marks(j)
  PROVE  Inv'
<1>0. job[j] \in JobRecords /\ JobOK(job[j], edits)
  BY DEF Inv, JobsOK
<1>1. SettingShapes' /\ EditOK' /\ faults' \in 0..MaxFaults
  BY Frame DEF Marks, rows, caches, history
<1>2. BookShapes'
  <2>1. UNCHANGED <<books, why, strays>>
    BY DEF Marks
  <2>2. unmarked' \subseteq Books
    BY DEF Marks, Inv, BookShapes
  <2> QED
    BY <2>1, <2>2 DEF Inv, BookShapes
<1>3. EpisodeShapes'
  <2>1. episode' \in [Guids -> {None} \cup 0..MaxBooks]
    BY DEF Inv, EpisodeShapes, JobsOK, JobRecords, Marks
  <2>2. guidsC' \in {None} \cup SUBSET Guids
    BY DEF Inv, EpisodeShapes, Marks
  <2>3. episodeC' \in [Guids -> {None} \cup [downloaded : BOOLEAN, late : BOOLEAN]]
    BY DEF Inv, EpisodeShapes, Marks
  <2>4. asked' \subseteq Guids /\ promised' \subseteq Guids
    BY DEF Inv, EpisodeShapes, Marks, history
  <2>5. excused' \subseteq Guids
    BY DEF Inv, EpisodeShapes, Marks, history
  <2> QED
    BY <2>1, <2>2, <2>3, <2>4, <2>5 DEF EpisodeShapes
<1>5. JobsOK'
  <2>1. edits \in Nat /\ edits' = edits
    BY DEF Inv, SettingShapes, Marks, history
  <2>3. CASE job[j].book \in books.rows
    <3>1. job' = [job EXCEPT ![j] = Ended]
      BY <2>3 DEF Marks
    <3> QED
      BY <2>1, <3>1, EndsOK
  <2>4. CASE job[j].book \notin books.rows
    <3>14. Running(j) /\ Errs(j) /\ edits' = edits
      BY <2>4 DEF Running, Marks, history
    <3> QED
      BY <3>14, ErrsOK
  <2> QED
    BY <2>3, <2>4 DEF Marks, rows, caches, history, Errs
<1> QED
  BY <1>1, <1>2, <1>3, <1>5 DEF Inv

\* The mark fails.
LEMMA MarkFailsInv ==
  ASSUME Inv, NEW j \in Jobs, MarkFails(j)
  PROVE  Inv'
<1>0. job[j] \in JobRecords /\ JobOK(job[j], edits)
  BY DEF Inv, JobsOK
<1>1. SettingShapes' /\ EpisodeShapes' /\ EditOK'
  BY Frame DEF MarkFails, rows, caches, history
<1>4. BookShapes'
  <2>1. books' \in BookRecords
    BY DEF Inv, BookShapes, BookRecords, MarkFails
  <2>2. why' \in [Books -> SUBSET {"overlap", "late", "unmarked"}]
    BY DEF Inv, BookShapes, MarkFails
  <2>3. unmarked' \subseteq Books
    BY DEF Inv, BookShapes, JobsOK, JobOK, MarkFails
  <2>4. strays' \subseteq Books
    BY DEF Inv, BookShapes, MarkFails
  <2> QED
    BY <2>1, <2>2, <2>3, <2>4 DEF BookShapes
<1>5. JobsOK'
  <2>1. edits \in Nat /\ edits' = edits
    BY DEF Inv, SettingShapes, MarkFails
  <2>13. Running(j) /\ Errs(j) /\ edits' = edits
    BY <1>0 DEF Running, Errs, MarkFails, rows, caches, history
  <2> QED
    BY <2>13, ErrsOK
<1>7. faults' \in 0..MaxFaults
  BY PodcastAssumption DEF Inv, MarkFails, rows, caches, history, Errs
<1> QED
  BY <1>1, <1>4, <1>5, <1>7 DEF Inv

\* Anything else fails: the handler returns, and nothing but the faults changes.
LEMMA FailsInv ==
  ASSUME Inv, NEW j \in Jobs, Fails(j)
  PROVE  Inv'
<1>0. job[j] \in JobRecords /\ JobOK(job[j], edits)
  BY DEF Inv, JobsOK
<1>1. SettingShapes' /\ EpisodeShapes' /\ BookShapes' /\ EditOK'
  BY Frame DEF Fails, rows, caches, history
<1>5. JobsOK'
  <2>1. edits \in Nat /\ edits' = edits
    BY DEF Inv, SettingShapes, Fails, history
  <2>13. Running(j) /\ Errs(j) /\ edits' = edits
    BY <1>0 DEF Running, Errs, Fails, rows, caches, history
  <2> QED
    BY <2>13, ErrsOK
<1>7. faults' \in 0..MaxFaults
  BY PodcastAssumption DEF Inv, Fails, rows, caches, history, Errs
<1> QED
  BY <1>1, <1>5, <1>7 DEF Inv

\* A crash ends the running jobs and empties the caches.
LEMMA CrashInv ==
  ASSUME Inv, Crash
  PROVE  Inv'
<1>2. SettingShapes'
  BY DEF Inv, SettingShapes, Crash, rows
<1>3. EpisodeShapes'
  <2>1. episode' \in [Guids -> {None} \cup 0..MaxBooks]
    BY DEF Inv, EpisodeShapes, Crash, rows
  <2>2. guidsC' \in {None} \cup SUBSET Guids
    BY DEF Crash
  <2>3. episodeC' \in [Guids -> {None} \cup [downloaded : BOOLEAN, late : BOOLEAN]]
    BY DEF Crash
  <2>4. asked' \subseteq Guids /\ promised' \subseteq Guids
    BY DEF Inv, EpisodeShapes, Crash
  <2>5. excused' \subseteq Guids
    BY DEF Inv, EpisodeShapes, JobsOK, JobOK, Crash
  <2> QED
    BY <2>1, <2>2, <2>3, <2>4, <2>5 DEF EpisodeShapes
<1>4. BookShapes'
  <2>1. books' \in BookRecords
    <3>1. books \in BookRecords /\ 0 \in 0..MaxBooks
      BY PodcastAssumption DEF Inv, BookShapes
    <3>2. ASSUME NEW pc \in {"none", "done"}
          PROVE  [books EXCEPT !.removing = {}, !.ids = {}, !.cover = 0, !.purge = pc] \in BookRecords
      BY <3>1 DEF BookRecords
    <3>3. books' = [books EXCEPT !.removing = {}, !.ids = {}, !.cover = 0,
                                 !.purge = IF LibraryGone THEN books.purge ELSE "none"]
      BY DEF Crash
    <3> QED
      BY <3>2, <3>3 DEF LibraryGone
  <2>2. why' \in [Books -> SUBSET {"overlap", "late", "unmarked"}]
    BY DEF Inv, BookShapes, Crash
  <2>3. unmarked' \subseteq Books
    BY DEF Inv, BookShapes, JobsOK, JobOK, Crash
  <2>4. strays' \subseteq Books
    BY DEF Inv, BookShapes, BookRecords, JobsOK, JobOK, Crash
  <2> QED
    BY <2>1, <2>2, <2>3, <2>4 DEF BookShapes
<1>5. JobsOK'
  BY PodcastAssumption
     DEF Inv, JobsOK, JobOK, JobRecords, Copies, RefreshPCs, DownloadPCs, Holding, Crash, Ended, Fresh
<1>6. EditOK'
  BY DEF EditOK, Crash
<1>7. faults' \in 0..MaxFaults
  BY PodcastAssumption DEF Inv, Crash, rows, caches, history, Running
<1> QED
  BY <1>2, <1>3, <1>4, <1>5, <1>6, <1>7 DEF Inv

\* A cache entry goes.
LEMMA EvictInv ==
  ASSUME Inv, Evict
  PROVE  Inv'
<1>1. BookShapes' /\ JobsOK' /\ EditOK' /\ faults' \in 0..MaxFaults
  BY Frame DEF Evict, rows, caches, history
<1>2. SettingShapes'
  BY DEF Inv, SettingShapes, Evict, rows, history
<1>3. EpisodeShapes'
  BY DEF Inv, EpisodeShapes, Evict, rows, history
<1> QED
  BY <1>1, <1>2, <1>3 DEF Inv

-----------------------------------------------------------------------------
\* Every step keeps the shapes.
LEMMA NextInv ==
  ASSUME Inv, [Next]_vars
  PROVE  Inv'
<1>1. ASSUME Request PROVE Inv'
  BY <1>1, SubscribeInv, DeletePodcastInv, EditInv, EditGetsInv, EditStoresInv, EditWritesInv,
     DeleteBookInv, RemoveFilesInv, ReadsBookInv, PurgeInv, PurgeListsInv, PurgeDeletesInv, PurgeEndsInv,
     SavesCoverInv, AskInv DEF Request
<1>2. ASSUME NEW j \in Jobs, Refresh(j) PROVE Inv'
  <2>1. CASE RefreshGets(j)
    BY <2>1, GetsInv, StoresInv DEF RefreshGets
  <2> QED
    BY <1>2, <2>1, ListsGuidsInv, StoresGuidsInv, SavesCheckInv, UpsertsInv, EnqueuesDownloadInv DEF Refresh
<1>3. ASSUME NEW j \in Jobs, Download(j) PROVE Inv'
  <2>1. CASE DownloadGets(j)
    BY <2>1, GetsInv, StoresInv DEF DownloadGets
  <2> QED
    BY <1>3, <2>1, GetsEpisodeInv, StoresEpisodeInv, SavesInv, CreatesInv, CreateFailsInv,
       MarksInv, MarkFailsInv DEF Download
<1>4. CASE UNCHANGED vars
  BY <1>4, Frame DEF Inv, vars, rows, caches, history
<1> QED
  BY <1>1, <1>2, <1>3, <1>4, StartInv, FailsInv, CrashInv, EvictInv DEF Next

\* The shapes hold throughout.
LEMMA InvHolds == Spec => []Inv
<1> QED
  BY InitInv, NextInv, PTL DEF Spec

-----------------------------------------------------------------------------
RunningJobs == {j \in Jobs : Running(j)}

\* A step that starts no job runs no more of them.
LEMMA FewerRun ==
  ASSUME Cardinality(RunningJobs) <= Workers, RunningJobs' \subseteq RunningJobs
  PROVE  Cardinality(RunningJobs') <= Workers
<1>1. IsFiniteSet(RunningJobs)
  BY PodcastAssumption, FS_Subset DEF RunningJobs
<1>2. Cardinality(RunningJobs') <= Cardinality(RunningJobs)
      /\ Cardinality(RunningJobs) \in Nat /\ Cardinality(RunningJobs') \in Nat
  BY <1>1, FS_Subset, FS_CardinalityType
<1> QED
  BY <1>2, PodcastAssumption

\* A step of a job changes that job only, and is taken by a job that runs.
LEMMA OwnStep ==
  ASSUME JobsOK, NEW j \in Jobs, Refresh(j) \/ Download(j) \/ Fails(j), ~EnqueuesDownload(j)
  PROVE  Running(j) /\ \A i \in Jobs \ {j} : job'[i] = job[i]
<1> DEFINE Own == Running(j) /\ \A i \in Jobs \ {j} : job'[i] = job[i]
<1> USE DEF JobsOK, Running
<1>1. CASE Gets(j, "get", "store", "feed")
  BY <1>1 DEF Gets, Errs
<1>2. CASE Gets(j, "podcast", "storePodcast", "save")
  BY <1>2 DEF Gets, Errs
<1>3. CASE Stores(j, "store", "feed")
  BY <1>3 DEF Stores
<1>4. CASE Stores(j, "storePodcast", "save")
  BY <1>4 DEF Stores
<1>5. CASE ListsGuids(j)
  BY <1>5 DEF ListsGuids
<1>6. CASE StoresGuids(j)
  BY <1>6 DEF StoresGuids, Goes
<1>7. CASE SavesCheck(j)
  BY <1>7 DEF SavesCheck, Goes, Errs
<1>8. ASSUME NEW g \in Guids, Upserts(j, g) PROVE Own
  BY <1>8 DEF Upserts, Errs
<1>9. CASE GetsEpisode(j)
  BY <1>9 DEF GetsEpisode, Errs
<1>10. CASE StoresEpisode(j)
  BY <1>10 DEF StoresEpisode
<1>11. CASE Saves(j)
  BY <1>11 DEF Saves
<1>12. CASE Creates(j)
  BY <1>12 DEF Creates
<1>13. CASE CreateFails(j)
  BY <1>13 DEF CreateFails, Errs
<1>14. CASE Marks(j)
  BY <1>14 DEF Marks, Errs
<1>15. CASE MarkFails(j)
  BY <1>15 DEF MarkFails, Errs
<1>16. CASE Fails(j)
  BY <1>16 DEF Fails, Errs
<1> QED
  BY <1>1, <1>2, <1>3, <1>4, <1>5, <1>6, <1>7, <1>8, <1>9, <1>10, <1>11, <1>12, <1>13, <1>14, <1>15, <1>16
     DEF Refresh, Download, RefreshGets, DownloadGets

\* At most Workers jobs run: only a start adds to them, and it looks first.
LEMMA FewRun ==
  ASSUME JobsOK, [Next]_vars, Cardinality(RunningJobs) <= Workers
  PROVE  Cardinality(RunningJobs') <= Workers
<1>1. CASE Request
  <2>1. ASSUME NEW j \in Jobs, NEW kind \in {"refresh", "all", "download"}, NEW g \in Guids \cup {None},
               Ask(j, kind, g)
        PROVE  RunningJobs' \subseteq RunningJobs
    BY <2>1 DEF JobsOK, RunningJobs, Running, Ask, Queued, Fresh
  <2>2. job' = job \/ \E j \in Jobs, kind \in {"refresh", "all", "download"}, g \in Guids \cup {None} : Ask(j, kind, g)
    BY <1>1
       DEF Request, Subscribe, DeletePodcast, Edit, EditGets, EditStores, EditWrites, DeleteBook,
           RemoveFiles, ReadsBook, Purge, PurgeLists, PurgeDeletes, PurgeEnds, SavesCover
  <2>3. RunningJobs' \subseteq RunningJobs
    BY <2>1, <2>2 DEF RunningJobs, Running
  <2> QED
    BY <2>3, FewerRun
<1>2. ASSUME NEW j \in Jobs, Start(j) PROVE Cardinality(RunningJobs') <= Workers
  <2>1. RunningJobs' \subseteq RunningJobs \cup {j}
    <3>1. ASSUME NEW i \in Jobs, i # j PROVE job'[i].pc = job[i].pc
      BY <1>2, <3>1 DEF JobsOK, JobRecords, Start
    <3> QED
      BY <3>1 DEF RunningJobs, Running
  <2>2. IsFiniteSet(RunningJobs) /\ Cardinality(RunningJobs) < Workers
    BY <1>2, PodcastAssumption, FS_Subset DEF RunningJobs, Start
  <2>3. IsFiniteSet(RunningJobs \cup {j}) /\ Cardinality(RunningJobs \cup {j}) <= Cardinality(RunningJobs) + 1
    BY <2>2, FS_AddElement, FS_CardinalityType
  <2>4. Cardinality(RunningJobs') <= Cardinality(RunningJobs \cup {j})
        /\ Cardinality(RunningJobs) \in Nat /\ Cardinality(RunningJobs') \in Nat
        /\ Cardinality(RunningJobs \cup {j}) \in Nat
    BY <2>1, <2>2, <2>3, FS_Subset, FS_CardinalityType
  <2> QED
    BY <2>2, <2>3, <2>4, PodcastAssumption
<1>3. ASSUME NEW j \in Jobs, Refresh(j) \/ Download(j) \/ Fails(j) PROVE RunningJobs' \subseteq RunningJobs
  <2>1. CASE EnqueuesDownload(j)
    <3>1. Running(j)
      BY <2>1 DEF EnqueuesDownload, Running
    <3>2. ASSUME NEW k \in Jobs, job' = [job EXCEPT ![k] = Queued("download", job[j].g), ![j] = GoesOn(j, job[j].todo)]
          PROVE  RunningJobs' \subseteq RunningJobs
      BY <3>1, <3>2 DEF JobsOK, RunningJobs, Running, Queued, Fresh
    <3>3. CASE Errs(j)
      BY <3>1, <3>3 DEF JobsOK, RunningJobs, Running, Errs
    <3> QED
      BY <2>1, <3>2, <3>3 DEF EnqueuesDownload, Unused
  <2>2. CASE ~EnqueuesDownload(j)
    BY <1>3, <2>2, OwnStep DEF RunningJobs, Running
  <2> QED
    BY <2>1, <2>2
<1>4. CASE Crash
  <2>1. RunningJobs' \subseteq RunningJobs
    BY <1>4 DEF Crash, RunningJobs, Running, Ended, Fresh
  <2> QED
    BY <2>1, FewerRun
<1>5. CASE Evict \/ UNCHANGED vars
  <2>1. RunningJobs' \subseteq RunningJobs
    BY <1>5 DEF Evict, vars, RunningJobs, Running
  <2> QED
    BY <2>1, FewerRun
<1> QED
  BY <1>1, <1>2, <1>3, <1>4, <1>5, FewerRun DEF Next

\* Shapes and bounds hold throughout: the handler of a job is called at most Attempts
\* times, and at most Workers jobs run.
THEOREM TypeCorrect == Spec => []TypeOK
<1>1. Init => Cardinality(RunningJobs) <= Workers
  <2>1. Init => RunningJobs = {}
    BY DEF Init, RunningJobs, Running, Free, Fresh
  <2> QED
    BY <2>1, FS_EmptySet, PodcastAssumption
<1>2. Inv /\ Cardinality(RunningJobs) <= Workers /\ [Next]_vars => (Cardinality(RunningJobs) <= Workers)'
  BY FewRun DEF Inv
<1>3. Inv /\ Cardinality(RunningJobs) <= Workers => TypeOK
  BY DEF Inv, JobsOK, TypeOK, RunningJobs
<1> QED
  BY <1>1, <1>2, <1>3, InvHolds, PTL DEF Spec

-----------------------------------------------------------------------------
\* Where a book is on its way from the saved file to the row and back: a row has its
\* files, and files being removed have no row, unless a failed deletion of the library has
\* spoiled the book; the files of a book that is still to be created are its download's
\* own, and neither a list nor a cover knows of them.
BookInv ==
  /\ books.spoiled \subseteq books.rows
  /\ books.rows \subseteq books.dirs \cup books.spoiled
  /\ books.removing \cap books.rows \subseteq books.spoiled
  /\ books.dirs \cup books.rows \cup books.removing \cup books.ids \subseteq 1..books.used
  /\ books.cover \in 0..books.used
  /\ \A j \in Jobs : job[j].pc = "create" =>
       /\ job[j].book \in books.dirs
       /\ job[j].book \notin books.rows \cup books.removing \cup books.ids \cup {books.cover}
  /\ \A i, j \in Jobs : i # j /\ job[i].pc = "create" /\ job[j].pc = "create" => job[i].book # job[j].book
  /\ \A g \in Guids : episode[g] \notin {None, 0} => episode[g] \in books.rows
  /\ \A b \in books.dirs \ books.rows :
       b \in books.removing \cup strays \/ \E j \in Jobs : job[j].pc = "create" /\ job[j].book = b

\* No job comes to a book's creation, or leaves it.
CreatesKept ==
  \A i \in Jobs : /\ job'[i].pc = "create" <=> job[i].pc = "create"
                  /\ job[i].pc = "create" => job'[i].book = job[i].book

\* Steps that leave the books alone, and give episodes no book without a row.
LEMMA BookFrame ==
  ASSUME BookInv, UNCHANGED <<books, strays>>, CreatesKept,
         \A g \in Guids : episode'[g] \in {episode[g], None, 0} \cup books.rows
  PROVE  BookInv'
BY DEF BookInv, CreatesKept

\* A job that errs is not about to create a book afterwards.
LEMMA ReturnedElsewhere ==
  ASSUME NEW j \in Jobs
  PROVE  Returned(j).pc # "create"
BY DEF Returned, Ended, Fresh

\* A step of a running job that is not about its book.
LEMMA QuietStep ==
  ASSUME Inv, NEW j \in Jobs, Refresh(j) \/ Download(j) \/ Fails(j), ~EnqueuesDownload(j),
         job[j].pc # "create", job'[j].pc # "create"
  PROVE  CreatesKept
BY OwnStep DEF CreatesKept, Inv

\* A refresh touches no book.
LEMMA RefreshKeepsBooks ==
  ASSUME Inv, BookInv, NEW j \in Jobs, Refresh(j)
  PROVE  BookInv'
<1> USE ReturnedElsewhere DEF Inv, JobsOK
<1>1. UNCHANGED <<books, strays>>
  BY DEF Refresh, RefreshGets, Gets, Stores, ListsGuids, StoresGuids, SavesCheck, Upserts,
         EnqueuesDownload, history
<1>2. \A g \in Guids : episode'[g] \in {episode[g], None, 0}
  <2>1. ASSUME NEW g \in Guids, Upserts(j, g) PROVE \A h \in Guids : episode'[h] \in {episode[h], None, 0}
    BY <2>1 DEF Upserts, EpisodeShapes
  <2> QED
    BY <2>1
       DEF Refresh, RefreshGets, Gets, Stores, ListsGuids, StoresGuids, SavesCheck, EnqueuesDownload,
           rows
<1>3. CASE EnqueuesDownload(j)
  <2>1. ASSUME NEW k \in Jobs, job[k].kind = "free",
               job' = [job EXCEPT ![k] = Queued("download", job[j].g), ![j] = GoesOn(j, job[j].todo)]
        PROVE  CreatesKept
    <3>1. job[k].pc # "create"
      BY <2>1 DEF JobOK, DownloadPCs
    <3>2. Queued("download", job[j].g).pc = "queued" /\ GoesOn(j, job[j].todo).pc # "create"
      BY DEF Queued, GoesOn, Ended, Fresh, JobRecords
    <3> QED
      BY <1>3, <2>1, <3>1, <3>2 DEF EnqueuesDownload, CreatesKept
  <2>2. ASSUME Errs(j) PROVE CreatesKept
    BY <1>3, <2>2 DEF EnqueuesDownload, Errs, CreatesKept
  <2>3. CreatesKept
    BY <1>3, <2>1, <2>2 DEF EnqueuesDownload, Unused
  <2> QED
    BY <1>1, <1>2, <2>3, BookFrame
<1>4. CASE ~EnqueuesDownload(j)
  <2>1. job[j].pc # "create" /\ job'[j].pc # "create"
    <3>1. CASE RefreshGets(j)
      BY <3>1 DEF RefreshGets, Gets, Stores, Errs, JobRecords
    <3>2. CASE ListsGuids(j) \/ StoresGuids(j) \/ SavesCheck(j)
      BY <3>2 DEF ListsGuids, StoresGuids, SavesCheck, Goes, Errs, JobRecords
    <3>3. ASSUME NEW g \in Guids, Upserts(j, g) PROVE job[j].pc # "create" /\ job'[j].pc # "create"
      <4>1. job[j].pc = "upsert"
        BY <3>3 DEF Upserts
      <4>2. \A todo : GoesOn(j, todo).pc # "create"
        BY DEF GoesOn, Ended, Fresh, JobRecords
      <4>3. CASE Found
        <5>1. CASE job[j].copy.auto /\ IsNew(j, g)
          BY <3>3, <4>3, <5>1 DEF Upserts, JobRecords
        <5>2. CASE ~(job[j].copy.auto /\ IsNew(j, g))
          BY <3>3, <4>2, <4>3, <5>2 DEF Upserts
        <5> QED
          BY <4>1, <5>1, <5>2
      <4>4. CASE ~Found
        BY <3>3, <4>4 DEF Upserts, Errs
      <4> QED
        BY <4>1, <4>3, <4>4
    <3> QED
      BY <1>4, <3>1, <3>2, <3>3 DEF Refresh
  <2> QED
    BY <1>1, <1>2, <1>4, <2>1, QuietStep, BookFrame
<1> QED
  BY <1>3, <1>4

\* A fresh book has files and its download is at work on it.
LEMMA SavesKeepsBooks ==
  ASSUME Inv, BookInv, NEW j \in Jobs, Saves(j)
  PROVE  BookInv'
<1> DEFINE b == books.used + 1
<1>0. books.used \in Nat /\ 1..books.used \subseteq 1..b /\ 0..books.used \subseteq 0..b /\ b \in 1..b
  BY PodcastAssumption DEF Inv, BookShapes, BookRecords
<1>1. b \notin 1..books.used /\ b # books.cover
  BY <1>0 DEF BookInv
<1>2. /\ books'.used = b /\ books'.dirs = books.dirs \cup {b}
      /\ books'.rows = books.rows /\ books'.removing = books.removing /\ books'.ids = books.ids
      /\ books'.cover = books.cover /\ books'.spoiled = books.spoiled
  BY DEF Saves, Inv, BookShapes, BookRecords
<1>3. job'[j].pc = "create" /\ job'[j].book = b /\ job[j].pc # "create"
      /\ \A i \in Jobs \ {j} : job'[i] = job[i]
  BY DEF Saves, Inv, JobsOK, JobRecords
<1>4. UNCHANGED <<episode, strays>>
  BY DEF Saves, rows, history
<1> HIDE DEF b
<1>5. /\ books'.dirs \cup books'.rows \cup books'.removing \cup books'.ids \subseteq 1..books'.used
      /\ books'.cover \in 0..books'.used
  BY <1>0, <1>2 DEF BookInv
<1>6. b \notin books.dirs \cup books.rows \cup books.removing \cup books.ids \cup {books.cover}
  BY <1>1 DEF BookInv
<1> QED
  BY <1>2, <1>3, <1>4, <1>5, <1>6 DEF BookInv

\* A created book has rows and files.
LEMMA CreatesKeepsBooks ==
  ASSUME Inv, BookInv, NEW j \in Jobs, Creates(j)
  PROVE  BookInv'
<1>1. /\ books'.rows = books.rows \cup {job[j].book} /\ books'.used = books.used
      /\ books'.removing = books.removing /\ books'.dirs = books.dirs /\ books'.ids = books.ids
      /\ books'.cover = books.cover /\ books'.spoiled = books.spoiled
  BY DEF Creates, Inv, BookShapes, BookRecords
<1>2. job[j].pc = "create" /\ job'[j].pc = "mark" /\ \A i \in Jobs \ {j} : job'[i] = job[i]
  BY DEF Creates, Inv, JobsOK, JobRecords
<1>3. UNCHANGED <<episode, strays>>
  BY DEF Creates, rows, history
<1> QED
  BY <1>1, <1>2, <1>3 DEF BookInv

\* The files of a refused book go, or a fault explains them.
LEMMA CreateFailsKeepsBooks ==
  ASSUME Inv, BookInv, NEW j \in Jobs, CreateFails(j)
  PROVE  BookInv'
<1>1. job[j].pc = "create" /\ job'[j].pc # "create" /\ \A i \in Jobs \ {j} : job'[i] = job[i]
  BY ReturnedElsewhere DEF CreateFails, Errs, Inv, JobsOK
<1>2. UNCHANGED episode
  BY DEF CreateFails, rows
<1>3. CASE books' = [books EXCEPT !.dirs = @ \ {job[j].book}] /\ UNCHANGED strays
  <2>1. /\ books'.dirs = books.dirs \ {job[j].book} /\ books'.used = books.used
        /\ books'.removing = books.removing /\ books'.rows = books.rows /\ books'.ids = books.ids
        /\ books'.cover = books.cover /\ books'.spoiled = books.spoiled
    BY <1>3 DEF Inv, BookShapes, BookRecords
  <2> QED
    BY <1>1, <1>2, <1>3, <2>1 DEF BookInv
<1>4. CASE strays' = strays \cup {job[j].book} /\ UNCHANGED books
  BY <1>1, <1>2, <1>4 DEF BookInv
<1> QED
  BY <1>3, <1>4 DEF CreateFails

\* The steps of a download: those before it saves are quiet, the others are above or the marking.
LEMMA DownloadKeepsBooks ==
  ASSUME Inv, BookInv, NEW j \in Jobs, Download(j)
  PROVE  BookInv'
<1> USE ReturnedElsewhere DEF Inv, JobsOK
<1>1. CASE GetsEpisode(j) \/ StoresEpisode(j) \/ DownloadGets(j)
  <2>1. UNCHANGED <<books, strays, episode>>
    BY <1>1 DEF GetsEpisode, StoresEpisode, DownloadGets, Gets, Stores, history, rows
  <2>2. job[j].pc # "create" /\ job'[j].pc # "create"
    <3>1. CASE GetsEpisode(j)
      <4>1. \A downloaded, late : Decided(j, downloaded, late).pc # "create"
        BY DEF Decided, Ended, Fresh, JobRecords
      <4> QED
        BY <3>1, <4>1 DEF GetsEpisode, Errs, JobRecords
    <3>2. CASE StoresEpisode(j)
      BY <3>2 DEF StoresEpisode, Decided, Ended, Fresh, JobRecords
    <3>3. CASE DownloadGets(j)
      BY <3>3 DEF DownloadGets, Gets, Stores, Errs, JobRecords
    <3> QED
      BY <1>1, <3>1, <3>2, <3>3
  <2>3. ~EnqueuesDownload(j)
    BY <1>1 DEF EnqueuesDownload, GetsEpisode, StoresEpisode, DownloadGets, Gets, Stores
  <2> QED
    BY <2>1, <2>2, <2>3, QuietStep, BookFrame
<1>2. CASE Marks(j) \/ MarkFails(j)
  <2>1. UNCHANGED <<books, strays>>
    BY <1>2 DEF Marks, MarkFails, history
  <2>2. job[j].pc # "create" /\ job'[j].pc # "create" /\ ~EnqueuesDownload(j)
    BY <1>2 DEF Marks, MarkFails, Errs, Ended, Fresh, EnqueuesDownload
  <2>3. \A g \in Guids : episode'[g] \in {episode[g]} \cup books.rows
    BY <1>2 DEF Marks, MarkFails, rows, EpisodeShapes
  <2> QED
    BY <2>1, <2>2, <2>3, QuietStep, BookFrame
<1> QED
  BY <1>1, <1>2, SavesKeepsBooks, CreatesKeepsBooks, CreateFailsKeepsBooks DEF Download

\* No episode counts as downloaded for books that are gone, and their files are being
\* removed.
LEMMA DroppedKeepsBooks ==
  ASSUME Inv, BookInv, NEW gone \in SUBSET 1..books.used,
         \A j \in Jobs : job[j].pc = "create" => job[j].book \notin gone,
         books'.rows = books.rows \ gone, books'.spoiled = books.spoiled \ gone,
         books'.removing = books.removing \cup gone,
         books'.dirs = books.dirs, books'.used = books.used, books'.ids = books.ids,
         books'.cover = books.cover,
         \A g \in Guids : episode'[g] = IF episode[g] \in gone THEN 0 ELSE episode[g],
         UNCHANGED <<job, strays>>
  PROVE  BookInv'
BY DEF BookInv

\* The deletion of one book.
LEMMA DeleteBookKeepsBooks ==
  ASSUME Inv, BookInv, NEW b \in Books, DeleteBook(b)
  PROVE  BookInv'
<1>1. /\ b \in books.rows /\ books'.rows = books.rows \ {b} /\ books'.removing = books.removing \cup {b}
      /\ books'.used = books.used /\ books'.dirs = books.dirs /\ books'.ids = books.ids
      /\ books'.cover = books.cover /\ books'.spoiled = books.spoiled \ {b}
  BY DEF DeleteBook, Inv, BookShapes, BookRecords
<1>2. \A g \in Guids : episode'[g] = IF episode[g] \in {b} THEN 0 ELSE episode[g]
  BY DEF DeleteBook, Dropped
<1>3. UNCHANGED <<job, strays>>
  BY DEF DeleteBook
<1>4. {b} \in SUBSET 1..books.used /\ \A j \in Jobs : job[j].pc = "create" => job[j].book \notin {b}
  BY <1>1 DEF BookInv
<1> QED
  BY <1>1, <1>2, <1>3, <1>4, DroppedKeepsBooks

\* What a failed deletion of the library lists is spoiled, what it deletes has no row.
LEMMA PurgeDeletesKeepsBooks ==
  ASSUME Inv, BookInv, PurgeDeletes
  PROVE  BookInv'
<1>0. UNCHANGED <<job, strays>> /\ books \in BookRecords
  BY DEF PurgeDeletes, Inv, BookShapes
<1>1. books.ids \in SUBSET 1..books.used /\ \A j \in Jobs : job[j].pc = "create" => job[j].book \notin books.ids
  BY DEF BookInv
<1>2. CASE /\ books' = [books EXCEPT !.purge = "list", !.removing = @ \cup books.ids,
                                     !.rows = @ \ books.ids, !.spoiled = @ \ books.ids]
           /\ Dropped(books.ids)
  <2>1. /\ books'.rows = books.rows \ books.ids /\ books'.spoiled = books.spoiled \ books.ids
        /\ books'.removing = books.removing \cup books.ids /\ books'.dirs = books.dirs
        /\ books'.used = books.used /\ books'.ids = books.ids /\ books'.cover = books.cover
    BY <1>0, <1>2 DEF BookRecords
  <2>2. \A g \in Guids : episode'[g] = IF episode[g] \in books.ids THEN 0 ELSE episode[g]
    BY <1>2 DEF Dropped
  <2> QED
    BY <1>0, <1>1, <2>1, <2>2, DroppedKeepsBooks
<1>3. CASE /\ books' = [books EXCEPT !.purge = "list", !.removing = @ \cup books.ids,
                                     !.spoiled = @ \cup (books.ids \cap books.rows)]
           /\ UNCHANGED episode
  <2>1. /\ books'.rows = books.rows /\ books'.spoiled = books.spoiled \cup (books.ids \cap books.rows)
        /\ books'.removing = books.removing \cup books.ids /\ books'.dirs = books.dirs
        /\ books'.used = books.used /\ books'.ids = books.ids /\ books'.cover = books.cover
    BY <1>0, <1>3 DEF BookRecords
  <2> QED
    BY <1>0, <1>1, <1>3, <2>1 DEF BookInv
<1> QED
  BY <1>2, <1>3 DEF PurgeDeletes

\* A list holds books with rows only.
LEMMA PurgeListsKeepsBooks ==
  ASSUME Inv, BookInv, Purge \/ PurgeLists
  PROVE  BookInv'
<1>1. /\ books'.rows = books.rows /\ books'.spoiled = books.spoiled /\ books'.removing = books.removing
      /\ books'.dirs = books.dirs /\ books'.used = books.used /\ books'.cover = books.cover
      /\ books'.ids \in {{}, books.rows, books.ids}
  BY DEF Purge, PurgeLists, Inv, BookShapes, BookRecords
<1>2. UNCHANGED <<job, episode, strays>>
  BY DEF Purge, PurgeLists, rows, history
<1> QED
  BY <1>1, <1>2 DEF BookInv

\* The directories of the books that go with the library are stray.
LEMMA PurgeEndsKeepsBooks ==
  ASSUME Inv, BookInv, PurgeEnds
  PROVE  BookInv'
<1>0. books \in BookRecords /\ UNCHANGED job
  BY DEF Inv, BookShapes, PurgeEnds
<1>1. CASE /\ books' = [books EXCEPT !.purge = "done", !.rows = {}, !.spoiled = {}]
           /\ strays' = strays \cup books.rows
           /\ episode' = [g \in Guids |-> None]
  <2>1. /\ books'.rows = {} /\ books'.spoiled = {} /\ books'.removing = books.removing
        /\ books'.dirs = books.dirs /\ books'.used = books.used /\ books'.cover = books.cover
        /\ books'.ids = books.ids
    BY <1>0, <1>1 DEF BookRecords
  <2> QED
    BY <1>0, <1>1, <2>1 DEF BookInv
<1>2. CASE (\E pc \in {"none", "list"} : books' = [books EXCEPT !.purge = pc]) /\ UNCHANGED <<episode, strays>>
  <2>1. /\ books'.rows = books.rows /\ books'.spoiled = books.spoiled /\ books'.removing = books.removing
        /\ books'.dirs = books.dirs /\ books'.used = books.used /\ books'.cover = books.cover
        /\ books'.ids = books.ids
    BY <1>0, <1>2 DEF BookRecords
  <2> QED
    BY <1>0, <1>2, <2>1 DEF BookInv
<1> QED
  BY <1>1, <1>2 DEF PurgeEnds, rows

\* A cover is for a book that has a row when it is read.
LEMMA ReadsBookKeepsBooks ==
  ASSUME Inv, BookInv, NEW b \in Books, ReadsBook(b)
  PROVE  BookInv'
<1>1. /\ books'.rows = books.rows /\ books'.spoiled = books.spoiled /\ books'.removing = books.removing
      /\ books'.dirs = books.dirs /\ books'.used = books.used /\ books'.ids = books.ids
      /\ books'.cover = b
  BY DEF ReadsBook, Inv, BookShapes, BookRecords
<1>2. UNCHANGED <<job, episode, strays>> /\ b \in books.rows
  BY DEF ReadsBook, rows, history
<1>3. b \in 0..books.used
  BY <1>2, PodcastAssumption DEF BookInv, Inv, BookShapes, BookRecords
<1> QED
  BY <1>1, <1>2, <1>3 DEF BookInv

\* A directory that only a late cover has made is stray.
LEMMA SavesCoverKeepsBooks ==
  ASSUME Inv, BookInv, SavesCover
  PROVE  BookInv'
<1>1. /\ books'.rows = books.rows /\ books'.spoiled = books.spoiled /\ books'.removing = books.removing
      /\ books'.dirs = books.dirs \cup {books.cover} /\ books'.used = books.used
      /\ books'.ids = books.ids /\ books'.cover = 0
  BY DEF SavesCover, Inv, BookShapes, BookRecords
<1>2. /\ UNCHANGED <<job, episode>>
      /\ strays' = strays \cup ({books.cover} \ (books.rows \cup books.dirs))
  BY DEF SavesCover, rows
<1>3. books.cover \in 1..books.used /\ 0 \in 0..books.used
  BY PodcastAssumption DEF SavesCover, BookInv, Inv, BookShapes, BookRecords
<1>4. \A j \in Jobs : job[j].pc = "create" => job[j].book # 0
  BY <1>3 DEF Inv, JobsOK, JobOK, Books
<1> QED
  BY <1>1, <1>2, <1>3, <1>4 DEF BookInv

\* Files are removed from books without rows, or spoiled, only.
LEMMA RemoveFilesKeepsBooks ==
  ASSUME Inv, BookInv, NEW b \in Books, RemoveFiles(b)
  PROVE  BookInv'
<1>1. UNCHANGED <<job, episode>> /\ b \in books.removing
  BY DEF RemoveFiles, rows
<1>2. CASE books' = [books EXCEPT !.removing = @ \ {b}, !.dirs = @ \ {b}] /\ UNCHANGED strays
  <2>1. /\ books'.removing = books.removing \ {b} /\ books'.dirs = books.dirs \ {b}
        /\ books'.used = books.used /\ books'.rows = books.rows /\ books'.ids = books.ids
        /\ books'.cover = books.cover /\ books'.spoiled = books.spoiled
    BY <1>2 DEF Inv, BookShapes, BookRecords
  <2> QED
    BY <1>1, <1>2, <2>1 DEF BookInv
<1>3. CASE books' = [books EXCEPT !.removing = @ \ {b}] /\ strays' = strays \cup {b}
  <2>1. /\ books'.removing = books.removing \ {b} /\ books'.dirs = books.dirs
        /\ books'.used = books.used /\ books'.rows = books.rows /\ books'.ids = books.ids
        /\ books'.cover = books.cover /\ books'.spoiled = books.spoiled
    BY <1>3 DEF Inv, BookShapes, BookRecords
  <2> QED
    BY <1>1, <1>3, <2>1 DEF BookInv
<1> QED
  BY <1>2, <1>3 DEF RemoveFiles

\* What a crash interrupts counts as stray.
LEMMA CrashKeepsBooks ==
  ASSUME Inv, BookInv, Crash
  PROVE  BookInv'
<1>1. /\ books'.removing = {} /\ books'.rows = books.rows /\ books'.used = books.used
      /\ books'.dirs = books.dirs /\ books'.ids = {} /\ books'.cover = 0 /\ books'.spoiled = books.spoiled
  BY DEF Crash, Inv, BookShapes, BookRecords
<1>2. \A j \in Jobs : job'[j].pc # "create"
  BY DEF Crash, Running, Ended, Fresh
<1>3. UNCHANGED episode
  BY DEF Crash, rows
<1>4. books.removing \subseteq strays' /\ strays \subseteq strays'
      /\ \A j \in Jobs : job[j].pc = "create" => job[j].book \in strays'
  BY DEF Crash
<1>5. 0 \in 0..books.used
  BY PodcastAssumption DEF Inv, BookShapes, BookRecords
<1> QED
  BY <1>1, <1>2, <1>3, <1>4, <1>5 DEF BookInv

\* Requests: the deletions and the cover are above, the others touch no book.
LEMMA RequestKeepsBooks ==
  ASSUME Inv, BookInv, Request
  PROVE  BookInv'
<1>1. ASSUME NEW feed \in SUBSET Guids, Subscribe(feed) PROVE BookInv'
  BY <1>1, BookFrame DEF Subscribe, history, CreatesKept
<1>2. CASE DeletePodcast
  BY <1>2, BookFrame DEF DeletePodcast, CreatesKept
<1>3. CASE (\E v \in Settings : Edit(v)) \/ EditGets \/ EditStores \/ EditWrites
  <2>1. UNCHANGED <<books, strays, job, episode>>
    BY <1>3 DEF Edit, EditGets, EditStores, EditWrites, history, rows
  <2> QED
    BY <2>1, BookFrame DEF CreatesKept
<1>4. ASSUME NEW j \in Jobs, NEW kind \in {"refresh", "all", "download"}, NEW g \in Guids \cup {None},
             Ask(j, kind, g)
      PROVE  BookInv'
  <2>1. UNCHANGED <<books, strays, episode>>
    BY <1>4 DEF Ask, rows
  <2>2. job[j].pc # "create"
    BY <1>4 DEF Ask, Unused, Inv, JobsOK, JobOK, DownloadPCs
  <2>3. CreatesKept
    BY <1>4, <2>2 DEF Ask, Queued, Fresh, CreatesKept
  <2> QED
    BY <2>1, <2>3, BookFrame
<1> QED
  BY <1>1, <1>2, <1>3, <1>4, DeleteBookKeepsBooks, RemoveFilesKeepsBooks, ReadsBookKeepsBooks,
     PurgeListsKeepsBooks, PurgeDeletesKeepsBooks, PurgeEndsKeepsBooks, SavesCoverKeepsBooks DEF Request

\* A start changes the job it starts, and of the others only what they know of an overlap.
LEMMA StartStep ==
  ASSUME Inv, NEW j \in Jobs, Start(j)
  PROVE  /\ job[j].pc = "queued"
         /\ \A i \in Jobs : \/ i = j /\ job'[i].pc \in {"episode", "get", "idle"}
                            \/ /\ job'[i].pc = job[i].pc /\ job'[i].g = job[i].g
                               /\ job'[i].copy = job[i].copy /\ job'[i].known = job[i].known
                               /\ job'[i].book = job[i].book
<1>1. job[j].pc = "queued" /\ job \in [Jobs -> JobRecords]
  BY DEF Start, Inv, JobsOK
<1>2. ASSUME NEW i \in Jobs
      PROVE  \/ i = j /\ job'[i].pc \in {"episode", "get", "idle"}
             \/ /\ job'[i].pc = job[i].pc /\ job'[i].g = job[i].g
                /\ job'[i].copy = job[i].copy /\ job'[i].known = job[i].known
                /\ job'[i].book = job[i].book
  <2>1. CASE job[j].kind = "download"
    <3>1. CASE i = j
      <4>1. job'[j] = [job[j] EXCEPT !.pc = "episode", !.tries = 1, !.over = \E k \in Jobs : SameDownload(k, j)]
        BY <2>1 DEF Start
      <4> QED
        BY <3>1, <4>1, <1>1 DEF JobRecords
    <3>2. CASE i # j
      <4>1. job'[i] = [job[i] EXCEPT !.over = job[i].over \/ SameDownload(i, j)]
        BY <2>1, <3>2 DEF Start
      <4> QED
        BY <4>1, <1>1 DEF JobRecords
    <3> QED
      BY <3>1, <3>2
  <2>2. CASE job[j].kind # "download"
    BY <2>2, <1>1 DEF Start, JobRecords, Ended, Fresh
  <2> QED
    BY <2>1, <2>2
<1> QED
  BY <1>1, <1>2

\* A job that starts has no book in hand.
LEMMA StartKeepsBooks ==
  ASSUME Inv, BookInv, NEW j \in Jobs, Start(j)
  PROVE  BookInv'
<1>1. UNCHANGED <<rows, books, history>>
  BY DEF Start
<1>2. UNCHANGED <<books, strays, episode>>
  BY <1>1 DEF rows, history
<1> QED
  BY <1>2, StartStep, BookFrame DEF CreatesKept

\* Every step keeps the books in order.
LEMMA NextKeepsBooks ==
  ASSUME Inv, BookInv, [Next]_vars
  PROVE  BookInv'
<1>1. ASSUME NEW j \in Jobs, Fails(j) PROVE BookInv'
  <2>1. UNCHANGED <<books, strays, episode>>
    BY <1>1 DEF Fails, rows, history
  <2>2. job[j].pc # "create" /\ job'[j].pc # "create" /\ ~EnqueuesDownload(j)
    BY <1>1, ReturnedElsewhere DEF Fails, Errs, Inv, JobsOK, EnqueuesDownload
  <2> QED
    BY <1>1, <2>1, <2>2, QuietStep, BookFrame
<1>2. CASE Evict \/ UNCHANGED vars
  <2>1. UNCHANGED <<books, strays, job, episode>>
    BY <1>2 DEF Evict, vars, rows, history
  <2> QED
    BY <2>1, BookFrame DEF CreatesKept
<1> QED
  BY <1>1, <1>2, RequestKeepsBooks, StartKeepsBooks, RefreshKeepsBooks, DownloadKeepsBooks,
     CrashKeepsBooks DEF Next

\* There is no book at first.
LEMMA InitBooks == Init => BookInv
BY PodcastAssumption DEF Init, BookInv, Free, Fresh

\* The invariant of the books holds throughout.
LEMMA BooksHold == Spec => []BookInv
<1> QED
  BY InitBooks, NextKeepsBooks, InvHolds, PTL DEF Spec

\* An episode that counts as downloaded has its book and the book its directory, in every
\* interleaving of downloads with the deletions of books, of the podcast and of the library:
\* the foreign key refuses the marking of a deleted book, and the trigger undoes the
\* marking of one deleted later.  The one exception is a book that a deletion of the
\* library failed to delete and took the directory of all the same.
THEOREM PlayableAlways == Spec => []DownloadedIsPlayable
<1>1. BookInv => DownloadedIsPlayable
  BY DEF BookInv, DownloadedIsPlayable
<1> QED
  BY <1>1, BooksHold, PTL

\* A directory without a book belongs to a download or a deletion at work, or is one that a
\* fault, a cover saved after the removal, or the deletion of the library around a book
\* that came after its last list has left behind.
THEOREM NoStrayFilesAlways == Spec => []NoStrayFiles
<1>1. Inv /\ BookInv => NoStrayFiles
  BY DEF Inv, JobsOK, JobOK, DownloadPCs, BookInv, NoStrayFiles, At
<1> QED
  BY <1>1, BooksHold, InvHolds, PTL

-----------------------------------------------------------------------------
\* What deletes books or writes into their directories, short of the library itself.
BookRequest ==
  \/ \E b \in Books : DeleteBook(b) \/ RemoveFiles(b) \/ ReadsBook(b)
  \/ Purge \/ PurgeLists \/ PurgeDeletes \/ SavesCover

\* It leaves the settings and the jobs alone, and takes no episode away.
LEMMA BookRequestStep ==
  ASSUME Inv, BookRequest
  PROVE  /\ UNCHANGED <<podcast, edits, wish, undone, asked, promised, excused, job, edit>>
         /\ podcastC' \in {podcastC, None} /\ guidsC' \in {guidsC, None}
         /\ \A g \in Guids : episode'[g] = None <=> episode[g] = None
<1>1. ASSUME NEW gone \in SUBSET Books, Dropped(gone)
      PROVE  /\ podcastC' = None /\ guidsC' = None
             /\ \A g \in Guids : episode'[g] = None <=> episode[g] = None
  <2>1. 0 # None /\ None \notin gone
    <3>1. Books \subseteq Nat /\ 0 \in Nat
      BY PodcastAssumption DEF Books
    <3> QED
      BY <3>1, PodcastAssumption
  <2>2. \A g \in Guids : episode'[g] = IF episode[g] \in gone THEN 0 ELSE episode[g]
    BY <1>1 DEF Dropped
  <2> QED
    BY <1>1, <2>1, <2>2 DEF Dropped
<1>2. ASSUME NEW b \in Books, DeleteBook(b)
      PROVE  /\ UNCHANGED <<podcast, edits, wish, undone, asked, promised, excused, job, edit>>
             /\ podcastC' = None /\ guidsC' = None
             /\ \A g \in Guids : episode'[g] = None <=> episode[g] = None
  BY <1>1, <1>2 DEF DeleteBook
<1>3. ASSUME PurgeDeletes
      PROVE  /\ UNCHANGED <<podcast, edits, wish, undone, asked, promised, excused, job, edit>>
             /\ podcastC' \in {podcastC, None} /\ guidsC' \in {guidsC, None}
             /\ \A g \in Guids : episode'[g] = None <=> episode[g] = None
  <2>1. UNCHANGED <<podcast, edits, wish, undone, asked, promised, excused, job, edit>>
    BY <1>3 DEF PurgeDeletes
  <2>2. CASE Dropped(books.ids)
    <3>1. books.ids \in SUBSET Books
      BY DEF Inv, BookShapes, BookRecords
    <3> QED
      BY <2>1, <2>2, <3>1, <1>1
  <2>3. CASE UNCHANGED <<episode, caches>>
    BY <2>1, <2>3 DEF caches
  <2> QED
    BY <1>3, <2>2, <2>3 DEF PurgeDeletes
<1>4. ASSUME (\E b \in Books : RemoveFiles(b) \/ ReadsBook(b)) \/ Purge \/ PurgeLists \/ SavesCover
      PROVE  UNCHANGED <<podcast, edits, wish, undone, asked, promised, excused, job, edit, podcastC,
                         guidsC, episode>>
  BY <1>4 DEF RemoveFiles, ReadsBook, Purge, PurgeLists, SavesCover, rows, caches, history
<1> QED
  BY <1>2, <1>3, <1>4 DEF BookRequest

\* The end of the library is the end of the podcast.
LEMMA PurgeEndsStep ==
  ASSUME Inv, PurgeEnds
  PROVE  /\ UNCHANGED <<podcastC, guidsC, edits, job, edit>>
         /\ \/ podcast'.state = "gone" /\ promised' = {}
            \/ UNCHANGED <<podcast, episode, wish, undone, asked, promised, excused>>
BY DEF PurgeEnds, Inv, SettingShapes, rows, caches

\* A copy of the podcast is good for writing back if it says what the administrator
\* wants, or if its holder is excused.
Good(copy) == Stale(copy) \/ copy.auto = wish

\* As long as nobody with an excuse has written, the row says what is wanted, and so does
\* every copy that may be written back, the cached one included.
SettingInv ==
  /\ Found /\ ~undone =>
       /\ podcast.auto = wish
       /\ podcastC # None => podcastC.late \/ podcastC.auto = wish
       /\ edit # None /\ edit.pc # "get" => Good(edit.copy)
       /\ \A j \in Jobs : job[j].pc \in Holding => Good(job[j].copy)
  /\ podcast.state = "none" =>
       /\ podcastC = None /\ wish = FALSE /\ undone = FALSE
       /\ edit # None => edit.pc = "get"
       /\ \A j \in Jobs : job[j].pc = "idle"

\* No job holds a copy that it did not hold before.
HoldNoMore ==
  \A i \in Jobs : job'[i].pc \in Holding => job[i].pc \in Holding /\ job'[i].copy = job[i].copy

\* A step that neither writes the row nor reads it.
LEMMA SettingFrame ==
  ASSUME SettingInv, UNCHANGED <<podcast, wish, undone, edits>>, podcastC' \in {podcastC, None},
         HoldNoMore, edit' = edit \/ edit' = None \/ edit'.pc = "get",
         podcast.state = "none" => \A i \in Jobs : job'[i].pc = "idle"
  PROVE  SettingInv'
BY DEF SettingInv, HoldNoMore, Good, Stale, Found

\* What a reader of the podcast gets is good.
LEMMA GoodCopies ==
  ASSUME SettingInv, Found, ~undone
  PROVE  /\ Good(Copy(podcast.auto, FALSE))
         /\ podcastC # None => Good(Copy(podcastC.auto, podcastC.late))
BY DEF SettingInv, Good, Stale, Copy

\* A handler that errs starts again without a copy.
LEMMA ReturnedHoldsNone ==
  ASSUME NEW j \in Jobs
  PROVE  Returned(j).pc \notin Holding
BY DEF Returned, Ended, Fresh, Holding

\* There is a podcast where a job runs.
LEMMA JobsNeedPodcast ==
  ASSUME SettingInv, NEW j \in Jobs, job[j].pc # "idle"
  PROVE  podcast.state # "none"
BY DEF SettingInv

\* A step of a running job that leaves the setting alone, and holds no new copy.
LEMMA QuietHolder ==
  ASSUME Inv, SettingInv, NEW j \in Jobs, Refresh(j) \/ Download(j) \/ Fails(j), ~EnqueuesDownload(j),
         UNCHANGED <<podcast, podcastC, wish, undone, edits, edit>>,
         job'[j].pc \in Holding => job[j].pc \in Holding /\ job'[j].copy = job[j].copy
  PROVE  SettingInv'
<1>1. Running(j) /\ \A i \in Jobs \ {j} : job'[i] = job[i]
  BY OwnStep DEF Inv
<1>2. HoldNoMore
  BY <1>1 DEF HoldNoMore
<1>3. podcast.state # "none"
  BY <1>1, JobsNeedPodcast DEF Running
<1> QED
  BY <1>2, <1>3, SettingFrame

\* A fresh reading of the row agrees with the wish, or is known to be stale, or the setting was undone.
LEMMA GetsKeepsSetting ==
  ASSUME Inv, SettingInv, NEW j \in Jobs, NEW at, NEW store, NEW after,
         ((at = "get" /\ store = "store" /\ after = "feed")
            \/ (at = "podcast" /\ store = "storePodcast" /\ after = "save")), Gets(j, at, store, after)
  PROVE  SettingInv'
<1>1. UNCHANGED <<podcast, podcastC, wish, undone, edits, edit>> /\ job[j].pc = at
  BY DEF Gets, rows, caches, history
<1>2. \A i \in Jobs \ {j} : job'[i] = job[i]
  BY DEF Gets, Errs, Inv, JobsOK
<1>3. ASSUME Found, ~undone, job'[j].pc \in Holding PROVE Good(job'[j].copy)
  <2>1. CASE podcastC # None
    <3>1. job'[j].pc = after /\ job'[j].copy = Keeps(j, Copy(podcastC.auto, podcastC.late))
      BY <2>1 DEF Gets, Inv, JobsOK, JobRecords
    <3>2. job[j].kind # "download"
      BY <1>1, <1>3, <3>1 DEF Inv, JobsOK, JobOK, Holding, RefreshPCs
    <3> QED
      BY <1>3, <2>1, <3>1, <3>2, GoodCopies DEF Keeps
  <2>2. CASE podcastC = None
    <3>1. job'[j].copy = Copy(podcast.auto, FALSE)
      BY <1>3, <2>2 DEF Gets, Inv, JobsOK, JobRecords
    <3> QED
      BY <1>3, <3>1, GoodCopies
  <2> QED
    BY <2>1, <2>2
<1>4. podcast.state # "none"
  BY <1>1, JobsNeedPodcast
<1> QED
  BY <1>1, <1>2, <1>3 DEF SettingInv, Good, Stale, Found

\* The cached copy is no better than the one read.
LEMMA StoresKeepsSetting ==
  ASSUME Inv, SettingInv, NEW j \in Jobs, NEW store, NEW after,
         ((store = "store" /\ after = "feed") \/ (store = "storePodcast" /\ after = "save")), Stores(j, store, after)
  PROVE  SettingInv'
<1>1. UNCHANGED <<podcast, wish, undone, edits, edit>> /\ job[j].pc = store /\ store \in Holding
  BY DEF Stores, rows, history, Holding
<1>2. \A i \in Jobs \ {j} : job'[i] = job[i]
  BY DEF Stores, Inv, JobsOK
<1>3. job'[j].pc \in Holding => job'[j].copy = job[j].copy
  <2>1. job'[j].pc = after /\ job'[j].copy = Keeps(j, job[j].copy)
    BY DEF Stores, Inv, JobsOK, JobRecords
  <2>2. after = "feed" => job[j].kind # "download"
    BY <1>1 DEF Inv, JobsOK, JobOK, RefreshPCs
  <2> QED
    BY <2>1, <2>2 DEF Keeps, Holding
<1>4. podcast.state # "none"
  BY <1>1, JobsNeedPodcast
<1>5. podcastC' = [auto |-> job[j].copy.auto, late |-> ~Found \/ podcast.auto # job[j].copy.auto]
  BY DEF Stores, CachePodcast
<1>6. Found => podcastC'.late \/ podcastC'.auto = podcast.auto
  BY <1>5
<1> QED
  BY <1>1, <1>2, <1>3, <1>6 DEF SettingInv, Good, Stale, Found

\* Writing back a good copy leaves the row as it is wanted, or leaves a trace.
LEMMA SavesCheckKeepsSetting ==
  ASSUME Inv, SettingInv, NEW j \in Jobs, SavesCheck(j)
  PROVE  SettingInv'
<1>1. UNCHANGED <<wish, edits, edit>> /\ job[j].pc = "write"
  BY DEF SavesCheck
<1>2. \A i \in Jobs \ {j} : job'[i] = job[i]
  BY DEF SavesCheck, Errs, Goes, Inv, JobsOK
<1>3. podcast.state # "none"
  BY <1>1, JobsNeedPodcast
<1>4. CASE Found
  <2>1. podcast' = [podcast EXCEPT !.auto = job[j].copy.auto] /\ podcastC' = None
        /\ undone' = (undone \/ (job[j].copy.auto # wish /\ Stale(job[j].copy)))
    BY <1>4 DEF SavesCheck, WriteBack
  <2>2. podcast'.auto = job[j].copy.auto /\ podcast'.state = podcast.state
    BY <2>1 DEF Inv, SettingShapes
  <2>3. job'[j].copy = job[j].copy
    BY <1>4 DEF SavesCheck, Goes, Inv, JobsOK, JobRecords
  <2>4. ~undone => Good(job[j].copy)
    BY <1>1, <1>4 DEF SettingInv, Holding
  <2> QED
    BY <1>1, <1>2, <2>1, <2>2, <2>3, <2>4 DEF SettingInv, Good, Stale, Found
<1>5. CASE ~Found
  BY <1>1, <1>2, <1>3, <1>5 DEF SavesCheck, SettingInv, Found
<1> QED
  BY <1>4, <1>5

\* The steps of a refresh.
LEMMA RefreshKeepsSetting ==
  ASSUME Inv, SettingInv, NEW j \in Jobs, Refresh(j)
  PROVE  SettingInv'
<1> USE ReturnedHoldsNone
<1>1. CASE RefreshGets(j)
  BY <1>1, GetsKeepsSetting, StoresKeepsSetting DEF RefreshGets
<1>2. CASE ListsGuids(j) \/ StoresGuids(j)
  <2>1. UNCHANGED <<podcast, podcastC, wish, undone, edits, edit>>
    BY <1>2 DEF ListsGuids, StoresGuids, rows, caches, history
  <2>2. job[j].pc \in Holding /\ job'[j].copy = job[j].copy /\ ~EnqueuesDownload(j)
    BY <1>2 DEF ListsGuids, StoresGuids, Goes, EnqueuesDownload, Holding, Inv, JobsOK, JobRecords
  <2> QED
    BY <2>1, <2>2, QuietHolder
<1>3. ASSUME NEW g \in Guids, Upserts(j, g) PROVE SettingInv'
  <2>1. UNCHANGED <<podcast, podcastC, wish, undone, edits, edit>>
    BY <1>3 DEF Upserts
  <2>2. job[j].pc = "upsert" /\ ~EnqueuesDownload(j)
    BY <1>3 DEF Upserts, EnqueuesDownload
  <2>3. \A todo : GoesOn(j, todo).pc \in Holding => GoesOn(j, todo).copy = job[j].copy
    BY DEF GoesOn, Ended, Fresh, Holding
  <2>4. job'[j].pc \in Holding => job'[j].copy = job[j].copy
    <3>1. CASE Found /\ job[j].copy.auto /\ IsNew(j, g)
      BY <1>3, <3>1 DEF Upserts, Inv, JobsOK, JobRecords
    <3>2. CASE Found /\ ~(job[j].copy.auto /\ IsNew(j, g))
      BY <1>3, <3>2, <2>3 DEF Upserts, Inv, JobsOK
    <3>3. CASE ~Found
      BY <1>3, <3>3 DEF Upserts, Errs, Inv, JobsOK
    <3> QED
      BY <3>1, <3>2, <3>3
  <2> QED
    BY <2>1, <2>2, <2>4, QuietHolder DEF Holding
<1>4. CASE EnqueuesDownload(j)
  <2>1. UNCHANGED <<podcast, podcastC, wish, undone, edits, edit>> /\ job[j].pc = "enqueue"
    BY <1>4 DEF EnqueuesDownload, rows, caches
  <2>2. ASSUME NEW k \in Jobs, job[k].kind = "free",
               job' = [job EXCEPT ![k] = Queued("download", job[j].g), ![j] = GoesOn(j, job[j].todo)]
        PROVE  HoldNoMore
    <3>1. GoesOn(j, job[j].todo).pc \in Holding => GoesOn(j, job[j].todo).copy = job[j].copy
      BY DEF GoesOn, Ended, Fresh, Holding
    <3>2. Queued("download", job[j].g).pc \notin Holding
      BY DEF Queued, Fresh, Holding
    <3> QED
      BY <2>1, <2>2, <3>1, <3>2 DEF HoldNoMore, Holding, Inv, JobsOK
  <2>3. ASSUME Errs(j) PROVE HoldNoMore
    BY <2>3 DEF Errs, HoldNoMore, Inv, JobsOK
  <2>4. HoldNoMore
    BY <1>4, <2>2, <2>3 DEF EnqueuesDownload, Unused
  <2>5. podcast.state # "none"
    BY <2>1, JobsNeedPodcast
  <2> QED
    BY <2>1, <2>4, <2>5, SettingFrame
<1> QED
  BY <1>1, <1>2, <1>3, <1>4, SavesCheckKeepsSetting DEF Refresh

\* A download reads the podcast and writes none of it.
LEMMA DownloadKeepsSetting ==
  ASSUME Inv, SettingInv, NEW j \in Jobs, Download(j)
  PROVE  SettingInv'
<1> USE ReturnedHoldsNone
<1>1. CASE DownloadGets(j)
  BY <1>1, GetsKeepsSetting, StoresKeepsSetting DEF DownloadGets
<1>2. CASE ~DownloadGets(j)
  <2>1. UNCHANGED <<podcast, podcastC, wish, undone, edits, edit>>
    BY <1>2 DEF Download, GetsEpisode, StoresEpisode, Saves, Creates, CreateFails, Marks, MarkFails,
                rows, caches, history
  <2>2. ~EnqueuesDownload(j)
    BY <1>2 DEF Download, GetsEpisode, StoresEpisode, Saves, Creates, CreateFails, Marks, MarkFails,
                EnqueuesDownload
  <2>3. job'[j].pc \notin Holding
    <3>1. \A downloaded, late : Decided(j, downloaded, late).pc \notin Holding
      BY DEF Decided, Ended, Fresh, Holding
    <3>2. CASE GetsEpisode(j)
      BY <3>1, <3>2 DEF GetsEpisode, Errs, Holding, Inv, JobsOK, JobRecords
    <3>3. CASE StoresEpisode(j)
      BY <3>1, <3>3 DEF StoresEpisode, Inv, JobsOK
    <3>4. CASE Saves(j) \/ Creates(j)
      BY <3>4 DEF Saves, Creates, Holding, Inv, JobsOK, JobRecords
    <3>5. CASE CreateFails(j) \/ Marks(j) \/ MarkFails(j)
      BY <3>5 DEF CreateFails, Marks, MarkFails, Errs, Ended, Fresh, Holding, Inv, JobsOK
    <3> QED
      BY <1>2, <3>2, <3>3, <3>4, <3>5 DEF Download
  <2> QED
    BY <2>1, <2>2, <2>3, QuietHolder
<1> QED
  BY <1>1, <1>2

\* A job that starts holds no copy.
LEMMA StartKeepsSetting ==
  ASSUME Inv, SettingInv, NEW j \in Jobs, Start(j)
  PROVE  SettingInv'
<1>1. UNCHANGED <<rows, caches, edit, history>>
  BY DEF Start
<1>2. UNCHANGED <<podcast, podcastC, wish, undone, edits, edit>>
  BY <1>1 DEF rows, caches, history
<1>3. podcast.state # "none"
  BY StartStep, JobsNeedPodcast
<1> QED
  BY <1>2, <1>3, StartStep, SettingFrame DEF HoldNoMore, Holding

\* An edit reads as a job does.
LEMMA EditGetsKeepsSetting ==
  ASSUME Inv, SettingInv, EditGets
  PROVE  SettingInv'
<1>1. UNCHANGED <<podcast, podcastC, wish, undone, edits, job>>
  BY DEF EditGets, rows, caches, history
<1>2. ASSUME Found, ~undone, edit' # None, edit'.pc # "get" PROVE Good(edit'.copy)
  <2>1. CASE podcastC # None
    <3>1. edit'.copy = Copy(podcastC.auto, podcastC.late)
      BY <2>1 DEF EditGets, Inv, SettingShapes
    <3> QED
      BY <1>2, <2>1, <3>1, GoodCopies
  <2>2. CASE podcastC = None
    <3>1. edit'.copy = Copy(podcast.auto, FALSE)
      BY <1>2, <2>2 DEF EditGets, Inv, SettingShapes
    <3> QED
      BY <1>2, <3>1, GoodCopies
  <2> QED
    BY <2>1, <2>2
<1>3. podcast.state = "none" => edit' = None
  BY DEF EditGets, SettingInv, Found
<1> QED
  BY <1>1, <1>2, <1>3 DEF SettingInv, Good, Stale, Found

\* And it stores as a job does.
LEMMA EditStoresKeepsSetting ==
  ASSUME Inv, SettingInv, EditStores
  PROVE  SettingInv'
<1>1. UNCHANGED <<podcast, wish, undone, edits, job>> /\ edit # None /\ edit.pc = "store"
  BY DEF EditStores, rows, history
<1>2. edit'.pc = "write" /\ edit'.copy = edit.copy
  BY DEF EditStores, Inv, SettingShapes
<1>3. Found => podcastC'.late \/ podcastC'.auto = podcast.auto
  BY DEF EditStores, CachePodcast
<1> QED
  BY <1>1, <1>2, <1>3 DEF SettingInv, Good, Stale, Found

\* An edit makes every copy held elsewhere an old one.
LEMMA EditWritesKeepsSetting ==
  ASSUME Inv, SettingInv, EditWrites
  PROVE  SettingInv'
<1>1. UNCHANGED job /\ edit # None /\ edit.pc = "write" /\ edit' = None
  BY DEF EditWrites
<1>2. podcast.state # "none"
  BY <1>1 DEF SettingInv
<1>3. CASE ~Found
  <2>1. UNCHANGED podcast
    BY <1>3 DEF EditWrites
  <2> QED
    BY <1>2, <1>3, <2>1 DEF SettingInv, Found
<1>4. CASE Found
  <2> DEFINE own == edit.value # None
             auto == IF own THEN edit.value ELSE edit.copy.auto
  <2>1. podcast' = [podcast EXCEPT !.auto = auto] /\ podcastC' = None
        /\ undone' = (~own /\ (undone \/ (auto # wish /\ Stale(edit.copy))))
        /\ wish' = (IF own THEN edit.value ELSE wish) /\ edits' = edits + 1
    BY <1>4 DEF EditWrites, WriteBack
  <2>2. podcast'.auto = auto /\ podcast'.state = podcast.state
    BY <2>1 DEF Inv, SettingShapes
  <2>3. \A j \in Jobs : job[j].pc \in Holding => Stale(job[j].copy)'
    <3>1. edits \in Nat
      BY PodcastAssumption DEF Inv, SettingShapes
    <3>2. ASSUME NEW j \in Jobs, job[j].pc \in Holding PROVE job[j].copy.since < edits'
      <4>1. job[j].copy.since \in Nat /\ job[j].copy.since <= edits
        BY <3>2, PodcastAssumption DEF Inv, JobsOK, JobOK, HeldCopies
      <4> QED
        BY <2>1, <3>1, <4>1
    <3> QED
      BY <1>1, <3>2 DEF Stale
  <2>4. ~own /\ ~undone => Good(edit.copy)
    BY <1>1, <1>4 DEF SettingInv
  <2>5. undone' \/ auto = wish'
    BY <2>1, <2>4 DEF Good
  <2> QED
    BY <1>1, <2>1, <2>3, <2>5 DEF SettingInv, Good
<1> QED
  BY <1>3, <1>4

\* The requests.
LEMMA RequestKeepsSetting ==
  ASSUME Inv, SettingInv, Request
  PROVE  SettingInv'
<1>1. ASSUME NEW feed \in SUBSET Guids, Subscribe(feed) PROVE SettingInv'
  BY <1>1 DEF Subscribe, caches, history, SettingInv, Holding, Found
<1>2. CASE DeletePodcast
  <2>1. podcast'.state = "gone"
    BY <1>2 DEF DeletePodcast, Inv, SettingShapes
  <2> QED
    BY <2>1 DEF SettingInv, Found
<1>3. ASSUME NEW v \in Settings, Edit(v) PROVE SettingInv'
  <2>1. UNCHANGED <<podcast, podcastC, wish, undone, edits, job>> /\ edit'.pc = "get"
    BY <1>3 DEF Edit, rows, caches, history
  <2> QED
    BY <2>1, SettingFrame DEF HoldNoMore, SettingInv
<1>4. CASE BookRequest
  <2>1. UNCHANGED <<podcast, wish, undone, edits, job, edit>> /\ podcastC' \in {podcastC, None}
    BY <1>4, BookRequestStep
  <2> QED
    BY <2>1, SettingFrame DEF HoldNoMore, SettingInv
<1>6. CASE PurgeEnds
  <2>1. CASE podcast'.state = "gone"
    BY <2>1 DEF SettingInv, Found
  <2>2. CASE UNCHANGED <<podcast, wish, undone>>
    <3>1. UNCHANGED <<podcastC, edits, job, edit>>
      BY <1>6, PurgeEndsStep
    <3> QED
      BY <2>2, <3>1, SettingFrame DEF HoldNoMore, SettingInv
  <2> QED
    BY <1>6, <2>1, <2>2, PurgeEndsStep
<1>5. ASSUME NEW j \in Jobs, NEW kind \in {"refresh", "all", "download"}, NEW g \in Guids \cup {None},
             Ask(j, kind, g)
      PROVE  SettingInv'
  <2>1. UNCHANGED <<podcast, podcastC, wish, undone, edits, edit>> /\ Found
    BY <1>5 DEF Ask, rows, caches
  <2>2. HoldNoMore
    BY <1>5 DEF Ask, Queued, Fresh, Holding, HoldNoMore
  <2> QED
    BY <2>1, <2>2, SettingFrame DEF Found
<1> QED
  BY <1>1, <1>2, <1>3, <1>4, <1>5, <1>6, EditGetsKeepsSetting, EditStoresKeepsSetting,
     EditWritesKeepsSetting DEF Request, BookRequest

\* Every step keeps the invariant of the setting.
LEMMA NextKeepsSetting ==
  ASSUME Inv, SettingInv, [Next]_vars
  PROVE  SettingInv'
<1>1. ASSUME NEW j \in Jobs, Fails(j) PROVE SettingInv'
  <2>1. UNCHANGED <<podcast, podcastC, wish, undone, edits, edit>>
    BY <1>1 DEF Fails, rows, caches, history
  <2>2. job'[j].pc \notin Holding /\ ~EnqueuesDownload(j)
    BY <1>1, ReturnedHoldsNone DEF Fails, Errs, Inv, JobsOK, EnqueuesDownload
  <2> QED
    BY <1>1, <2>1, <2>2, QuietHolder
<1>2. CASE Crash
  <2>1. UNCHANGED <<podcast, wish, undone, edits>> /\ podcastC' = None /\ edit' = None
    BY <1>2 DEF Crash, rows
  <2>2. \A i \in Jobs : job'[i].pc \notin Holding /\ job'[i].pc \in {job[i].pc, "idle"}
    BY <1>2 DEF Crash, Running, Ended, Fresh, Holding
  <2> QED
    BY <2>1, <2>2, SettingFrame DEF HoldNoMore, SettingInv
<1>3. CASE Evict \/ UNCHANGED vars
  <2>1. UNCHANGED <<podcast, wish, undone, edits, job, edit>> /\ podcastC' \in {podcastC, None}
    BY <1>3 DEF Evict, vars, rows, caches, history
  <2> QED
    BY <2>1, SettingFrame DEF HoldNoMore, SettingInv
<1> QED
  BY <1>1, <1>2, <1>3, RequestKeepsSetting, StartKeepsSetting, RefreshKeepsSetting, DownloadKeepsSetting
     DEF Next

\* At first nothing is set and nobody holds a copy.
LEMMA InitSetting == Init => SettingInv
BY DEF Init, SettingInv, Found, Free, Fresh

\* The setting an administrator saved stays until it is changed, unless a refresh or an
\* edit wrote back what it had read before, or had found in a cache filled too late:
\* whatever the interleaving of requests, jobs and crashes.
THEOREM SettingKeptAlways == Spec => []SettingKept
<1>1. Inv /\ SettingInv => SettingKept
  BY DEF SettingInv, SettingKept
<1> QED
  BY <1>1, InitSetting, NextKeepsSetting, InvHolds, PTL DEF Spec

-----------------------------------------------------------------------------
\* Where a refresh knows which episodes were there before.
Listed == {"storeGuids", "write", "upsert", "enqueue"}

\* Nothing is held to be known that is not there, so that an episode that is inserted is
\* new to whoever inserts it; and what is promised waits at enqueue.
QueueInv ==
  /\ Found =>
       /\ guidsC # None => guidsC \subseteq KnownGuids
       /\ \A j \in Jobs : job[j].pc \in Listed => job[j].known \subseteq KnownGuids
  /\ podcast.state = "none" => guidsC = None /\ promised = {}
  /\ promised \subseteq KnownGuids
  /\ \A g \in promised \ (asked \cup excused) : \E j \in Jobs : job[j].pc = "enqueue" /\ job[j].g = g

\* Jobs that wait at enqueue stay there, and no job comes to know more.
JobsWait ==
  \A i \in Jobs :
    /\ job[i].pc = "enqueue" => job'[i].pc = "enqueue" /\ job'[i].g = job[i].g
    /\ job'[i].pc \in Listed => job[i].pc \in Listed /\ job'[i].known = job[i].known

\* A step that brings in no episode and takes none away.
LEMMA QueueFrame ==
  ASSUME QueueInv, podcast'.state = podcast.state, guidsC' \in {guidsC, None},
         promised' = promised, asked \subseteq asked', excused \subseteq excused', JobsWait,
         \A g \in Guids : episode'[g] = None <=> episode[g] = None, promised \subseteq Guids
  PROVE  QueueInv'
<1>1. KnownGuids' = KnownGuids
  BY DEF KnownGuids
<1> QED
  BY <1>1 DEF QueueInv, JobsWait, Found

\* A handler that is called again knows no guids.
LEMMA ReturnedForgets ==
  ASSUME NEW j \in Jobs
  PROVE  Returned(j).pc \notin Listed
BY DEF Returned, Ended, Fresh, Listed

\* A running job that does not wait, and comes to know nothing.
LEMMA QuietRefresh ==
  ASSUME Inv, QueueInv, NEW j \in Jobs, Refresh(j) \/ Download(j) \/ Fails(j), ~EnqueuesDownload(j),
         job[j].pc # "enqueue",
         job'[j].pc \in Listed => job[j].pc \in Listed /\ job'[j].known = job[j].known
  PROVE  JobsWait
BY OwnStep DEF JobsWait, Inv

\* The guids that a refresh lists are in the table, or the cache has them because they were.
LEMMA ListsGuidsKeepsQueue ==
  ASSUME Inv, QueueInv, NEW j \in Jobs, ListsGuids(j)
  PROVE  QueueInv'
<1>1. UNCHANGED <<podcast, episode, guidsC, promised, asked, excused>> /\ job[j].pc = "feed"
  BY DEF ListsGuids, rows, caches, history
<1>2. \A i \in Jobs \ {j} : job'[i] = job[i]
  BY DEF ListsGuids, Inv, JobsOK
<1>3. job'[j].pc # "enqueue" /\ (Found => job'[j].known \subseteq KnownGuids)
  <2>1. CASE guidsC # None
    BY <2>1 DEF ListsGuids, QueueInv, Inv, JobsOK, JobRecords
  <2>2. CASE guidsC = None
    BY <2>2 DEF ListsGuids, Inv, JobsOK, JobRecords
  <2> QED
    BY <2>1, <2>2
<1> QED
  BY <1>1, <1>2, <1>3 DEF QueueInv, KnownGuids, Found

\* The cached guids are in the table.
LEMMA StoresGuidsKeepsQueue ==
  ASSUME Inv, QueueInv, SettingInv, NEW j \in Jobs, StoresGuids(j)
  PROVE  QueueInv'
<1>1. UNCHANGED <<podcast, episode, promised, asked, excused>> /\ job[j].pc = "storeGuids"
      /\ guidsC' = job[j].known
  BY DEF StoresGuids, rows, history
<1>2. job'[j].pc = "write" /\ job'[j].known = job[j].known /\ \A i \in Jobs \ {j} : job'[i] = job[i]
  BY DEF StoresGuids, Goes, Inv, JobsOK, JobRecords
<1>3. podcast.state # "none"
  BY <1>1, JobsNeedPodcast
<1> QED
  BY <1>1, <1>2, <1>3 DEF QueueInv, KnownGuids, Found, Listed

\* An episode is inserted while the wish is to download: then the copy the refresh works
\* with says so too, or is excused, and the episode is not among the known ones.
LEMMA UpsertsKeepsQueue ==
  ASSUME Inv, QueueInv, SettingInv, NEW j \in Jobs, NEW g \in Guids, Upserts(j, g)
  PROVE  QueueInv'
<1>1. UNCHANGED <<podcast, asked>> /\ job[j].pc = "upsert"
  BY DEF Upserts
<1>2. \A i \in Jobs \ {j} : job'[i] = job[i]
  BY DEF Upserts, Errs, Inv, JobsOK
<1>3. podcast.state # "none"
  BY <1>1, JobsNeedPodcast
<1>4. CASE Found
  <2> DEFINE rest == job[j].todo \ {g}
  <2>1. guidsC' = None /\ \A h \in Guids : episode[h] # None => episode'[h] # None
    BY <1>4 DEF Upserts, Inv, EpisodeShapes
  <2>3. episode'[g] # None
    BY <1>4, PodcastAssumption DEF Upserts, Inv, EpisodeShapes
  <2>4. CASE job[j].copy.auto /\ IsNew(j, g)
    <3>1. job'[j] = [job[j] EXCEPT !.pc = "enqueue", !.todo = rest, !.g = g]
      BY <1>4, <2>4 DEF Upserts, Inv, JobsOK
    <3>2. job'[j].pc = "enqueue" /\ job'[j].g = g /\ job'[j].known = job[j].known
      BY <3>1 DEF Inv, JobsOK, JobRecords
    <3>3. promised' \subseteq promised \cup {g} /\ excused \subseteq excused'
      BY <1>4 DEF Upserts
    <3>4. promised' \subseteq KnownGuids'
      BY <2>1, <2>3, <3>3 DEF QueueInv, KnownGuids
    <3>5. ASSUME NEW h \in promised' \ (asked' \cup excused')
          PROVE  \E i \in Jobs : job'[i].pc = "enqueue" /\ job'[i].g = h
      BY <1>1, <1>2, <3>2, <3>3, <3>5 DEF QueueInv
    <3> QED
      BY <1>1, <1>2, <1>3, <2>1, <3>2, <3>4, <3>5 DEF QueueInv, KnownGuids, Found, Listed
  <2>5. CASE ~(job[j].copy.auto /\ IsNew(j, g))
    <3>1. job'[j] = GoesOn(j, rest)
      BY <1>4, <2>5 DEF Upserts, Inv, JobsOK
    <3>2. job'[j].pc # "enqueue" /\ (job'[j].pc \in Listed => job'[j].known = job[j].known)
      BY <3>1 DEF GoesOn, Ended, Fresh, Listed
    <3>3. episode[g] = None /\ wish => g \in excused'
      <4> SUFFICES ASSUME episode[g] = None, wish, ~undone, ~Stale(job[j].copy) PROVE FALSE
        BY <1>4 DEF Upserts
      <4>1. job[j].copy.auto
        BY <1>1, <1>4 DEF SettingInv, Good, Holding
      <4>2. IsNew(j, g)
        BY <1>1, <1>4 DEF IsNew, QueueInv, Listed, KnownGuids
      <4> QED
        BY <2>5, <4>1, <4>2
    <3>4. promised' \subseteq promised \cup (IF episode[g] = None /\ wish THEN {g} ELSE {})
          /\ excused \subseteq excused'
      BY <1>4 DEF Upserts
    <3>6. ASSUME NEW h \in promised' \ (asked' \cup excused')
          PROVE  \E i \in Jobs : job'[i].pc = "enqueue" /\ job'[i].g = h
      <4>1. h \in promised \ (asked \cup excused)
        BY <1>1, <3>3, <3>4, <3>6
      <4> QED
        BY <1>1, <1>2, <4>1 DEF QueueInv
    <3>7. promised' \subseteq KnownGuids'
      BY <2>1, <2>3, <3>4 DEF QueueInv, KnownGuids
    <3> QED
      BY <1>1, <1>2, <1>3, <2>1, <3>2, <3>6, <3>7 DEF QueueInv, KnownGuids, Found, Listed
  <2> QED
    BY <2>4, <2>5
<1>5. CASE ~Found
  <2>1. UNCHANGED <<episode, guidsC, promised, excused>> /\ job'[j].pc \notin Listed
    BY <1>5, ReturnedForgets DEF Upserts, Errs, Inv, JobsOK
  <2> QED
    BY <1>1, <1>2, <2>1 DEF QueueInv, KnownGuids, Found
<1> QED
  BY <1>4, <1>5

\* An episode that waited for its job has been asked for, or a fault excuses it.
LEMMA EnqueuesKeepsQueue ==
  ASSUME Inv, QueueInv, SettingInv, NEW j \in Jobs, EnqueuesDownload(j)
  PROVE  QueueInv'
<1>1. UNCHANGED <<podcast, episode, guidsC, promised>> /\ job[j].pc = "enqueue"
  BY DEF EnqueuesDownload, rows, caches
<1>2. job[j].g \in asked' \cup excused' /\ asked \subseteq asked' /\ excused \subseteq excused'
  BY DEF EnqueuesDownload
<1>3. job'[j].pc \in Listed => job'[j].known = job[j].known
  <2>1. GoesOn(j, job[j].todo).pc \in Listed => GoesOn(j, job[j].todo).known = job[j].known
    BY DEF GoesOn, Ended, Fresh, Listed
  <2>2. \A k \in Unused : k # j
    BY <1>1 DEF Unused, Inv, JobsOK, JobOK, RefreshPCs
  <2> QED
    BY <2>1, <2>2, ReturnedForgets DEF EnqueuesDownload, Errs, Inv, JobsOK
<1>4. ASSUME NEW i \in Jobs, i # j
      PROVE  \/ job'[i] = job[i]
             \/ job[i].pc # "enqueue" /\ job'[i].pc \notin Listed
  <2>1. Queued("download", job[j].g).pc \notin Listed
    BY DEF Queued, Fresh, Listed
  <2>2. \A k \in Unused : job[k].pc # "enqueue"
    BY DEF Unused, Inv, JobsOK, JobOK, RefreshPCs
  <2>3. ASSUME NEW k \in Unused,
               job' = [job EXCEPT ![k] = Queued("download", job[j].g), ![j] = GoesOn(j, job[j].todo)]
        PROVE  job'[i] = job[i] \/ (job[i].pc # "enqueue" /\ job'[i].pc \notin Listed)
    BY <1>4, <2>1, <2>2, <2>3 DEF Unused, Inv, JobsOK
  <2>4. CASE Errs(j)
    BY <1>4, <2>4 DEF Errs, Inv, JobsOK
  <2> QED
    BY <2>3, <2>4 DEF EnqueuesDownload
<1>5. podcast.state # "none"
  BY <1>1, JobsNeedPodcast
<1>6. ASSUME NEW g \in promised' \ (asked' \cup excused')
      PROVE  \E i \in Jobs : job'[i].pc = "enqueue" /\ job'[i].g = g
  <2>1. g \in promised \ (asked \cup excused)
    BY <1>1, <1>2, <1>6
  <2>2. PICK i \in Jobs : job[i].pc = "enqueue" /\ job[i].g = g
    BY <2>1 DEF QueueInv
  <2>3. i # j
    BY <1>2, <1>6, <2>2
  <2> QED
    BY <1>4, <2>2, <2>3
<1> QED
  BY <1>1, <1>3, <1>4, <1>6 DEF QueueInv, KnownGuids, Found, Listed

\* The steps of a refresh.
LEMMA RefreshKeepsQueue ==
  ASSUME Inv, QueueInv, SettingInv, NEW j \in Jobs, Refresh(j)
  PROVE  QueueInv'
<1> USE ReturnedForgets
<1>1. CASE RefreshGets(j)
  <2>1. podcast' = podcast /\ UNCHANGED <<guidsC, promised, asked, excused, episode>>
    BY <1>1 DEF RefreshGets, Gets, Stores, rows, caches, history
  <2>2. job[j].pc \in {"get", "store"} /\ job'[j].pc \notin Listed
    BY <1>1 DEF RefreshGets, Gets, Stores, Errs, Listed, Inv, JobsOK, JobRecords
  <2>3. ~EnqueuesDownload(j)
    BY <2>2 DEF EnqueuesDownload
  <2>4. JobsWait
    BY <2>2, <2>3, QuietRefresh
  <2> QED
    BY <2>1, <2>4, QueueFrame DEF Inv, EpisodeShapes
<1>2. CASE SavesCheck(j)
  <2>1. podcast'.state = podcast.state
    BY <1>2 DEF SavesCheck, WriteBack, Inv, SettingShapes
  <2>2. UNCHANGED <<guidsC, promised, asked, excused, episode>> /\ job[j].pc = "write" /\ ~EnqueuesDownload(j)
    BY <1>2 DEF SavesCheck, EnqueuesDownload
  <2>3. job'[j].pc \in Listed => job'[j].known = job[j].known
    BY <1>2 DEF SavesCheck, Errs, Goes, Inv, JobsOK, JobRecords
  <2>4. JobsWait
    BY <2>2, <2>3, QuietRefresh DEF Listed
  <2> QED
    BY <2>1, <2>2, <2>4, QueueFrame DEF Inv, EpisodeShapes
<1> QED
  BY <1>1, <1>2, ListsGuidsKeepsQueue, StoresGuidsKeepsQueue, UpsertsKeepsQueue, EnqueuesKeepsQueue
     DEF Refresh

\* A download knows no guids and promises nothing.
LEMMA DownloadKeepsQueue ==
  ASSUME Inv, QueueInv, SettingInv, NEW j \in Jobs, Download(j)
  PROVE  QueueInv'
<1> USE ReturnedForgets
<1>1. UNCHANGED <<podcast, guidsC, promised, asked, excused>>
  BY DEF Download, DownloadGets, Gets, Stores, GetsEpisode, StoresEpisode, Saves, Creates,
         CreateFails, Marks, MarkFails, rows, caches, history
<1>2. \A g \in Guids : episode'[g] = None <=> episode[g] = None
  <2>1. CASE Marks(j)
    <3>1. job[j].book # None
      BY <2>1, PodcastAssumption DEF Marks, Inv, JobsOK, JobRecords
    <3> QED
      BY <2>1, <3>1 DEF Marks, Inv, EpisodeShapes
  <2>2. CASE ~Marks(j)
    BY <2>2 DEF Download, DownloadGets, Gets, Stores, GetsEpisode, StoresEpisode, Saves, Creates,
                CreateFails, MarkFails, rows
  <2> QED
    BY <2>1, <2>2
<1>3. job[j].pc # "enqueue" /\ ~EnqueuesDownload(j)
  BY DEF Download, DownloadGets, Gets, Stores, GetsEpisode, StoresEpisode, Saves, Creates,
         CreateFails, Marks, MarkFails, EnqueuesDownload
<1>4. job'[j].pc \notin Listed
  <2>1. \A downloaded, late : Decided(j, downloaded, late).pc \notin Listed
    BY DEF Decided, Ended, Fresh, Listed
  <2>2. CASE GetsEpisode(j)
    BY <2>1, <2>2 DEF GetsEpisode, Errs, Listed, Inv, JobsOK, JobRecords
  <2>3. CASE StoresEpisode(j)
    BY <2>1, <2>3 DEF StoresEpisode, Inv, JobsOK
  <2>4. CASE DownloadGets(j)
    BY <2>4 DEF DownloadGets, Gets, Stores, Errs, Listed, Inv, JobsOK, JobRecords
  <2>5. CASE Saves(j) \/ Creates(j)
    BY <2>5 DEF Saves, Creates, Listed, Inv, JobsOK, JobRecords
  <2>6. CASE CreateFails(j) \/ Marks(j) \/ MarkFails(j)
    BY <2>6 DEF CreateFails, Marks, MarkFails, Errs, Ended, Fresh, Listed, Inv, JobsOK
  <2> QED
    BY <2>2, <2>3, <2>4, <2>5, <2>6 DEF Download
<1>5. JobsWait
  BY <1>3, <1>4, QuietRefresh
<1> QED
  BY <1>1, <1>2, <1>5, QueueFrame DEF Inv, EpisodeShapes

\* The requests.
LEMMA RequestKeepsQueue ==
  ASSUME Inv, QueueInv, SettingInv, Request
  PROVE  QueueInv'
<1> USE DEF Inv, EpisodeShapes
<1>1. ASSUME NEW feed \in SUBSET Guids, Subscribe(feed) PROVE QueueInv'
  <2>1. podcast.state = "none" /\ podcast'.state = "live" /\ UNCHANGED <<guidsC, promised, job>>
    BY <1>1 DEF Subscribe, caches, history
  <2> QED
    BY <2>1 DEF QueueInv, SettingInv, Found, Listed
<1>2. CASE DeletePodcast
  <2>1. podcast'.state = "gone" /\ promised' = {}
    BY <1>2 DEF DeletePodcast, SettingShapes
  <2> QED
    BY <2>1 DEF QueueInv, Found
<1>3. CASE (\E v \in Settings : Edit(v)) \/ EditGets \/ EditStores \/ EditWrites
  <2>1. UNCHANGED <<episode, guidsC, job, promised, asked, excused>>
    BY <1>3 DEF Edit, EditGets, EditStores, EditWrites, rows, caches, history
  <2>2. podcast'.state = podcast.state
    BY <1>3 DEF Edit, EditGets, EditStores, EditWrites, WriteBack, SettingShapes, rows
  <2> QED
    BY <2>1, <2>2, QueueFrame DEF JobsWait
<1>4. CASE BookRequest
  <2>1. /\ UNCHANGED <<podcast, job, promised, asked, excused>> /\ guidsC' \in {guidsC, None}
        /\ \A g \in Guids : episode'[g] = None <=> episode[g] = None
    BY <1>4, BookRequestStep
  <2> QED
    BY <2>1, QueueFrame DEF JobsWait
<1>6. CASE PurgeEnds
  <2>1. CASE podcast'.state = "gone" /\ promised' = {}
    BY <2>1 DEF QueueInv, Found
  <2>2. CASE UNCHANGED <<podcast, episode, promised, asked, excused>>
    <3>1. UNCHANGED <<guidsC, job>>
      BY <1>6, PurgeEndsStep
    <3> QED
      BY <2>2, <3>1, QueueFrame DEF JobsWait
  <2> QED
    BY <1>6, <2>1, <2>2, PurgeEndsStep
<1>5. ASSUME NEW j \in Jobs, NEW kind \in {"refresh", "all", "download"}, NEW g \in Guids \cup {None},
             Ask(j, kind, g)
      PROVE  QueueInv'
  <2>1. UNCHANGED <<podcast, episode, guidsC, promised, excused>> /\ asked \subseteq asked'
    BY <1>5 DEF Ask, rows, caches
  <2>2. job[j].pc # "enqueue"
    BY <1>5 DEF Ask, Unused, JobsOK, JobOK, RefreshPCs
  <2>3. JobsWait
    BY <1>5, <2>2 DEF Ask, Queued, Fresh, Listed, JobsWait
  <2> QED
    BY <2>1, <2>3, QueueFrame
<1> QED
  BY <1>1, <1>2, <1>3, <1>4, <1>5, <1>6 DEF Request, BookRequest

\* Every step keeps the invariant of the queue.
LEMMA NextKeepsQueue ==
  ASSUME Inv, SettingInv, QueueInv, [Next]_vars
  PROVE  QueueInv'
<1> USE DEF Inv, EpisodeShapes
<1>1. ASSUME NEW j \in Jobs, Fails(j) PROVE QueueInv'
  <2>1. UNCHANGED <<podcast, episode, guidsC, promised, asked, excused>>
    BY <1>1 DEF Fails, rows, caches, history
  <2>2. job[j].pc # "enqueue" /\ job'[j].pc \notin Listed /\ ~EnqueuesDownload(j)
    BY <1>1, ReturnedForgets DEF Fails, Errs, JobsOK, EnqueuesDownload
  <2> QED
    BY <1>1, <2>1, <2>2, QuietRefresh, QueueFrame
<1>2. ASSUME NEW j \in Jobs, Start(j) PROVE QueueInv'
  <2>1. UNCHANGED <<rows, caches, history>>
    BY <1>2 DEF Start
  <2>2. JobsWait
    BY <1>2, StartStep DEF JobsWait, Listed
  <2> QED
    BY <2>1, <2>2, QueueFrame DEF rows, caches, history
<1>3. CASE Crash
  <2>1. podcast' = podcast /\ episode' = episode /\ guidsC' = None /\ UNCHANGED <<promised, asked>>
    BY <1>3 DEF Crash, rows
  <2>2. \A i \in Jobs : /\ job[i].pc = "enqueue" => job[i].g \in excused'
                        /\ job'[i].pc \notin Listed
    BY <1>3 DEF Crash, Running, Ended, Fresh, Listed
  <2>3. excused \subseteq excused'
    BY <1>3 DEF Crash
  <2> QED
    BY <2>1, <2>2, <2>3 DEF QueueInv, KnownGuids, Found
<1>4. CASE Evict \/ UNCHANGED vars
  <2>1. UNCHANGED <<podcast, episode, job, promised, asked, excused>> /\ guidsC' \in {guidsC, None}
    BY <1>4 DEF Evict, vars, rows, caches, history
  <2> QED
    BY <2>1, QueueFrame DEF JobsWait
<1> QED
  BY <1>1, <1>2, <1>3, <1>4, RequestKeepsQueue, RefreshKeepsQueue, DownloadKeepsQueue DEF Next

\* At first nothing is promised.
LEMMA InitQueue == Init => QueueInv
BY DEF Init, QueueInv, Found

\* The invariant of the setting holds throughout.
LEMMA SettingHolds == Spec => []SettingInv
<1> QED
  BY InitSetting, NextKeepsSetting, InvHolds, PTL DEF Spec

\* An episode that appears while automatic download is on gets its download job, unless
\* a fault or a crash came right between, or the refresh worked with a stale setting.
THEOREM NewIsQueuedAlways == Spec => []NewIsQueued
<1>1. Inv /\ QueueInv => NewIsQueued
  BY DEF Inv, JobsOK, JobOK, RefreshPCs, QueueInv, NewIsQueued, At
<1> QED
  BY <1>1, InitQueue, NextKeepsQueue, InvHolds, SettingHolds, PTL DEF Spec
=============================================================================
