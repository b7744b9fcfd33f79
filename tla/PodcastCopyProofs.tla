------------------------- MODULE PodcastCopyProofs -------------------------
(***************************************************************************)
(* Why an episode of Podcasts may have two books, for every value of the   *)
(* constants.                                                              *)
(***************************************************************************)
EXTENDS PodcastProofs
-----------------------------------------------------------------------------
\* A download that ran on its own and had fresh answers, and so is certain that the
\* episode is not downloaded.
Sure(j) ==
  /\ job[j].kind = "download" /\ ~job[j].over
  /\ \/ job[j].pc \in {"podcast", "storePodcast", "save", "create"} /\ ~job[j].late
     \/ job[j].pc = "storeEpisode" /\ job[j].book = 0

\* It has reason to be: the copies there are were not marked.
SureOK == \A j \in Jobs : Sure(j) => CopiesOf(job[j].g) \subseteq unmarked

\* Of two downloads of an episode that run, both are known to overlap.
OverlapOK ==
  \A i, j \in Jobs :
    /\ i # j /\ Running(i) /\ Running(j)
    /\ job[i].kind = "download" /\ job[j].kind = "download" /\ job[i].g = job[j].g
    => job[i].over

\* What books are of, also the one in a job's hand.
BooksOfOK ==
  /\ \A b \in 1..books.used : books.of[b] \in Guids
  /\ \A j \in Jobs : job[j].pc \in {"create", "mark"} =>
       job[j].book \in 1..books.used /\ books.of[job[j].book] = job[j].g

\* Which job is about an episode.
About(j) == job[j].kind = "download" \/ job[j].pc = "enqueue"

\* Until the podcast is deleted, what a job or a book is about is in the table.
TableOK ==
  /\ podcast.state = "none" => \A g \in Guids : episode[g] = None
  /\ podcast.state # "gone" =>
       /\ \A j \in Jobs : About(j) => episode[job[j].g] # None
       /\ \A b \in 1..books.used : episode[books.of[b]] # None

\* A cached answer that the episode is not downloaded is true, or was stored too late.
AnswersOK ==
  \A g \in Guids :
    episodeC[g] # None /\ ~episodeC[g].downloaded /\ ~episodeC[g].late => episode[g] = 0

\* A book of an episode that is there is its mark, or about to be, or was left without it.
MarksOK ==
  \A b \in books.rows \ unmarked :
    episode[books.of[b]] # None =>
      \/ episode[books.of[b]] = b
      \/ \E j \in Jobs : job[j].pc = "mark" /\ job[j].book = b

\* A book that has overtaken the creation of another one is explained.
LaterOK ==
  \A j \in Jobs : job[j].pc = "create" =>
    \A c \in CopiesOf(job[j].g) : job[j].book < c => why[c] # {}

CopyInv ==
  /\ SureOK /\ OverlapOK /\ BooksOfOK /\ TableOK /\ AnswersOK /\ MarksOK /\ LaterOK
  /\ SecondCopyExplained

\* The library is gone, and comes to no book again.
Emptied == LibraryGone /\ books.rows = {}

\* What a step makes of a job that is neither started, nor on its way from the saved file
\* to the mark, nor at the test whether the episode is downloaded.
Moves(i) ==
  /\ About(i)' => \/ About(i) /\ job'[i].g = job[i].g
                  \/ podcast.state = "gone" \/ episode'[job'[i].g] # None
  /\ job'[i].pc \in {"create", "mark"} =>
       job'[i].pc = job[i].pc /\ job'[i].book = job[i].book /\ job'[i].g = job[i].g
  /\ job[i].pc = "mark" /\ job'[i].pc # "mark" =>
       job[i].book \in unmarked' \/ job[i].book \notin books.rows
  /\ Sure(i)' => (Sure(i) /\ job'[i].g = job[i].g) \/ CopiesOf(job'[i].g) \subseteq unmarked

\* What a step does to an episode that is inserted, deleted, or left alone.
Turns(g) ==
  /\ \/ episode'[g] = episode[g]
     \/ episode[g] = None /\ episode'[g] = 0 /\ podcast.state # "gone" /\ podcast'.state # "none"
     \/ episode'[g] = None /\ podcast'.state = "gone"
  /\ \/ episodeC'[g] = None
     \/ episodeC'[g] = episodeC[g] /\ episode'[g] \in {episode[g], 0}
     \/ episodeC'[g].late \/ episodeC'[g].downloaded \/ episode'[g] = 0

\* The jobs that run a download before and after a step, and know at least as much.
OverlapsKept ==
  \A i \in Jobs :
    Running(i)' /\ job'[i].kind = "download" =>
      /\ Running(i) /\ job[i].kind = "download" /\ job'[i].g = job[i].g
      /\ job[i].over => job'[i].over

\* Then the overlaps are still known.
LEMMA OverlapFrame ==
  ASSUME CopyInv, OverlapsKept
  PROVE  OverlapOK'
BY DEF CopyInv, OverlapOK, OverlapsKept

\* Episodes and books about which a job or a book speaks.
LEMMA Spoken ==
  ASSUME Inv, BookInv, CopyInv
  PROVE  /\ \A j \in Jobs : About(j) => job[j].g \in Guids
         /\ \A j \in Jobs : job[j].pc \in {"create", "mark"} => About(j)
         /\ \A b \in books.rows : b \in 1..books.used /\ books.of[b] \in Guids
         /\ books.used \in Nat /\ books.used <= MaxBooks /\ MaxBooks \in Nat
<1>1. ASSUME NEW j \in Jobs
      PROVE  /\ About(j) => job[j].g \in Guids
             /\ job[j].pc \in {"create", "mark"} => About(j)
  BY DEF Inv, JobsOK, JobOK, About, DownloadPCs
<1>2. ASSUME NEW b \in books.rows PROVE b \in 1..books.used /\ books.of[b] \in Guids
  BY DEF BookInv, CopyInv, BooksOfOK
<1>3. books.used \in Nat /\ books.used <= MaxBooks /\ MaxBooks \in Nat
  BY PodcastAssumption DEF Inv, BookShapes, BookRecords
<1> QED
  BY <1>1, <1>2, <1>3

\* Steps that leave the books in the library alone.
LEMMA CopyFrame ==
  ASSUME Inv, BookInv, CopyInv,
         books'.rows = books.rows, books'.of = books.of, books'.used = books.used, why' = why,
         unmarked \subseteq unmarked', OverlapOK',
         podcast'.state = podcast.state \/ podcast'.state = "gone" \/ podcast.state = "none",
         podcast'.state = "none" => podcast.state = "none",
         podcast.state = "gone" => podcast'.state = "gone",
         \A i \in Jobs : Moves(i), \A g \in Guids : Turns(g)
  PROVE  CopyInv'
<1>1. BooksOfOK'
  BY DEF CopyInv, BooksOfOK, Moves
<1>2. TableOK'
  <2>1. podcast'.state = "none" => \A g \in Guids : episode'[g] = None
    BY DEF Turns, CopyInv, TableOK
  <2>2. podcast'.state # "gone" => \A g \in Guids : episode[g] # None => episode'[g] # None
    BY DEF Turns
  <2>3. ASSUME podcast'.state # "gone", NEW j \in Jobs, About(j)' PROVE episode'[job'[j].g] # None
    <3>1. CASE About(j) /\ job'[j].g = job[j].g
      <4>1. episode[job[j].g] # None /\ job[j].g \in Guids
        BY <2>3, <3>1, Spoken DEF CopyInv, TableOK
      <4> QED
        BY <2>2, <2>3, <3>1, <4>1
    <3> QED
      BY <2>3, <3>1 DEF Moves
  <2>4. ASSUME podcast'.state # "gone", NEW b \in 1..books'.used PROVE episode'[books'.of[b]] # None
    <3>1. books.of[b] \in Guids /\ episode[books.of[b]] # None
      BY <2>4 DEF CopyInv, TableOK, BooksOfOK
    <3> QED
      BY <2>2, <2>4, <3>1
  <2> QED
    BY <2>1, <2>3, <2>4 DEF TableOK
<1>3. AnswersOK'
  <2> SUFFICES ASSUME NEW g \in Guids,
                      episodeC'[g] # None, ~episodeC'[g].downloaded, ~episodeC'[g].late
               PROVE  episode'[g] = 0
    BY DEF AnswersOK
  <2>1. CASE episode'[g] = 0
    BY <2>1
  <2>2. CASE episodeC'[g] = episodeC[g] /\ episode'[g] = episode[g]
    BY <2>2 DEF CopyInv, AnswersOK
  <2> QED
    BY <2>1, <2>2 DEF Turns
<1>4. MarksOK'
  <2> SUFFICES ASSUME NEW b \in books.rows, b \notin unmarked', episode'[books.of[b]] # None
               PROVE  \/ episode'[books.of[b]] = b
                      \/ \E j \in Jobs : job'[j].pc = "mark" /\ job'[j].book = b
    BY DEF MarksOK
  <2> DEFINE g == books.of[b]
  <2>1. g \in Guids /\ b \in 1..books.used /\ b \notin unmarked
    BY Spoken
  <2>2. podcast.state # "gone" => episode[g] # None
    BY <2>1 DEF CopyInv, TableOK
  <2>3. episode'[g] = episode[g] /\ episode[g] # None
    BY <2>1, <2>2 DEF Turns
  <2>4. CASE episode[g] = b
    BY <2>3, <2>4
  <2>5. ASSUME NEW j \in Jobs, job[j].pc = "mark", job[j].book = b
        PROVE  job'[j].pc = "mark" /\ job'[j].book = b
    <3>1. job'[j].pc = "mark"
      BY <2>5 DEF Moves
    <3> QED
      BY <2>5, <3>1 DEF Moves
  <2>6. \/ episode[g] = b
        \/ \E j \in Jobs : job[j].pc = "mark" /\ job[j].book = b
    BY <2>1, <2>3 DEF CopyInv, MarksOK
  <2> QED
    BY <2>4, <2>5, <2>6
<1>5. SureOK'
  <2> SUFFICES ASSUME NEW j \in Jobs, Sure(j)', NEW b \in books.rows, books.of[b] = job'[j].g
               PROVE  b \in unmarked'
    BY DEF SureOK, CopiesOf
  <2>1. CopiesOf(job'[j].g) \subseteq unmarked
    BY DEF Moves, CopyInv, SureOK
  <2> QED
    BY <2>1 DEF CopiesOf
<1>6. LaterOK'
  <2> SUFFICES ASSUME NEW j \in Jobs, job'[j].pc = "create",
                      NEW c \in books.rows, books.of[c] = job'[j].g, job'[j].book < c
               PROVE  why[c] # {}
    BY DEF LaterOK, CopiesOf
  <2>1. job[j].pc = "create" /\ job'[j].book = job[j].book /\ job'[j].g = job[j].g
    BY DEF Moves
  <2> QED
    BY <2>1 DEF CopyInv, LaterOK, CopiesOf
<1>7. SecondCopyExplained'
  BY DEF CopyInv, SecondCopyExplained
<1> QED
  BY <1>1, <1>2, <1>3, <1>4, <1>5, <1>6, <1>7 DEF CopyInv

\* A handler that errs starts again, and forgets all but an overlap.
LEMMA ReturnedMoves ==
  ASSUME Inv, BookInv, CopyInv, NEW j \in Jobs, Running(j), Errs(j), episode' = episode,
         job[j].pc = "mark" => job[j].book \in unmarked' \/ job[j].book \notin books.rows
  PROVE  OverlapsKept /\ \A i \in Jobs : Moves(i)
<1>1. job'[j] = Returned(j) /\ \A i \in Jobs \ {j} : job'[i] = job[i]
  BY DEF Errs, Inv, JobsOK
<1>2. Returned(j).pc \notin {"enqueue", "create", "mark", "podcast", "storePodcast", "save",
                             "storeEpisode"}
  BY DEF Returned, Ended, Fresh
<1>3. Returned(j).kind = "download" =>
        job[j].kind = "download" /\ Returned(j).g = job[j].g /\ Returned(j).over = job[j].over
  BY DEF Returned, Ended, Fresh
<1>4. OverlapsKept
  BY <1>1, <1>3 DEF OverlapsKept, Running
<1>5. Moves(j)
  BY <1>1, <1>2, <1>3 DEF Moves, About, Sure
<1>6. ASSUME NEW i \in Jobs \ {j} PROVE Moves(i)
  BY <1>1 DEF Moves, About, Sure
<1> QED
  BY <1>4, <1>5, <1>6

\* Jobs that are as they were.
LEMMA SameMoves ==
  ASSUME job' = job
  PROVE  OverlapsKept /\ \A i \in Jobs : Moves(i)
BY DEF OverlapsKept, Running, Moves, About, Sure

\* A step of a job that stays what it is, and that does not come to the creation of a book.
LEMMA StaysMoves ==
  ASSUME NEW j \in Jobs, Running(j), \A i \in Jobs \ {j} : job'[i] = job[i],
         \/ job'[j].kind = "ended"
         \/ /\ job'[j].kind = job[j].kind /\ job'[j].g = job[j].g
            /\ job'[j].over = job[j].over,
         job'[j].pc \notin {"create", "mark", "enqueue"}, job[j].pc # "mark",
         Sure(j)' => Sure(j) \/ CopiesOf(job[j].g) \subseteq unmarked
  PROVE  OverlapsKept /\ \A i \in Jobs : Moves(i)
<1>1. OverlapsKept
  BY DEF OverlapsKept, Running
<1>2. Moves(j)
  BY DEF Moves, About, Sure
<1>3. ASSUME NEW i \in Jobs \ {j} PROVE Moves(i)
  BY DEF Moves, About, Sure
<1> QED
  BY <1>1, <1>2, <1>3

\* Copies of an episode that nobody else downloads, and that is not downloaded.
LEMMA Certain ==
  ASSUME Inv, BookInv, CopyInv, NEW j \in Jobs, Running(j), job[j].kind = "download",
         ~job[j].over, job[j].pc # "mark", episode[job[j].g] = 0
  PROVE  CopiesOf(job[j].g) \subseteq unmarked
<1> SUFFICES ASSUME NEW b \in books.rows, books.of[b] = job[j].g, b \notin unmarked PROVE FALSE
  BY DEF CopiesOf
<1>1. b \in 1..books.used /\ b # 0 /\ 0 # None
  BY Spoken, PodcastAssumption
<1>2. PICK i \in Jobs : job[i].pc = "mark" /\ job[i].book = b
  BY <1>1 DEF CopyInv, MarksOK
<1>3. i # j /\ Running(i) /\ job[i].kind = "download" /\ job[i].g = job[j].g
  BY <1>2 DEF Running, Inv, JobsOK, JobOK, DownloadPCs, CopyInv, BooksOfOK
<1> QED
  BY <1>3 DEF CopyInv, OverlapOK

\* Steps that leave the episodes and the books in the library alone.
LEMMA QuietCopies ==
  ASSUME Inv, BookInv, CopyInv,
         books'.rows = books.rows, books'.of = books.of, books'.used = books.used, why' = why,
         unmarked \subseteq unmarked', episode' = episode, podcast'.state = podcast.state,
         \A g \in Guids : \/ episodeC'[g] \in {None, episodeC[g]}
                          \/ episodeC'[g].late \/ episodeC'[g].downloaded \/ episode[g] = 0,
         OverlapsKept, \A i \in Jobs : Moves(i)
  PROVE  CopyInv'
<1>1. \A g \in Guids : Turns(g)
  BY DEF Turns
<1> QED
  BY <1>1, OverlapFrame, CopyFrame

\* Reading and storing the podcast, by a refresh or a download.
LEMMA GetsKeepsCopies ==
  ASSUME Inv, BookInv, CopyInv, NEW j \in Jobs, NEW at, NEW store, NEW after,
         \/ at = "get" /\ store = "store" /\ after = "feed"
         \/ at = "podcast" /\ store = "storePodcast" /\ after = "save",
         Gets(j, at, store, after) \/ Stores(j, store, after)
  PROVE  CopyInv'
<1>1. Running(j) /\ job[j].pc # "mark" /\ job[j] \in JobRecords
  BY DEF Gets, Stores, Running, Inv, JobsOK
<1>2. UNCHANGED <<books, why, unmarked, episode, episodeC, podcast>>
  BY DEF Gets, Stores, rows, caches, history
<1>3. OverlapsKept /\ \A i \in Jobs : Moves(i)
  <2>1. CASE Errs(j)
    BY <1>1, <1>2, <2>1, ReturnedMoves
  <2>2. CASE ~Errs(j)
    <3>1. /\ job'[j].kind = job[j].kind /\ job'[j].g = job[j].g /\ job'[j].over = job[j].over
          /\ job'[j].late = job[j].late /\ job'[j].pc \in {store, after}
          /\ job[j].pc \in {at, store}
          /\ \A i \in Jobs \ {j} : job'[i] = job[i]
      <4> USE <1>1 DEF Inv, JobsOK, JobRecords
      <4>1. CASE /\ job[j].pc = at
                 /\ job' = [job EXCEPT ![j].pc = after,
                                       ![j].copy = Keeps(j, Copy(podcastC.auto, podcastC.late))]
        BY <4>1
      <4>2. CASE /\ job[j].pc = at
                 /\ job' = [job EXCEPT ![j].pc = store, ![j].copy = Copy(podcast.auto, FALSE)]
        BY <4>2
      <4>3. CASE job[j].pc = store /\ job' = [job EXCEPT ![j].pc = after, ![j].copy = Keeps(j, @)]
        BY <4>3
      <4> QED
        BY <2>2, <4>1, <4>2, <4>3 DEF Gets, Stores
    <3>2. Sure(j)' => Sure(j)
      BY <3>1 DEF Sure
    <3> QED
      BY <1>1, <3>1, <3>2, StaysMoves
  <2> QED
    BY <2>1, <2>2
<1> QED
  BY <1>2, <1>3, QuietCopies

\* An episode that is inserted has no books, and one that is there keeps them.
LEMMA UpsertsKeepsCopies ==
  ASSUME Inv, BookInv, CopyInv, NEW j \in Jobs, NEW g \in Guids, Upserts(j, g)
  PROVE  CopyInv'
<1>1. Running(j) /\ job[j].pc = "upsert" /\ job[j].kind = "refresh" /\ job[j] \in JobRecords
  BY DEF Upserts, Running, Inv, JobsOK, JobOK, RefreshPCs
<1>2. UNCHANGED <<books, why, unmarked, episodeC, podcast>>
  BY DEF Upserts
<1>3. CASE ~Found
  <2>1. Errs(j) /\ episode' = episode
    BY <1>3 DEF Upserts
  <2> QED
    BY <1>1, <1>2, <2>1, ReturnedMoves, QuietCopies
<1>4. CASE Found
  <2>1. /\ episode'[g] # None
        /\ \A h \in Guids : episode'[h] = episode[h] \/ (episode[h] = None /\ episode'[h] = 0)
    BY <1>4, PodcastAssumption DEF Upserts, Inv, EpisodeShapes
  <2>2. \A h \in Guids : Turns(h)
    BY <1>2, <1>4, <2>1 DEF Turns, Found
  <2>3. /\ \A i \in Jobs \ {j} : job'[i] = job[i]
        /\ \/ job'[j].pc = "enqueue" /\ job'[j].kind = "refresh" /\ job'[j].g = g
           \/ job'[j].pc = "upsert" /\ job'[j].kind = "refresh"
           \/ job'[j].pc = "idle" /\ job'[j].kind = "ended"
    <3>1. CASE job[j].copy.auto /\ IsNew(j, g)
      <4>1. job' = [job EXCEPT ![j] = [job[j] EXCEPT !.pc = "enqueue", !.todo = job[j].todo \ {g},
                                                      !.g = g]]
        BY <1>4, <3>1 DEF Upserts
      <4> QED
        BY <1>1, <4>1 DEF Inv, JobsOK, JobRecords
    <3>2. CASE ~(job[j].copy.auto /\ IsNew(j, g))
      <4>1. job' = [job EXCEPT ![j] = GoesOn(j, job[j].todo \ {g})]
        BY <1>4, <3>2 DEF Upserts
      <4> QED
        <5>1. /\ job'[j] = GoesOn(j, job[j].todo \ {g})
              /\ \A i \in Jobs \ {j} : job'[i] = job[i]
          BY <4>1 DEF Inv, JobsOK
        <5>2. CASE job[j].todo \ {g} = {}
          BY <5>1, <5>2 DEF GoesOn, Ended, Fresh
        <5>3. CASE job[j].todo \ {g} # {}
          BY <1>1, <5>1, <5>3 DEF GoesOn, JobRecords
        <5> QED
          BY <5>2, <5>3
    <3> QED
      BY <3>1, <3>2
  <2>4. OverlapsKept
    BY <2>3 DEF OverlapsKept, Running
  <2>5. Moves(j)
    BY <1>1, <2>1, <2>3 DEF Moves, About, Sure
  <2>6. ASSUME NEW i \in Jobs \ {j} PROVE Moves(i)
    BY <2>3 DEF Moves, About, Sure
  <2> QED
    BY <1>2, <2>2, <2>4, <2>5, <2>6, OverlapFrame, CopyFrame
<1> QED
  BY <1>3, <1>4

\* The new job is about the episode of the refresh.
LEMMA EnqueuesKeepsCopies ==
  ASSUME Inv, BookInv, CopyInv, NEW j \in Jobs, EnqueuesDownload(j)
  PROVE  CopyInv'
<1>1. Running(j) /\ job[j].pc = "enqueue" /\ job[j].kind = "refresh" /\ job[j] \in JobRecords
  BY DEF EnqueuesDownload, Running, Inv, JobsOK, JobOK, RefreshPCs
<1>2. UNCHANGED <<books, why, unmarked, episode, episodeC, podcast>>
  BY DEF EnqueuesDownload, rows, caches
<1>3. CASE Errs(j)
  BY <1>1, <1>2, <1>3, ReturnedMoves, QuietCopies
<1>4. ASSUME NEW k \in Jobs, k \in Unused,
             job' = [job EXCEPT ![k] = Queued("download", job[j].g), ![j] = GoesOn(j, job[j].todo)]
      PROVE  CopyInv'
  <2>1. k # j /\ job[k].pc = "idle"
    BY <1>1, <1>4 DEF Unused, Inv, JobsOK, JobOK, RefreshPCs, DownloadPCs, JobRecords
  <2>2. /\ job'[k] = Queued("download", job[j].g) /\ job'[j] = GoesOn(j, job[j].todo)
        /\ \A i \in Jobs \ {j, k} : job'[i] = job[i]
    BY <1>4, <2>1 DEF Inv, JobsOK
  <2>3. job'[j].pc \in {"upsert", "idle"} /\ job'[j].kind \in {"refresh", "ended"}
    BY <1>1, <2>2 DEF GoesOn, Ended, Fresh, JobRecords
  <2>4. job'[k].pc = "queued" /\ job'[k].g = job[j].g
    BY <2>2 DEF Queued, Fresh
  <2>5. podcast.state # "gone" => episode[job[j].g] # None
    BY <1>1 DEF CopyInv, TableOK, About
  <2>6. OverlapsKept
    BY <2>2, <2>3, <2>4 DEF OverlapsKept, Running
  <2>7. Moves(j)
    BY <1>1, <2>3 DEF Moves, About, Sure
  <2>8. Moves(k)
    BY <1>2, <2>1, <2>4, <2>5 DEF Moves, About, Sure
  <2>9. ASSUME NEW i \in Jobs \ {j, k} PROVE Moves(i)
    BY <2>2 DEF Moves, About, Sure
  <2>10. \A i \in Jobs : Moves(i)
    BY <2>7, <2>8, <2>9
  <2> QED
    BY <1>2, <2>6, <2>10, QuietCopies
<1>5. \A k \in Unused : k \in Jobs
  BY DEF Unused
<1> QED
  BY <1>3, <1>4, <1>5 DEF EnqueuesDownload

\* A refresh puts nothing into the library.
LEMMA RefreshKeepsCopies ==
  ASSUME Inv, BookInv, CopyInv, NEW j \in Jobs, Refresh(j)
  PROVE  CopyInv'
<1>1. CASE ListsGuids(j) \/ StoresGuids(j) \/ SavesCheck(j)
  <2>1. Running(j) /\ job[j].pc # "mark" /\ job[j].kind = "refresh" /\ job[j] \in JobRecords
    BY <1>1 DEF ListsGuids, StoresGuids, SavesCheck, Running, Inv, JobsOK, JobOK, RefreshPCs
  <2>2. UNCHANGED <<books, why, unmarked, episode, episodeC>> /\ podcast'.state = podcast.state
    BY <1>1
      DEF ListsGuids, StoresGuids, SavesCheck, WriteBack, rows, caches, history, Inv, SettingShapes
  <2>3. OverlapsKept /\ \A i \in Jobs : Moves(i)
    <3>1. CASE Errs(j)
      BY <2>1, <2>2, <3>1, ReturnedMoves
    <3>2. CASE ~Errs(j)
      <4>1. /\ job'[j].kind = job[j].kind /\ job'[j].g = job[j].g /\ job'[j].over = job[j].over
            /\ job'[j].pc \in {"write", "storeGuids", "upsert"}
            /\ \A i \in Jobs \ {j} : job'[i] = job[i]
        <5>1. CASE ListsGuids(j)
          BY <2>1, <5>1 DEF ListsGuids, Inv, JobsOK, JobRecords
        <5>2. CASE StoresGuids(j) \/ SavesCheck(j)
          <6>1. PICK pc \in {"write", "upsert"} : job' = [job EXCEPT ![j].pc = pc]
            BY <3>2, <5>2 DEF StoresGuids, SavesCheck, Goes
          <6> QED
            BY <2>1, <6>1 DEF Inv, JobsOK, JobRecords
        <5> QED
          BY <1>1, <5>1, <5>2
      <4> QED
        BY <2>1, <4>1, StaysMoves DEF Sure
    <3> QED
      BY <3>1, <3>2
  <2> QED
    BY <2>2, <2>3, QuietCopies
<1>2. CASE RefreshGets(j)
  BY <1>2, GetsKeepsCopies DEF RefreshGets
<1>3. ASSUME NEW g \in Guids, Upserts(j, g) PROVE CopyInv'
  BY <1>3, UpsertsKeepsCopies
<1> QED
  BY <1>1, <1>2, <1>3, EnqueuesKeepsCopies DEF Refresh

\* The test whether the episode is downloaded: an answer that it is not is true, or late.
LEMMA GetsEpisodeKeepsCopies ==
  ASSUME Inv, BookInv, CopyInv, NEW j \in Jobs, GetsEpisode(j)
  PROVE  CopyInv'
<1>1. /\ Running(j) /\ job[j].pc = "episode" /\ job[j].kind = "download"
      /\ job[j] \in JobRecords /\ job[j].g \in Guids
  BY DEF GetsEpisode, Running, Inv, JobsOK, JobOK, DownloadPCs
<1>2. UNCHANGED <<books, why, unmarked, episode, episodeC, podcast>>
  BY DEF GetsEpisode, rows, caches, history
<1> DEFINE g == job[j].g
<1>3. CASE Errs(j)
  BY <1>1, <1>2, <1>3, ReturnedMoves, QuietCopies
<1>4. CASE /\ episodeC[g] # None
           /\ job' = [job EXCEPT ![j] = Decided(j, episodeC[g].downloaded, episodeC[g].late)]
  <2>1. /\ job'[j] = Decided(j, episodeC[g].downloaded, episodeC[g].late)
        /\ \A i \in Jobs \ {j} : job'[i] = job[i]
    BY <1>1, <1>4 DEF Inv, JobsOK
  <2>2. CASE episodeC[g].downloaded
    <3>1. job'[j].kind = "ended" /\ job'[j].pc = "idle"
      BY <2>1, <2>2 DEF Decided, Ended, Fresh
    <3> QED
      BY <1>1, <1>2, <2>1, <3>1, StaysMoves, QuietCopies DEF Sure
  <2>3. CASE ~episodeC[g].downloaded
    <3>1. /\ job'[j].kind = job[j].kind /\ job'[j].g = g /\ job'[j].over = job[j].over
          /\ job'[j].pc = "podcast" /\ job'[j].late = episodeC[g].late
      BY <1>1, <2>1, <2>3 DEF Decided, JobRecords
    <3>2. Sure(j)' => CopiesOf(g) \subseteq unmarked
      <4>1. Sure(j)' => ~job[j].over /\ ~episodeC[g].late
        BY <3>1 DEF Sure
      <4>2. ~episodeC[g].late => episode[g] = 0
        BY <1>1, <1>4, <2>3 DEF CopyInv, AnswersOK
      <4> QED
        BY <1>1, <4>1, <4>2, Certain
    <3> QED
      BY <1>1, <1>2, <2>1, <3>1, <3>2, StaysMoves, QuietCopies
  <2> QED
    BY <2>2, <2>3
<1>5. CASE job' = [job EXCEPT ![j].pc = "storeEpisode", ![j].book = episode[g]]
  <2>1. /\ job'[j].kind = job[j].kind /\ job'[j].g = g /\ job'[j].over = job[j].over
        /\ job'[j].pc = "storeEpisode" /\ job'[j].book = episode[g]
        /\ \A i \in Jobs \ {j} : job'[i] = job[i]
    BY <1>1, <1>5 DEF Inv, JobsOK, JobRecords
  <2>2. Sure(j)' => CopiesOf(g) \subseteq unmarked
    <3>1. Sure(j)' => ~job[j].over /\ episode[g] = 0
      BY <2>1 DEF Sure
    <3> QED
      BY <1>1, <3>1, Certain
  <2> QED
    BY <1>1, <1>2, <2>1, <2>2, StaysMoves, QuietCopies
<1> QED
  BY <1>3, <1>4, <1>5 DEF GetsEpisode

\* What is stored is true, or known to be late.
LEMMA StoresEpisodeKeepsCopies ==
  ASSUME Inv, BookInv, CopyInv, NEW j \in Jobs, StoresEpisode(j)
  PROVE  CopyInv'
<1>1. /\ Running(j) /\ job[j].pc = "storeEpisode" /\ job[j].kind = "download"
      /\ job[j] \in JobRecords /\ job[j].g \in Guids
  BY DEF StoresEpisode, Running, Inv, JobsOK, JobOK, DownloadPCs
<1>2. UNCHANGED <<books, why, unmarked, episode, podcast>>
  BY DEF StoresEpisode, rows, history
<1> DEFINE g == job[j].g
           d == job[j].book # 0
<1>3. /\ \A h \in Guids \ {g} : episodeC'[h] = episodeC[h]
      /\ episodeC'[g].downloaded = d
      /\ episodeC'[g].late = (episode[g] = None \/ (episode[g] # 0) # d)
  BY <1>1 DEF StoresEpisode, Inv, EpisodeShapes
<1>4. \A h \in Guids : \/ episodeC'[h] \in {None, episodeC[h]}
                       \/ episodeC'[h].late \/ episodeC'[h].downloaded \/ episode[h] = 0
  BY <1>3
<1>5. job'[j] = Decided(j, d, FALSE) /\ \A i \in Jobs \ {j} : job'[i] = job[i]
  BY <1>1 DEF StoresEpisode, Inv, JobsOK
<1>6. CASE d
  <2>1. job'[j].kind = "ended" /\ job'[j].pc = "idle"
    BY <1>5, <1>6 DEF Decided, Ended, Fresh
  <2> QED
    BY <1>1, <1>2, <1>4, <1>5, <2>1, StaysMoves, QuietCopies DEF Sure
<1>7. CASE ~d
  <2>1. /\ job'[j].kind = job[j].kind /\ job'[j].g = g /\ job'[j].over = job[j].over
        /\ job'[j].pc = "podcast"
    BY <1>1, <1>5, <1>7 DEF Decided, JobRecords
  <2>2. Sure(j)' => Sure(j)
    BY <1>1, <1>7, <2>1 DEF Sure
  <2> QED
    BY <1>1, <1>2, <1>4, <1>5, <2>1, <2>2, StaysMoves, QuietCopies
<1> QED
  BY <1>6, <1>7

\* A book that was refused, or that could not be marked, is known not to be marked.
LEMMA FailsKeepCopies ==
  ASSUME Inv, BookInv, CopyInv, NEW j \in Jobs, CreateFails(j) \/ MarkFails(j) \/ Fails(j)
  PROVE  CopyInv'
<1>1. Running(j) /\ Errs(j)
  BY DEF CreateFails, MarkFails, Fails, Running
<1>2. /\ UNCHANGED <<why, episode, episodeC, podcast>> /\ unmarked \subseteq unmarked'
      /\ job[j].pc = "mark" => job[j].book \in unmarked'
  BY DEF CreateFails, MarkFails, Fails, rows, caches, history
<1>3. books'.rows = books.rows /\ books'.of = books.of /\ books'.used = books.used
  BY DEF CreateFails, MarkFails, Fails, Inv, BookShapes, BookRecords
<1> QED
  BY <1>1, <1>2, <1>3, ReturnedMoves, QuietCopies

\* Two downloads of one episode that run.
LEMMA Overlap ==
  ASSUME Inv, CopyInv, NEW i \in Jobs, NEW j \in Jobs, i # j,
         job[i].pc \in DownloadPCs, job[j].pc \in DownloadPCs, job[i].g = job[j].g
  PROVE  job[i].over /\ job[j].over
BY DEF Inv, JobsOK, JobOK, CopyInv, OverlapOK, Running, DownloadPCs

\* A new book is the newest one, and is not in the library yet.
LEMMA SavesKeepsCopies ==
  ASSUME Inv, BookInv, CopyInv, NEW j \in Jobs, Saves(j)
  PROVE  CopyInv'
<1> DEFINE b == books.used + 1
           g == job[j].g
<1>1. /\ job[j].pc = "save" /\ job[j].kind = "download" /\ g \in Guids /\ job[j] \in JobRecords
      /\ b \in Books
  BY Spoken DEF Saves, Inv, JobsOK, JobOK, DownloadPCs, Books
<1>2. UNCHANGED <<podcast, episode, episodeC, why, unmarked>>
  BY DEF Saves, rows, caches, history
<1>3. /\ books'.used = b /\ books'.rows = books.rows /\ books'.of[b] = g
      /\ \A c \in 1..books.used : books'.of[c] = books.of[c]
  BY <1>1, Spoken DEF Saves, Inv, BookShapes, BookRecords, Books
<1>4. /\ job'[j].pc = "create" /\ job'[j].book = b /\ job'[j].g = g /\ job'[j].kind = "download"
      /\ job'[j].over = job[j].over /\ job'[j].late = job[j].late
      /\ \A i \in Jobs \ {j} : job'[i] = job[i]
  BY <1>1 DEF Saves, Inv, JobsOK, JobRecords
<1>5. /\ \A c \in books.rows : c \in 1..books.used /\ books'.of[c] = books.of[c]
      /\ b \notin 1..books.used /\ 1..b = 1..books.used \cup {b} /\ b \in 1..b
      /\ \A c \in 1..books.used : c < b
  BY <1>3, Spoken
<1> HIDE DEF b
<1>6. OverlapOK'
  <2>1. OverlapsKept
    BY <1>1, <1>4 DEF OverlapsKept, Running
  <2> QED
    BY <2>1, OverlapFrame
<1>7. BooksOfOK'
  <2>1. \A c \in 1..books'.used : books'.of[c] \in Guids
    BY <1>1, <1>3, <1>5 DEF CopyInv, BooksOfOK
  <2>2. ASSUME NEW i \in Jobs, job'[i].pc \in {"create", "mark"}
        PROVE  job'[i].book \in 1..books'.used /\ books'.of[job'[i].book] = job'[i].g
    <3>1. CASE i = j
      BY <1>3, <1>4, <1>5, <3>1
    <3>2. CASE i # j
      <4>1. job'[i] = job[i] /\ job[i].book \in 1..books.used /\ books.of[job[i].book] = job[i].g
        BY <1>4, <2>2, <3>2 DEF CopyInv, BooksOfOK
      <4> QED
        BY <1>3, <1>5, <4>1
    <3> QED
      BY <3>1, <3>2
  <2> QED
    BY <2>1, <2>2 DEF BooksOfOK
<1>8. TableOK'
  <2>1. podcast.state # "gone" => episode[g] # None
    BY <1>1 DEF CopyInv, TableOK, About
  <2>2. podcast.state # "gone" => \A c \in 1..books'.used : episode[books'.of[c]] # None
    BY <1>3, <1>5, <2>1 DEF CopyInv, TableOK
  <2>3. podcast.state # "gone" => \A i \in Jobs : About(i)' => episode[job'[i].g] # None
    BY <1>4, <2>1 DEF CopyInv, TableOK, About
  <2>4. podcast.state = "none" => \A h \in Guids : episode[h] = None
    BY DEF CopyInv, TableOK
  <2> QED
    BY <1>2, <2>2, <2>3, <2>4 DEF TableOK
<1>9. AnswersOK' /\ SecondCopyExplained'
  BY <1>2, <1>3, <1>5 DEF CopyInv, AnswersOK, SecondCopyExplained
<1>10. MarksOK'
  <2>1. \A i \in Jobs : job[i].pc = "mark" => job'[i] = job[i]
    BY <1>1, <1>4
  <2> QED
    BY <1>2, <1>3, <1>5, <2>1 DEF CopyInv, MarksOK
<1>11. SureOK'
  <2>1. \A i \in Jobs : Sure(i)' => Sure(i) /\ job'[i].g = job[i].g
    BY <1>1, <1>4 DEF Sure
  <2> QED
    BY <1>2, <1>3, <1>5, <2>1 DEF CopyInv, SureOK, CopiesOf
<1>12. LaterOK'
  <2> SUFFICES ASSUME NEW i \in Jobs, job'[i].pc = "create",
                      NEW c \in books.rows, books.of[c] = job'[i].g, job'[i].book < c
               PROVE  why[c] # {}
    BY <1>2, <1>3, <1>5 DEF LaterOK, CopiesOf
  <2>1. i # j
    BY <1>4, <1>5, Spoken
  <2> QED
    BY <1>4, <2>1 DEF CopyInv, LaterOK, CopiesOf
<1> QED
  BY <1>6, <1>7, <1>8, <1>9, <1>10, <1>11, <1>12 DEF CopyInv

\* A book that comes into the library beside another one says why.
LEMMA CreatesKeepsCopies ==
  ASSUME Inv, BookInv, CopyInv, NEW j \in Jobs, Creates(j)
  PROVE  CopyInv'
<1> DEFINE b == job[j].book
           g == job[j].g
<1>1. /\ job[j].pc = "create" /\ job[j].kind = "download" /\ job[j] \in JobRecords
      /\ b \in Books /\ b \notin books.rows /\ books.of[b] = g
  BY DEF Creates, Inv, JobsOK, JobOK, DownloadPCs, BookInv, CopyInv, BooksOfOK
<1>2. UNCHANGED <<podcast, episode, episodeC, unmarked>>
  BY DEF Creates, rows, caches
<1>3. books'.used = books.used /\ books'.of = books.of /\ books'.rows = books.rows \cup {b}
  BY DEF Creates, Inv, BookShapes, BookRecords
<1>4. /\ job'[j].pc = "mark" /\ job'[j].book = b /\ job'[j].g = g /\ job'[j].kind = "download"
      /\ job'[j].over = job[j].over
      /\ \A i \in Jobs \ {j} : job'[i] = job[i]
  BY <1>1 DEF Creates, Inv, JobsOK, JobRecords
<1>5. /\ \A c \in books.rows : why'[c] = why[c]
      /\ "overlap" \in why'[b] <=> job[j].over
      /\ "late" \in why'[b] <=> job[j].late
      /\ "unmarked" \in why'[b] <=> CopiesOf(g) \cap unmarked # {}
  BY <1>1 DEF Creates, Inv, BookShapes, BookRecords
<1>6. OverlapOK'
  <2>1. OverlapsKept
    BY <1>1, <1>4 DEF OverlapsKept, Running
  <2> QED
    BY <2>1, OverlapFrame
<1>7. BooksOfOK'
  BY <1>1, <1>3, <1>4 DEF CopyInv, BooksOfOK
<1>8. TableOK' /\ AnswersOK'
  BY <1>1, <1>2, <1>3, <1>4 DEF CopyInv, TableOK, AnswersOK, About
<1>9. MarksOK'
  <2>1. \A i \in Jobs : job[i].pc = "mark" => job'[i] = job[i]
    BY <1>1, <1>4
  <2> QED
    BY <1>2, <1>3, <1>4, <2>1 DEF CopyInv, MarksOK
<1>10. SureOK'
  <2> SUFFICES ASSUME NEW i \in Jobs, Sure(i)',
                      NEW c \in books.rows \cup {b}, books.of[c] = job'[i].g
               PROVE  c \in unmarked
    BY <1>2, <1>3 DEF SureOK, CopiesOf
  <2>1. i # j /\ job'[i] = job[i]
    BY <1>4 DEF Sure
  <2>2. Sure(i)
    BY <2>1 DEF Sure
  <2>3. c # b
    <3>1. job[i].pc \in DownloadPCs /\ ~job[i].over /\ job[j].pc \in DownloadPCs
      BY <1>1, <2>2 DEF Sure, DownloadPCs
    <3> QED
      BY <1>1, <2>1, <3>1, Overlap
  <2> QED
    BY <2>1, <2>2, <2>3 DEF CopyInv, SureOK, CopiesOf
<1>11. LaterOK'
  <2> SUFFICES ASSUME NEW i \in Jobs, job'[i].pc = "create",
                      NEW c \in books.rows \cup {b}, books.of[c] = job'[i].g, job'[i].book < c
               PROVE  why'[c] # {}
    BY <1>3 DEF LaterOK, CopiesOf
  <2>1. i # j /\ job'[i] = job[i] /\ job[i].pc = "create"
    BY <1>4
  <2>2. CASE c = b
    <3>1. job[i].pc \in DownloadPCs /\ job[j].pc \in DownloadPCs
      BY <1>1, <2>1 DEF DownloadPCs
    <3>2. job[j].over
      BY <1>1, <2>1, <2>2, <3>1, Overlap
    <3> QED
      BY <1>5, <2>2, <3>2
  <2>3. CASE c # b
    <3>1. why[c] # {}
      BY <2>1, <2>3 DEF CopyInv, LaterOK, CopiesOf
    <3> QED
      BY <1>5, <2>3, <3>1
  <2> QED
    BY <2>2, <2>3
<1>12. SecondCopyExplained'
  <2> SUFFICES ASSUME NEW a \in books.rows \cup {b}, NEW c \in books.rows \cup {b},
                      a < c, books.of[a] = books.of[c]
               PROVE  why'[c] # {}
    BY <1>3 DEF SecondCopyExplained
  <2>1. CASE c = b
    <3>1. a \in CopiesOf(g)
      <4>1. a # b
        BY <1>1, <2>1, PodcastAssumption DEF Books
      <4> QED
        BY <1>1, <2>1, <4>1 DEF CopiesOf
    <3>2. CASE job[j].over \/ job[j].late
      BY <1>5, <2>1, <3>2
    <3>3. CASE ~job[j].over /\ ~job[j].late
      <4>1. CopiesOf(g) \subseteq unmarked
        BY <1>1, <3>3 DEF CopyInv, SureOK, Sure
      <4> QED
        BY <1>5, <2>1, <3>1, <4>1
    <3> QED
      BY <3>2, <3>3
  <2>2. CASE a = b /\ c # b
    <3>1. why[c] # {}
      BY <1>1, <2>2 DEF CopyInv, LaterOK, CopiesOf
    <3> QED
      BY <1>5, <2>2, <3>1
  <2>3. CASE a # b /\ c # b
    <3>1. why[c] # {}
      BY <2>3 DEF CopyInv, SecondCopyExplained
    <3> QED
      BY <1>5, <2>3, <3>1
  <2> QED
    BY <2>1, <2>2, <2>3
<1> QED
  BY <1>6, <1>7, <1>8, <1>9, <1>10, <1>11, <1>12 DEF CopyInv

\* The mark goes from one copy to another, which leaves the first one without it.
LEMMA MarksKeepsCopies ==
  ASSUME Inv, BookInv, CopyInv, NEW j \in Jobs, Marks(j)
  PROVE  CopyInv'
<1> DEFINE b == job[j].book
           g == job[j].g
<1>1. /\ job[j].pc = "mark" /\ job[j].kind = "download" /\ g \in Guids /\ job[j] \in JobRecords
      /\ b \in Books /\ books.of[b] = g /\ Running(j) /\ About(j)
  BY DEF Marks, Inv, JobsOK, JobOK, DownloadPCs, CopyInv, BooksOfOK, Running, About
<1>2. UNCHANGED <<podcast, books, why>>
  BY DEF Marks
<1>3. CASE b \notin books.rows
  <2>1. Errs(j) /\ UNCHANGED <<episode, episodeC, unmarked>>
    BY <1>3 DEF Marks
  <2> QED
    BY <1>1, <1>2, <1>3, <2>1, ReturnedMoves, QuietCopies
<1>4. CASE b \in books.rows
  <2>1. /\ episode'[g] = IF episode[g] = None THEN None ELSE b
        /\ \A h \in Guids \ {g} : episode'[h] = episode[h]
        /\ episodeC'[g] = None /\ \A h \in Guids \ {g} : episodeC'[h] = episodeC[h]
    BY <1>1, <1>4 DEF Marks, Inv, EpisodeShapes
  <2>2. unmarked' = unmarked \cup (({episode[g]} \cap Books) \ {b})
    BY <1>4 DEF Marks
  <2>3. /\ job'[j].pc = "idle" /\ job'[j].kind = "ended"
        /\ \A i \in Jobs \ {j} : job'[i] = job[i]
    BY <1>4 DEF Marks, Ended, Fresh, Inv, JobsOK
  <2>4. b # None /\ \A h \in Guids : episode'[h] = None <=> episode[h] = None
    BY <1>1, <2>1, PodcastAssumption DEF Books
  <2>5. OverlapOK'
    <3>1. OverlapsKept
      BY <2>3 DEF OverlapsKept, Running
    <3> QED
      BY <3>1, OverlapFrame
  <2>6. BooksOfOK'
    BY <1>2, <2>3 DEF CopyInv, BooksOfOK
  <2>7. TableOK'
    <3>1. podcast.state # "gone" => \A i \in Jobs : About(i)' => episode'[job'[i].g] # None
      <4> SUFFICES ASSUME podcast.state # "gone", NEW i \in Jobs, About(i)'
                   PROVE  episode'[job'[i].g] # None
        OBVIOUS
      <4>1. job'[i] = job[i] /\ About(i)
        BY <2>3 DEF About
      <4>2. job[i].g \in Guids /\ episode[job[i].g] # None
        BY <4>1, Spoken DEF CopyInv, TableOK
      <4> QED
        BY <2>4, <4>1, <4>2
    <3>2. podcast.state # "gone" => \A c \in 1..books.used : episode'[books.of[c]] # None
      BY <2>4 DEF CopyInv, TableOK, BooksOfOK
    <3> QED
      BY <1>2, <2>4, <3>1, <3>2 DEF CopyInv, TableOK
  <2>8. AnswersOK'
    BY <2>1 DEF CopyInv, AnswersOK
  <2>9. MarksOK'
    <3> SUFFICES ASSUME NEW c \in books.rows, c \notin unmarked', episode'[books.of[c]] # None
                 PROVE  \/ episode'[books.of[c]] = c
                        \/ \E i \in Jobs : job'[i].pc = "mark" /\ job'[i].book = c
      BY <1>2 DEF MarksOK
    <3>1. books.of[c] \in Guids /\ c \in Books /\ c \notin unmarked
      BY <2>2, Spoken DEF Inv, BookShapes, BookRecords
    <3>2. episode[books.of[c]] # None
      BY <2>4, <3>1
    <3>3. CASE c = b
      BY <1>1, <2>1, <3>2, <3>3
    <3>4. CASE c # b /\ episode[books.of[c]] = c
      <4>1. books.of[c] # g
        BY <2>2, <3>1, <3>4
      <4> QED
        BY <2>1, <3>1, <3>4, <4>1
    <3>5. ASSUME NEW i \in Jobs, job[i].pc = "mark", job[i].book = c, c # b
          PROVE  job'[i].pc = "mark" /\ job'[i].book = c
      BY <2>3, <3>5
    <3> QED
      BY <3>1, <3>2, <3>3, <3>4, <3>5 DEF CopyInv, MarksOK
  <2>10. SureOK'
    <3>1. \A i \in Jobs : Sure(i)' => Sure(i) /\ job'[i].g = job[i].g
      BY <2>3 DEF Sure
    <3> QED
      BY <1>2, <2>2, <3>1 DEF CopyInv, SureOK, CopiesOf
  <2>11. LaterOK'
    <3>1. \A i \in Jobs : job'[i].pc = "create" => job'[i] = job[i]
      BY <2>3
    <3> QED
      BY <1>2, <3>1 DEF CopyInv, LaterOK, CopiesOf
  <2>12. SecondCopyExplained'
    BY <1>2 DEF CopyInv, SecondCopyExplained
  <2> QED
    BY <2>5, <2>6, <2>7, <2>8, <2>9, <2>10, <2>11, <2>12 DEF CopyInv
<1> QED
  BY <1>3, <1>4

\* Every step of a download.
LEMMA DownloadKeepsCopies ==
  ASSUME Inv, BookInv, CopyInv, NEW j \in Jobs, Download(j)
  PROVE  CopyInv'
<1>1. CASE DownloadGets(j)
  BY <1>1, GetsKeepsCopies DEF DownloadGets
<1> QED
  BY <1>1, GetsEpisodeKeepsCopies, StoresEpisodeKeepsCopies, SavesKeepsCopies, CreatesKeepsCopies,
     FailsKeepCopies, MarksKeepsCopies DEF Download

\* Books that are deleted take their marks along.
LEMMA DroppedKeepsCopies ==
  ASSUME Inv, BookInv, CopyInv, NEW gone \in SUBSET Books, Dropped(gone), UNCHANGED <<podcast, job>>,
         books'.rows = books.rows \ gone, books'.of = books.of, books'.used = books.used
  PROVE  CopyInv'
<1>1. 0 # None /\ 0 \notin gone /\ None \notin gone
  <2>1. Books \subseteq Nat /\ 0 \in Nat /\ 0 \notin Books
    BY PodcastAssumption DEF Books
  <2> QED
    BY <2>1, PodcastAssumption
<1>3. /\ \A g \in Guids : episode'[g] = IF episode[g] \in gone THEN 0 ELSE episode[g]
      /\ \A g \in Guids : episodeC'[g] = None
      /\ unmarked' = unmarked \ gone /\ \A c \in Books \ gone : why'[c] = why[c]
  BY DEF Dropped
<1>4. /\ \A g \in Guids : episode'[g] = None <=> episode[g] = None
      /\ \A c \in books.rows : c \in Books
  BY <1>1, <1>3 DEF Inv, BookShapes, BookRecords
<1>5. OverlapOK' /\ BooksOfOK'
  BY DEF CopyInv, OverlapOK, BooksOfOK, Running
<1>6. TableOK'
  <2>1. podcast.state # "gone" => \A i \in Jobs : About(i) => episode'[job[i].g] # None
    BY <1>4, Spoken DEF CopyInv, TableOK
  <2>2. podcast.state # "gone" => \A c \in 1..books.used : episode'[books.of[c]] # None
    BY <1>4 DEF CopyInv, TableOK, BooksOfOK
  <2> QED
    BY <1>4, <2>1, <2>2 DEF CopyInv, TableOK, About
<1>7. AnswersOK'
  BY <1>3 DEF AnswersOK
<1>8. MarksOK'
  <2> SUFFICES ASSUME NEW c \in books.rows \ gone, c \notin unmarked', episode'[books.of[c]] # None
               PROVE  \/ episode'[books.of[c]] = c
                      \/ \E i \in Jobs : job[i].pc = "mark" /\ job[i].book = c
    BY DEF MarksOK
  <2>1. books.of[c] \in Guids /\ c \notin unmarked
    BY <1>3, Spoken
  <2>2. episode[books.of[c]] # None
    BY <1>4, <2>1
  <2>3. CASE episode[books.of[c]] = c
    BY <1>3, <2>1, <2>3
  <2> QED
    BY <2>1, <2>2, <2>3 DEF CopyInv, MarksOK
<1>9. SureOK'
  BY <1>3 DEF CopyInv, SureOK, CopiesOf, Sure
<1>10. LaterOK' /\ SecondCopyExplained'
  BY <1>3, <1>4 DEF CopyInv, LaterOK, SecondCopyExplained, CopiesOf
<1> QED
  BY <1>5, <1>6, <1>7, <1>8, <1>9, <1>10 DEF CopyInv

\* The deletion of one book, and of those the deletion of the library has listed.
LEMMA DeletionsKeepCopies ==
  ASSUME Inv, BookInv, CopyInv, (\E b \in Books : DeleteBook(b)) \/ PurgeDeletes
  PROVE  CopyInv'
<1>0. books \in BookRecords /\ books.ids \in SUBSET Books
  BY DEF Inv, BookShapes, BookRecords
<1>1. ASSUME NEW b \in Books, DeleteBook(b) PROVE CopyInv'
  <2>1. books'.rows = books.rows \ {b} /\ books'.of = books.of /\ books'.used = books.used
    BY <1>0, <1>1 DEF DeleteBook, BookRecords
  <2>2. Dropped({b}) /\ UNCHANGED <<podcast, job>> /\ {b} \in SUBSET Books
    BY <1>1 DEF DeleteBook
  <2> QED
    BY <2>1, <2>2, DroppedKeepsCopies
<1>2. CASE PurgeDeletes
  <2>1. books'.of = books.of /\ books'.used = books.used /\ UNCHANGED <<podcast, job>>
    BY <1>0, <1>2 DEF PurgeDeletes, BookRecords
  <2>2. \/ books'.rows = books.rows \ books.ids /\ Dropped(books.ids)
        \/ books'.rows = books.rows /\ UNCHANGED <<episode, episodeC, why, unmarked>>
    BY <1>0, <1>2 DEF PurgeDeletes, BookRecords, caches
  <2> QED
    BY <1>0, <2>1, <2>2, DroppedKeepsCopies, SameMoves, QuietCopies
<1> QED
  BY <1>1, <1>2

\* A download that starts learns of those that run, and they learn of it.
LEMMA StartKeepsCopies ==
  ASSUME Inv, BookInv, CopyInv, NEW j \in Jobs, Start(j)
  PROVE  CopyInv'
<1>1. UNCHANGED <<podcast, episode, episodeC, books, why, unmarked>>
  BY DEF Start, rows, caches, history
<1>2. job[j].pc = "queued" /\ job \in [Jobs -> JobRecords] /\ ~Running(j)
  BY DEF Start, Inv, JobsOK, Running
<1>3. CASE job[j].kind = "download"
  <2>1. /\ job'[j] = [job[j] EXCEPT !.pc = "episode", !.tries = 1,
                                     !.over = \E k \in Jobs : SameDownload(k, j)]
        /\ \A i \in Jobs \ {j} :
             job'[i] = [job[i] EXCEPT !.over = job[i].over \/ SameDownload(i, j)]
    BY <1>3 DEF Start
  <2>2. /\ job'[j].pc = "episode" /\ job'[j].g = job[j].g /\ job'[j].kind = "download"
        /\ job'[j].over = \E k \in Jobs : SameDownload(k, j)
    BY <1>2, <1>3, <2>1 DEF JobRecords
  <2>3. ASSUME NEW i \in Jobs \ {j}
        PROVE  /\ job'[i].pc = job[i].pc /\ job'[i].g = job[i].g /\ job'[i].kind = job[i].kind
               /\ job'[i].book = job[i].book /\ job'[i].late = job[i].late
               /\ job'[i].over = (job[i].over \/ SameDownload(i, j))
    <3> DEFINE over == job[i].over \/ SameDownload(i, j)
    <3>1. job'[i] = [job[i] EXCEPT !.over = over] /\ job[i] \in JobRecords
      BY <1>2, <2>1
    <3> HIDE DEF over
    <3>2. /\ job'[i].pc = job[i].pc /\ job'[i].g = job[i].g /\ job'[i].kind = job[i].kind
          /\ job'[i].book = job[i].book /\ job'[i].late = job[i].late /\ job'[i].over = over
      BY <3>1 DEF JobRecords
    <3> QED
      BY <3>2 DEF over
  <2>4. OverlapOK'
    <3> SUFFICES ASSUME NEW i \in Jobs, NEW k \in Jobs, i # k, Running(i)', Running(k)',
                        job'[i].kind = "download", job'[k].kind = "download", job'[i].g = job'[k].g
                 PROVE  job'[i].over
      BY DEF OverlapOK
    <3>1. CASE i # j /\ k # j
      <4>1. job[i].over
        BY <2>3, <3>1 DEF CopyInv, OverlapOK, Running
      <4> QED
        BY <2>3, <3>1, <4>1
    <3>2. CASE i = j
      <4>1. SameDownload(k, j)
        BY <2>2, <2>3, <3>2 DEF SameDownload, Running
      <4> QED
        BY <2>2, <3>2, <4>1
    <3>3. CASE k = j
      <4>1. SameDownload(i, j)
        BY <2>2, <2>3, <3>3 DEF SameDownload, Running
      <4> QED
        BY <2>3, <3>3, <4>1
    <3> QED
      BY <3>1, <3>2, <3>3
  <2>5. Moves(j)
    BY <1>2, <1>3, <2>2 DEF Moves, About, Sure
  <2>6. ASSUME NEW i \in Jobs \ {j} PROVE Moves(i)
    BY <2>3 DEF Moves, About, Sure
  <2>7. \A g \in Guids : Turns(g)
    BY <1>1 DEF Turns
  <2> QED
    BY <1>1, <2>4, <2>5, <2>6, <2>7, CopyFrame
<1>4. CASE job[j].kind # "download"
  <2>1. /\ job'[j].pc \in {"get", "idle"} /\ job'[j].kind \in {"refresh", "ended"}
        /\ \A i \in Jobs \ {j} : job'[i] = job[i]
    BY <1>2, <1>4 DEF Start, JobRecords, Ended, Fresh
  <2>2. OverlapsKept
    BY <2>1 DEF OverlapsKept, Running
  <2>3. Moves(j)
    BY <1>2, <2>1 DEF Moves, About, Sure
  <2>4. ASSUME NEW i \in Jobs \ {j} PROVE Moves(i)
    BY <2>1 DEF Moves, About, Sure
  <2> QED
    BY <1>1, <2>2, <2>3, <2>4, QuietCopies
<1> QED
  BY <1>3, <1>4

\* Requests: none but the deletions touches the books in the library.
LEMMA RequestKeepsCopies ==
  ASSUME Inv, BookInv, CopyInv, Request
  PROVE  CopyInv' \/ Emptied'
<1>1. ASSUME NEW feed \in SUBSET Guids, Subscribe(feed) PROVE CopyInv'
  <2>1. podcast.state = "none" /\ podcast'.state = "live"
        /\ UNCHANGED <<books, why, unmarked, job, episodeC>>
    BY <1>1 DEF Subscribe, caches, history
  <2>2. \A g \in Guids : episode[g] = None /\ episode'[g] \in {None, 0}
    BY <1>1, <2>1 DEF Subscribe, CopyInv, TableOK
  <2>3. \A g \in Guids : Turns(g)
    BY <2>1, <2>2 DEF Turns
  <2> QED
    BY <2>1, <2>3, SameMoves, OverlapFrame, CopyFrame
<1>2. CASE DeletePodcast
  <2>1. /\ podcast'.state = "gone" /\ podcast.state = "live"
        /\ UNCHANGED <<books, why, unmarked, job>>
        /\ \A g \in Guids : episode'[g] = None /\ episodeC'[g] = None
    BY <1>2 DEF DeletePodcast, Found, Inv, SettingShapes
  <2>2. \A g \in Guids : Turns(g)
    BY <2>1 DEF Turns
  <2> QED
    BY <2>1, <2>2, SameMoves, OverlapFrame, CopyFrame
<1>3. CASE (\E v \in Settings : Edit(v)) \/ EditGets \/ EditStores \/ EditWrites
  <2>1. UNCHANGED <<books, why, unmarked, job, episode, episodeC>>
    BY <1>3 DEF Edit, EditGets, EditStores, EditWrites, rows, caches, history
  <2>2. podcast'.state = podcast.state
    BY <1>3 DEF Edit, EditGets, EditStores, EditWrites, WriteBack, rows, Inv, SettingShapes
  <2> QED
    BY <2>1, <2>2, SameMoves, QuietCopies
<1>4. CASE \/ \E b \in Books : RemoveFiles(b) \/ ReadsBook(b)
           \/ Purge \/ PurgeLists \/ SavesCover
  <2>1. UNCHANGED <<why, unmarked, job, episode, episodeC, podcast>>
    BY <1>4 DEF RemoveFiles, ReadsBook, Purge, PurgeLists, SavesCover, rows, caches, history
  <2>2. books'.rows = books.rows /\ books'.of = books.of /\ books'.used = books.used
    BY <1>4 DEF RemoveFiles, ReadsBook, Purge, PurgeLists, SavesCover, Inv, BookShapes, BookRecords
  <2> QED
    BY <2>1, <2>2, SameMoves, QuietCopies
<1>6. CASE PurgeEnds
  <2>1. books \in BookRecords /\ UNCHANGED <<episodeC, job>>
    BY <1>6 DEF Inv, BookShapes, PurgeEnds, caches
  <2>2. CASE books' = [books EXCEPT !.purge = "done", !.rows = {}, !.spoiled = {}]
    BY <2>1, <2>2 DEF BookRecords, Emptied, LibraryGone
  <2>3. CASE (\E pc \in {"none", "list"} : books' = [books EXCEPT !.purge = pc])
             /\ UNCHANGED <<rows, why, unmarked>>
    <3>1. books'.rows = books.rows /\ books'.of = books.of /\ books'.used = books.used
      BY <2>1, <2>3 DEF BookRecords
    <3> QED
      BY <2>1, <2>3, <3>1, SameMoves, QuietCopies DEF rows
  <2> QED
    BY <1>6, <2>2, <2>3 DEF PurgeEnds
<1>5. ASSUME NEW j \in Jobs, NEW kind \in {"refresh", "all", "download"},
             NEW g \in Guids \cup {None}, Ask(j, kind, g)
      PROVE  CopyInv'
  <2>1. UNCHANGED <<books, why, unmarked, episode, episodeC, podcast>>
    BY <1>5 DEF Ask, rows, caches
  <2>2. job[j].pc # "mark"
    BY <1>5 DEF Ask, Unused, Inv, JobsOK, JobOK, DownloadPCs
  <2>3. /\ job'[j].pc = "queued" /\ job'[j].kind = kind /\ job'[j].g = g
        /\ \A i \in Jobs \ {j} : job'[i] = job[i]
    BY <1>5 DEF Ask, Queued, Fresh, Inv, JobsOK
  <2>4. kind = "download" => episode[g] # None
    BY <1>5 DEF Ask
  <2>5. OverlapsKept
    BY <2>3 DEF OverlapsKept, Running
  <2>6. Moves(j)
    BY <2>1, <2>2, <2>3, <2>4 DEF Moves, About, Sure
  <2>7. ASSUME NEW i \in Jobs \ {j} PROVE Moves(i)
    BY <2>3 DEF Moves, About, Sure
  <2> QED
    BY <2>1, <2>5, <2>6, <2>7, QuietCopies
<1> QED
  BY <1>1, <1>2, <1>3, <1>4, <1>5, <1>6, DeletionsKeepCopies DEF Request

\* A crash leaves the books without marks that were about to get them.
LEMMA CrashKeepsCopies ==
  ASSUME Inv, BookInv, CopyInv, Crash
  PROVE  CopyInv'
<1>1. /\ UNCHANGED <<why, episode, podcast>> /\ unmarked \subseteq unmarked'
      /\ \A j \in Jobs : job[j].pc = "mark" => job[j].book \in unmarked'
      /\ \A g \in Guids : episodeC'[g] = None
  BY DEF Crash, rows
<1>2. books'.rows = books.rows /\ books'.of = books.of /\ books'.used = books.used
  BY DEF Crash, Inv, BookShapes, BookRecords
<1>3. \A i \in Jobs : job'[i] = IF Running(i) THEN Ended ELSE job[i]
  BY DEF Crash
<1>4. OverlapsKept
  BY <1>3 DEF OverlapsKept, Running, Ended, Fresh
<1>5. ASSUME NEW i \in Jobs PROVE Moves(i)
  <2>1. CASE Running(i)
    <3>1. job'[i].pc = "idle" /\ job'[i].kind = "ended"
      BY <1>3, <2>1 DEF Ended, Fresh
    <3> QED
      BY <1>1, <3>1 DEF Moves, About, Sure
  <2>2. CASE ~Running(i)
    BY <1>3, <2>2 DEF Moves, About, Sure
  <2> QED
    BY <2>1, <2>2
<1> QED
  BY <1>1, <1>2, <1>4, <1>5, QuietCopies

\* Nothing comes into a library that is gone.
LEMMA EmptyStays ==
  ASSUME Inv, Emptied, [Next]_vars
  PROVE  Emptied'
<1>0. books \in BookRecords /\ books.purge = "done" /\ books.rows = {}
  BY DEF Inv, BookShapes, Emptied, LibraryGone
<1>1. ASSUME Request PROVE Emptied'
  <2>1. CASE \/ \E feed \in SUBSET Guids : Subscribe(feed)
             \/ DeletePodcast \/ (\E v \in Settings : Edit(v)) \/ EditGets \/ EditStores \/ EditWrites
             \/ \E j \in Jobs, kind \in {"refresh", "all", "download"}, g \in Guids \cup {None} :
                  Ask(j, kind, g)
    <3>1. UNCHANGED books
      BY <2>1 DEF Subscribe, DeletePodcast, Edit, EditGets, EditStores, EditWrites, Ask
    <3> QED
      BY <3>1 DEF Emptied, LibraryGone
  <2>2. CASE \/ \E b \in Books : DeleteBook(b) \/ RemoveFiles(b) \/ ReadsBook(b)
             \/ Purge \/ PurgeLists \/ PurgeDeletes \/ PurgeEnds \/ SavesCover
    BY <1>0, <2>2
       DEF DeleteBook, RemoveFiles, ReadsBook, Purge, PurgeLists, PurgeDeletes, PurgeEnds, SavesCover,
           BookRecords, Emptied, LibraryGone
  <2> QED
    BY <1>1, <2>1, <2>2 DEF Request
<1>2. ASSUME NEW j \in Jobs, Refresh(j) PROVE Emptied'
  <2>1. UNCHANGED books
    BY <1>2 DEF Refresh, RefreshGets, Gets, Stores, ListsGuids, StoresGuids, SavesCheck, Upserts,
                EnqueuesDownload
  <2> QED
    BY <2>1 DEF Emptied, LibraryGone
<1>3. ASSUME NEW j \in Jobs, Download(j) PROVE Emptied'
  <2>1. CASE Saves(j) \/ Creates(j) \/ CreateFails(j)
    BY <1>0, <2>1 DEF Saves, Creates, CreateFails, BookRecords, Emptied, LibraryGone
  <2>2. CASE ~(Saves(j) \/ Creates(j) \/ CreateFails(j))
    <3>1. UNCHANGED books
      BY <1>3, <2>2 DEF Download, DownloadGets, Gets, Stores, GetsEpisode, StoresEpisode, Marks, MarkFails
    <3> QED
      BY <3>1 DEF Emptied, LibraryGone
  <2> QED
    BY <2>1, <2>2
<1>4. CASE Crash
  BY <1>0, <1>4 DEF Crash, BookRecords, Emptied, LibraryGone
<1>5. CASE Evict \/ (\E j \in Jobs : Start(j) \/ Fails(j)) \/ UNCHANGED vars
  <2>1. UNCHANGED books
    BY <1>5 DEF Evict, Start, Fails, vars
  <2> QED
    BY <2>1 DEF Emptied, LibraryGone
<1> QED
  BY <1>1, <1>2, <1>3, <1>4, <1>5 DEF Next

\* Every step keeps the copies in order, or is the end of the library.
LEMMA NextKeepsCopies ==
  ASSUME Inv, BookInv, CopyInv, [Next]_vars
  PROVE  CopyInv' \/ Emptied'
<1>1. CASE Evict \/ UNCHANGED vars
  <2>1. UNCHANGED <<books, why, unmarked, job, episode, podcast>>
    BY <1>1 DEF Evict, vars, rows, history
  <2>2. \A g \in Guids : episodeC'[g] \in {None, episodeC[g]}
    BY <1>1 DEF Evict, vars, caches, Inv, EpisodeShapes
  <2> QED
    BY <2>1, <2>2, SameMoves, QuietCopies
<1> QED
  BY <1>1, RequestKeepsCopies, StartKeepsCopies, RefreshKeepsCopies, DownloadKeepsCopies,
     FailsKeepCopies, CrashKeepsCopies DEF Next

\* There is no copy at first.
LEMMA InitCopies == Init => CopyInv
<1> SUFFICES ASSUME Init PROVE CopyInv
  OBVIOUS
<1>1. \A j \in Jobs : job[j].kind = "free" /\ job[j].pc = "idle"
  BY DEF Init, Free, Fresh
<1>2. books.rows = {} /\ 1..books.used = {}
  BY DEF Init
<1>3. \A g \in Guids : episode[g] = None /\ episodeC[g] = None
  BY DEF Init
<1>4. SureOK /\ OverlapOK /\ BooksOfOK /\ LaterOK
  BY <1>1, <1>2 DEF SureOK, Sure, OverlapOK, BooksOfOK, LaterOK, Running
<1>5. TableOK /\ AnswersOK /\ MarksOK /\ SecondCopyExplained
  BY <1>1, <1>2, <1>3 DEF TableOK, About, AnswersOK, MarksOK, SecondCopyExplained
<1> QED
  BY <1>4, <1>5 DEF CopyInv

\* An episode is on the shelf twice only if two downloads of it ran at the same time, the
\* first book could not be marked or lost its mark to another copy, or a cached answer was
\* stored after the marking: whatever is deleted, retried or crashes
\* (podcastService.go:483-577, podcastRepository.go:327-339).
THEOREM SecondCopyHasReason == Spec => []SecondCopyExplained
<1>1. CopyInv \/ Emptied => SecondCopyExplained
  BY DEF CopyInv, Emptied, SecondCopyExplained
<1>2. Inv /\ BookInv /\ (CopyInv \/ Emptied) /\ [Next]_vars => CopyInv' \/ Emptied'
  BY NextKeepsCopies, EmptyStays
<1> QED
  BY <1>1, <1>2, InitCopies, InvHolds, BooksHold, PTL DEF Spec
=============================================================================
