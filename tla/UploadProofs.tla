---------------------------- MODULE UploadProofs ----------------------------
(***************************************************************************)
(* What holds of Uploads for every value of its constants.                 *)
(***************************************************************************)
EXTENDS Uploads, FiniteSetTheorems, FunctionTheorems, TLAPS

\* Where a request works on a session whose mutex it holds, where it removes one, and
\* where it sets a new one up.
Working == {"chunk", "copy", "mark", "check", "merge", "fill", "import", "remove", "unmark"}
Removal == {"clear expired", "clear done"}
Creation == {"cleanup", "clear old", "mkdir", "manifest", "clear new"}
Commits == {"check", "merge", "fill", "import", "unmark"}

\* The shapes of the variables; what bounds the count comes from the slots.
Shapes ==
  /\ dir \subseteq Uploads /\ file \in [Uploads -> [Names -> Contents]]
  /\ session \in [Uploads -> SessionStates]
  /\ bytes \in [Uploads -> 0..TotalBytes] /\ chunks \in [Uploads -> 0..Cardinality(Chunks)]
  /\ count \in Nat
  /\ lock \in [Uploads -> Requests \cup {Nobody}]
  /\ pc \in [Requests -> PCs] /\ sub \in [Requests -> Uploads \cup {Nobody}]
  /\ idx \in [Requests -> Chunks \cup {Nobody}]
  /\ todo \in [Requests -> SUBSET Uploads]
  /\ phase \in {"boot", "up"} /\ unread \subseteq Uploads /\ victim \in Uploads \cup {Nobody}
  /\ expired \subseteq Uploads /\ used \subseteq Uploads
  /\ incidents \in 0..MaxIncidents
  /\ imports \in [Uploads -> Nat]
  /\ damaged \subseteq Uploads /\ swept \subseteq Uploads /\ kept \subseteq Uploads
  /\ refused \subseteq Uploads

\* A new upload: nobody else is about it, and there is nothing to it.
NewOK(r) ==
  /\ session[sub[r]] = "none" /\ imports[sub[r]] = 0
  /\ \A n \in Chunks : file[sub[r]][n] = "none"
  /\ \A q \in Requests : sub[q] = sub[r] => q = r

\* What a request holds and knows, by where it stands.
PlaceOK(r) ==
  /\ IF pc[r] = "idle" THEN sub[r] = Nobody ELSE sub[r] \in used
  /\ pc[r] \in {"lock chunk", "chunk", "copy"} => idx[r] \in Chunks
  /\ pc[r] \in Working => lock[sub[r]] = r /\ session[sub[r]] = "live"
  /\ pc[r] \in Removal => lock[sub[r]] = r /\ session[sub[r]] = "removed"
  /\ pc[r] = "clear old" => \E u \in Uploads : lock[u] = r /\ session[u] = "removed"
  /\ pc[r] \in Creation => NewOK(r)
  /\ pc[r] = "copy" => Room(sub[r])
  /\ pc[r] = "copy" /\ sub[r] \notin swept => file[sub[r]][idx[r]] # "none"
  /\ pc[r] \in Commits \cup {"remove"} /\ sub[r] \notin swept =>
       file[sub[r]][".committing"] # "none"
  /\ pc[r] \in {"merge", "fill"} => \A i \in Chunks : file[sub[r]][i] \in {"none", "whole"}
  /\ pc[r] = "fill" => file[sub[r]]["merged_file"] \in {"none", "cut"}
  /\ pc[r] = "import" => file[sub[r]]["merged_file"] \in {"none", "whole"}

PlacesOK == \A r \in Requests : PlaceOK(r)

\* A mutex is held by one request, for the session it is about or has found expired.
LocksOK ==
  \A u \in Uploads : lock[u] # Nobody =>
    /\ session[u] # "none"
    /\ \/ pc[lock[u]] = "clear old"
       \/ pc[lock[u]] \in Working \cup Removal /\ sub[lock[u]] = u
    /\ \A v \in Uploads : lock[v] = lock[u] => v = u

\* Nothing is known of an upload that does not exist yet; before recovery has read its
\* directory, a session does not.
FreshOK ==
  /\ \A u \in Uploads : session[u] = "none" => bytes[u] = 0 /\ chunks[u] = 0
  /\ \A u \in Uploads \ used :
       /\ session[u] = "none" /\ imports[u] = 0 /\ u \notin dir
       /\ \A n \in Names : file[u][n] = "none"

BootOK ==
  /\ phase = "boot" => victim = Nobody /\ \A r \in Requests : pc[r] = "idle"
  /\ phase = "up" => unread = {}
  /\ unread \subseteq used /\ \A u \in unread : session[u] = "none"

\* The uploads that count: the sessions, and those being set up.
Counted == Live \cup {sub[r] : r \in SettingUp}

SlotsOK == count = Cardinality(Counted)

RoomOK == Cardinality((Counted \cup unread) \ kept) <= Limit

\* What request r is deleting.
Removes(r, u) ==
  \/ pc[r] \in Removal \cup {"clear new"} /\ sub[r] = u
  \/ pc[r] = "clear old" /\ lock[u] = r

DirsOK ==
  \A u \in dir \ kept :
    \/ u \in Live \cup unread
    \/ \E r \in Requests : Removes(r, u)
    \/ \E r \in Requests : pc[r] = "manifest" /\ sub[r] = u

\* The chunks of u that are being written.
Writing(u) == {idx[r] : r \in {q \in Requests : pc[q] = "copy" /\ sub[q] = u}}

\* A session has counted what its directory holds but for those.
Tally(u) ==
  /\ chunks[u] = Cardinality(ChunkFiles(u) \ Writing(u))
  /\ bytes[u] = Cardinality(Stored(u, "cut") \ Writing(u))
                + 2 * Cardinality(Stored(u, "whole") \ Writing(u))

TalliesOK == \A u \in Live \ (swept \cup kept) : Tally(u)

VictimOK == victim # Nobody => victim \in swept

\* An upload that has become a book is not committed again.
Once(u) ==
  imports[u] > 0 =>
    /\ imports[u] = 1
    /\ u \notin dir \/ file[u][".committing"] # "none"
    /\ \A r \in Requests : sub[r] = u => pc[r] \notin Commits

OnceOK == \A u \in Uploads \ (kept \cup swept \cup refused) : Once(u)

\* The inductive invariant.
Inv ==
  /\ Shapes /\ PlacesOK /\ LocksOK /\ FreshOK /\ BootOK /\ SlotsOK /\ RoomOK /\ DirsOK
  /\ TalliesOK /\ VictimOK /\ OnceOK /\ ImportsAreIntact

-----------------------------------------------------------------------------
(* A step of a request r changes what belongs to r and to one upload t     *)
(* that no other request is about (t is Nobody if it changes none).        *)

Setup == {"mkdir", "manifest", "clear new"}
About == Setup \cup Commits \cup {"copy"}

Alone(r, t) ==
  /\ \A q \in Requests \ {r} :
       /\ pc[q] \in Working \cup Removal \cup Creation => sub[q] # t
       /\ t \in Uploads => lock[t] # q
  /\ \A u \in Uploads \ {t} : lock[u] # r
  /\ pc[r] \in About => sub[r] = t

Moves(r, t) ==
  /\ \A q \in Requests \ {r} : pc'[q] = pc[q] /\ sub'[q] = sub[q] /\ idx'[q] = idx[q]
  /\ \A u \in Uploads \ {t} :
       /\ session'[u] = session[u] /\ lock'[u] = lock[u] /\ file'[u] = file[u]
       /\ bytes'[u] = bytes[u] /\ chunks'[u] = chunks[u] /\ imports'[u] = imports[u]
  /\ dir' \subseteq dir \cup {t}
  /\ kept \subseteq kept' /\ refused \subseteq refused' /\ used \subseteq used'
  /\ sub'[r] \in {sub[r], Nobody} \cup Live \cup (Uploads \ used)
  /\ pc'[r] \in About => sub'[r] = t
  /\ UNCHANGED <<phase, unread, victim, swept>>

\* Whether t counts, as far as r is concerned.
Counts(r, t) == t \in Live \/ pc[r] \in Setup

-----------------------------------------------------------------------------
(* Facts about the states of the invariant.                                *)

\* A set of uploads or of chunks is finite, and no larger than all of them.
LEMMA Sizes ==
  /\ Cardinality(Chunks) \in Nat /\ TotalBytes \in Nat
  /\ \A X \in SUBSET Chunks : IsFiniteSet(X) /\ Cardinality(X) \in 0..Cardinality(Chunks)
  /\ \A U \in SUBSET Uploads : IsFiniteSet(U) /\ Cardinality(U) \in 0..Cardinality(Uploads)
  /\ Cardinality(Uploads) \in Nat
<1>1. Cardinality(Chunks) \in Nat /\ Cardinality(Uploads) \in Nat
  BY FS_CardinalityType, SetsAssumption
<1>2. ASSUME NEW X \in SUBSET Chunks
      PROVE  IsFiniteSet(X) /\ Cardinality(X) \in 0..Cardinality(Chunks)
  <2>1. IsFiniteSet(X) /\ Cardinality(X) <= Cardinality(Chunks)
    BY FS_Subset, SetsAssumption
  <2> QED BY <2>1, <1>1, FS_CardinalityType
<1>3. ASSUME NEW U \in SUBSET Uploads
      PROVE  IsFiniteSet(U) /\ Cardinality(U) \in 0..Cardinality(Uploads)
  <2>1. IsFiniteSet(U) /\ Cardinality(U) <= Cardinality(Uploads)
    BY FS_Subset, SetsAssumption
  <2> QED BY <2>1, <1>1, FS_CardinalityType
<1> QED BY <1>1, <1>2, <1>3 DEF TotalBytes

\* The model value that stands for nothing is not one of the others.
LEMMA Distinct == Nobody \notin Requests /\ Nobody \notin Uploads /\ Nobody \notin Chunks
BY SetsAssumption

\* Who holds the mutex of u.
LEMMA Held ==
  ASSUME Inv, NEW u \in Uploads, NEW r \in Requests, lock[u] = r
  PROVE  /\ session[u] # "none"
         /\ \/ pc[r] = "clear old"
            \/ pc[r] \in Working \cup Removal /\ sub[r] = u
         /\ \A v \in Uploads : lock[v] = r => v = u
<1>1. LocksOK /\ r # Nobody
  BY Distinct DEF Inv
<1> QED BY <1>1 DEF LocksOK

\* What is known of a request and the upload it is about.
LEMMA Place ==
  ASSUME Inv, NEW r \in Requests
  PROVE  /\ PlaceOK(r)
         /\ pc[r] # "idle" => sub[r] \in Uploads /\ sub[r] \in used /\ phase = "up"
         /\ pc[r] \in Working => lock[sub[r]] = r /\ session[sub[r]] = "live"
         /\ pc[r] \in Removal => lock[sub[r]] = r /\ session[sub[r]] = "removed"
         /\ pc[r] \in Creation => session[sub[r]] = "none" /\ NewOK(r)
<1>1. PlacesOK /\ used \subseteq Uploads /\ BootOK /\ phase \in {"boot", "up"}
  BY DEF Inv, Shapes
<1>2. PlaceOK(r)
  BY <1>1 DEF PlacesOK
<1>3. pc[r] # "idle" => sub[r] \in Uploads /\ sub[r] \in used /\ phase = "up"
  BY <1>1, <1>2 DEF PlaceOK, BootOK
<1>4. pc[r] \in Working => lock[sub[r]] = r /\ session[sub[r]] = "live"
  BY <1>2 DEF PlaceOK
<1>5. pc[r] \in Removal => lock[sub[r]] = r /\ session[sub[r]] = "removed"
  BY <1>2 DEF PlaceOK
<1>6. pc[r] \in Creation => session[sub[r]] = "none" /\ NewOK(r)
  BY <1>2 DEF PlaceOK, NewOK
<1> QED BY <1>2, <1>3, <1>4, <1>5, <1>6

\* A session that is open has an upload that exists, and a lock is one of a request.
LEMMA Known ==
  ASSUME Inv, NEW u \in Uploads
  PROVE  /\ session[u] # "none" => u \in used
         /\ lock[u] \in Requests \cup {Nobody}
         /\ pc \in [Requests -> PCs]
         /\ lock[u] # Nobody => phase = "up"
<1>1. FreshOK /\ Shapes
  BY DEF Inv
<1>2. lock[u] \in Requests \cup {Nobody} /\ pc \in [Requests -> PCs]
  BY <1>1 DEF Shapes
<1>3. session[u] # "none" => u \in used
  BY <1>1 DEF FreshOK
<1>4. CASE lock[u] # Nobody
  <2> PICK r \in Requests : lock[u] = r
    BY <1>2, <1>4
  <2>1. pc[r] # "idle"
    BY Held DEF Working, Removal
  <2> QED BY <2>1, <1>2, <1>3, Place
<1> QED BY <1>2, <1>3, <1>4

\* A request that is at work is at work on its own.
LEMMA AtWork ==
  ASSUME Inv, NEW r \in Requests, NEW t \in Uploads, t = sub[r],
         pc[r] \in Working \cup Removal
  PROVE  lock[t] = r /\ Alone(r, t) /\ session[t] # "none" /\ t \in used /\ phase = "up"
<1>0. pc[r] # "idle"
  BY DEF Working, Removal
<1>1. lock[t] = r /\ session[t] # "none" /\ t \in used /\ phase = "up"
  BY <1>0, Place
<1>2. ASSUME NEW q \in Requests \ {r}
      PROVE  pc[q] \in Working \cup Removal \cup Creation => sub[q] # t
  BY <1>1, Place
<1>3. \A u \in Uploads \ {t} : lock[u] # r
  BY <1>1, Held
<1> QED BY <1>1, <1>2, <1>3 DEF Alone

\* The upload that a request sets up is no other request's.
LEMMA SettingUpAlone ==
  ASSUME Inv, NEW r \in Requests, NEW t \in Uploads, t = sub[r],
         pc[r] \in Creation \ {"clear old"}
  PROVE  lock[t] = Nobody /\ Alone(r, t) /\ t \in used /\ phase = "up" /\ session[t] = "none"
<1>0. pc[r] # "idle" /\ pc[r] \in Creation /\ pc[r] \notin Working \cup Removal \cup {"clear old"}
  BY DEF Creation, Working, Removal
<1>1. session[t] = "none" /\ t \in used /\ phase = "up" /\ NewOK(r)
  BY <1>0, Place
<1>2. lock[t] = Nobody
  BY <1>1, Known, Held
<1>3. ASSUME NEW q \in Requests \ {r}
      PROVE  pc[q] \in Working \cup Removal \cup Creation => sub[q] # t
  BY <1>1 DEF NewOK
<1>4. \A u \in Uploads \ {t} : lock[u] # r
  BY <1>0, Held
<1> QED BY <1>1, <1>2, <1>3, <1>4, Distinct DEF Alone

\* An expired session that a request has found.
LEMMA FoundAlone ==
  ASSUME Inv, NEW r \in Requests, NEW t \in Uploads,
         pc[r] = "clear old", lock[t] = r
  PROVE  Alone(r, t) /\ session[t] = "removed" /\ t \in used /\ phase = "up" /\ sub[r] # t
<1>1. pc[r] \in Creation /\ pc[r] \notin About
  BY DEF Creation, About, Setup, Commits
<1>2. session[t] = "removed" /\ t \in used /\ phase = "up" /\ sub[r] # t
  <2>1. \E u \in Uploads : lock[u] = r /\ session[u] = "removed"
    BY Place DEF PlaceOK
  <2>2. session[t] = "removed"
    BY <2>1, Held
  <2>3. session[sub[r]] = "none" /\ phase = "up"
    BY <1>1, Place
  <2> QED BY <2>2, <2>3, Known
<1>3. ASSUME NEW q \in Requests \ {r}
      PROVE  pc[q] \in Working \cup Removal \cup Creation => sub[q] # t
  BY <1>2, Place
<1>4. \A u \in Uploads \ {t} : lock[u] # r
  BY Held
<1> QED BY <1>1, <1>2, <1>3, <1>4 DEF Alone

\* A session whose mutex is free, for a request that holds none.
LEMMA FreeAlone ==
  ASSUME Inv, NEW r \in Requests, NEW t \in Uploads,
         pc[r] \in {"cleanup", "lock chunk", "lock commit"},
         lock[t] = Nobody, session[t] # "none"
  PROVE  Alone(r, t) /\ t \in used /\ phase = "up"
<1>0. pc[r] # "idle" /\ pc[r] \notin Working \cup Removal \cup {"clear old"} \cup About
  BY DEF Creation, Working, Removal, About, Setup, Commits
<1>1. t \in used /\ phase = "up"
  BY <1>0, Known, Place
<1>2. ASSUME NEW q \in Requests \ {r}
      PROVE  pc[q] \in Working \cup Removal \cup Creation => sub[q] # t
  BY Place, Distinct
<1>3. \A u \in Uploads \ {t} : lock[u] # r
  BY <1>0, Held
<1> QED BY <1>0, <1>1, <1>2, <1>3, Distinct DEF Alone

\* A step about no upload is trivially on its own.
LEMMA NobodyAlone ==
  ASSUME Inv, NEW r \in Requests,
         pc[r] \in {"idle", "cleanup", "lock chunk", "lock commit"}
  PROVE  Alone(r, Nobody)
<1>0. pc[r] \notin Working \cup Removal \cup {"clear old"} \cup About
  BY DEF Creation, Working, Removal, About, Setup, Commits
<1>2. ASSUME NEW q \in Requests \ {r}
      PROVE  pc[q] \in Working \cup Removal \cup Creation => sub[q] # Nobody
  <2>1. pc[q] \in Working \cup Removal \cup Creation => pc[q] # "idle"
    BY DEF Creation, Working, Removal
  <2> QED BY <2>1, Place, Distinct
<1>3. \A u \in Uploads : lock[u] # r
  BY <1>0, Held
<1> QED BY <1>0, <1>2, <1>3, Distinct DEF Alone

-----------------------------------------------------------------------------
(* What such a step has to establish for r and t; the rest keeps.          *)

\* The lock of t is r's or nobody's after the step.
LockAt(r, t) ==
  lock[t] # Nobody =>
    /\ lock[t] = r /\ session[t] # "none"
    /\ \/ pc[r] = "clear old"
       \/ pc[r] \in Working \cup Removal /\ sub[r] = t

OwnedAt(r, t) ==
  t \in dir \ kept =>
    \/ t \in Live \/ Removes(r, t)
    \/ pc[r] = "manifest" /\ sub[r] = t

UploadOK(r, t) ==
  /\ LockAt(r, t) /\ OwnedAt(r, t)
  /\ session[t] = "none" => bytes[t] = 0 /\ chunks[t] = 0
  /\ t \in Live \ (swept \cup kept) => Tally(t)
  /\ t \notin kept \cup swept \cup refused => Once(t)

\* A step of r for t leaves every other request in its place.
LEMMA OthersPlaces ==
  ASSUME Inv, NEW r \in Requests, NEW t \in Uploads \cup {Nobody}, Alone(r, t), Moves(r, t),
         NEW q \in Requests \ {r}
  PROVE  PlaceOK(q)'
<1> DEFINE s == sub[q]
<1>1. /\ pc'[q] = pc[q] /\ sub'[q] = s /\ idx'[q] = idx[q]
      /\ used \subseteq used' /\ swept' = swept
  BY DEF Moves
<1>2. /\ PlaceOK(q)
      /\ pc[q] # "idle" => s \in Uploads
      /\ pc[q] \in Creation => session[s] = "none" /\ NewOK(q)
  BY Place
<1>3. pc[q] \in Working \cup Removal \cup Creation =>
        /\ session'[s] = session[s] /\ lock'[s] = lock[s] /\ file'[s] = file[s]
        /\ bytes'[s] = bytes[s] /\ chunks'[s] = chunks[s] /\ imports'[s] = imports[s]
  <2>1. pc[q] \in Working \cup Removal \cup Creation => pc[q] # "idle" /\ s # t
    BY DEF Alone, Working, Removal, Creation
  <2> QED BY <2>1, <1>2 DEF Moves
<1> HIDE DEF s
<1>4. IF pc'[q] = "idle" THEN sub'[q] = Nobody ELSE sub'[q] \in used'
  BY <1>1, <1>2 DEF PlaceOK, s
<1>5. pc'[q] \in {"lock chunk", "chunk", "copy"} => idx'[q] \in Chunks
  BY <1>1, <1>2 DEF PlaceOK
<1>6. pc'[q] \in Working => lock'[sub'[q]] = q /\ session'[sub'[q]] = "live"
  BY <1>1, <1>2, <1>3 DEF PlaceOK, s
<1>7. pc'[q] \in Removal => lock'[sub'[q]] = q /\ session'[sub'[q]] = "removed"
  BY <1>1, <1>2, <1>3 DEF PlaceOK, s
<1>8. pc'[q] = "clear old" => \E u \in Uploads : lock'[u] = q /\ session'[u] = "removed"
  <2> SUFFICES ASSUME pc[q] = "clear old"
               PROVE  \E u \in Uploads : lock'[u] = q /\ session'[u] = "removed"
    BY <1>1
  <2> PICK u \in Uploads : lock[u] = q /\ session[u] = "removed"
    BY <1>2 DEF PlaceOK
  <2>1. u # t
    BY DEF Alone
  <2> QED BY <2>1 DEF Moves
<1>9. pc'[q] \in Creation => NewOK(q)'
  <2> SUFFICES ASSUME pc[q] \in Creation PROVE NewOK(q)'
    BY <1>1
  <2>1. /\ session'[s] = "none" /\ imports'[s] = 0
        /\ \A n \in Chunks : file'[s][n] = "none"
    BY <1>2, <1>3 DEF NewOK, s
  <2>2. ASSUME NEW p \in Requests, sub'[p] = s PROVE p = q
    <3>1. CASE p # r
      BY <2>2, <3>1, <1>2 DEF Moves, NewOK, s
    <3>2. CASE p = r
      <4>1. s \in used /\ s \in Uploads /\ s # Nobody /\ s \notin Live
        <5>1. pc[q] # "idle"
          BY DEF Creation
        <5> QED BY <5>1, <1>2, Distinct, Place DEF Live, s
      <4>2. s = sub[r]
        BY <2>2, <3>2, <4>1 DEF Moves
      <4> QED BY <4>2, <3>2, <1>2 DEF NewOK, s
    <3> QED BY <3>1, <3>2
  <2> QED BY <2>1, <2>2, <1>1 DEF NewOK
<1>10. pc'[q] = "copy" => Room(sub[q])'
  BY <1>1, <1>2, <1>3 DEF PlaceOK, Room, s, Working, TotalBytes
<1>11. pc'[q] = "copy" /\ sub'[q] \notin swept' => file'[sub'[q]][idx'[q]] # "none"
  BY <1>1, <1>2, <1>3 DEF PlaceOK, s, Working
<1>12. pc'[q] \in Commits \cup {"remove"} /\ sub'[q] \notin swept' =>
         file'[sub'[q]][".committing"] # "none"
  BY <1>1, <1>2, <1>3 DEF PlaceOK, s, Working, Commits
<1>13. pc'[q] \in {"merge", "fill"} => \A i \in Chunks : file'[sub'[q]][i] \in {"none", "whole"}
  BY <1>1, <1>2, <1>3 DEF PlaceOK, s, Working
<1>14. /\ pc'[q] = "fill" => file'[sub'[q]]["merged_file"] \in {"none", "cut"}
       /\ pc'[q] = "import" => file'[sub'[q]]["merged_file"] \in {"none", "whole"}
  BY <1>1, <1>2, <1>3 DEF PlaceOK, s, Working
<1> QED BY <1>1, <1>4, <1>5, <1>6, <1>7, <1>8, <1>9, <1>10, <1>11, <1>12, <1>13, <1>14
        DEF PlaceOK, s

\* The mutexes of the other uploads are as they were.
LEMMA OthersLocks ==
  ASSUME Inv, NEW r \in Requests, NEW t \in Uploads \cup {Nobody}, Alone(r, t), Moves(r, t),
         t \in Uploads => LockAt(r, t)'
  PROVE  LocksOK'
<1> SUFFICES ASSUME NEW u \in Uploads, lock'[u] # Nobody
             PROVE  /\ session'[u] # "none"
                    /\ \/ pc'[lock'[u]] = "clear old"
                       \/ pc'[lock'[u]] \in Working \cup Removal /\ sub'[lock'[u]] = u
                    /\ \A v \in Uploads : lock'[v] = lock'[u] => v = u
  BY DEF LocksOK
<1>1. \A v \in Uploads \ {t} : lock'[v] = lock[v] /\ session'[v] = session[v] /\ lock[v] # r
  BY DEF Moves, Alone
<1>2. CASE u = t
  <2>1. LockAt(r, t)'
    BY <1>2
  <2> QED BY <1>1, <1>2, <2>1 DEF LockAt
<1>3. CASE u # t
  <2> PICK q \in Requests : lock[u] = q
    BY <1>1, <1>3, Known
  <2>1. q # r /\ lock'[u] = q /\ session'[u] # "none"
    BY <1>1, <1>3, Held
  <2>2. pc'[q] = pc[q] /\ sub'[q] = sub[q]
    BY <2>1 DEF Moves
  <2>3. \A v \in Uploads : lock'[v] = q => v = u
    <3>0. \A v \in Uploads : lock[v] = q => v = u
      BY Held
    <3> SUFFICES ASSUME NEW v \in Uploads, lock'[v] = q PROVE v = u
      OBVIOUS
    <3>1. v # t
      BY <2>1, Distinct DEF LockAt
    <3>2. lock'[v] = lock[v]
      BY <3>1, <1>1
    <3>3. lock[v] = q
      BY <3>2
    <3> QED BY <3>0, <3>3
  <2> QED BY <2>1, <2>2, <2>3, Held
<1> QED BY <1>2, <1>3

\* An upload that does not exist yet has left no trace.
LEMMA OthersFresh ==
  ASSUME Inv, NEW r \in Requests, NEW t \in Uploads \cup {Nobody}, Moves(r, t),
         t \in Uploads =>
           t \in used /\ (session'[t] = "none" => bytes'[t] = 0 /\ chunks'[t] = 0)
  PROVE  FreshOK'
<1>1. FreshOK
  BY DEF Inv
<1>2. \A u \in Uploads \ {t} :
        /\ session'[u] = session[u] /\ file'[u] = file[u]
        /\ bytes'[u] = bytes[u] /\ chunks'[u] = chunks[u] /\ imports'[u] = imports[u]
  BY DEF Moves
<1>3. \A u \in Uploads : session'[u] = "none" => bytes'[u] = 0 /\ chunks'[u] = 0
  BY <1>1, <1>2 DEF FreshOK
<1>4. ASSUME NEW u \in Uploads \ used'
      PROVE  /\ session'[u] = "none" /\ imports'[u] = 0 /\ u \notin dir'
             /\ \A n \in Names : file'[u][n] = "none"
  <2>1. u # t /\ u \in Uploads \ used /\ (u \in dir' => u \in dir)
    BY DEF Moves
  <2> QED BY <2>1, <1>1, <1>2 DEF FreshOK
<1> QED BY <1>3, <1>4 DEF FreshOK

\* The directories of the other uploads keep their owners.
LEMMA OthersDirs ==
  ASSUME Inv, NEW r \in Requests, NEW t \in Uploads \cup {Nobody}, Alone(r, t), Moves(r, t),
         t \in Uploads => OwnedAt(r, t)', dir' \subseteq Uploads
  PROVE  DirsOK'
<1> SUFFICES ASSUME NEW u \in dir' \ kept'
             PROVE  \/ u \in Live' \cup unread'
                    \/ \E q \in Requests : Removes(q, u)'
                    \/ \E q \in Requests : pc'[q] = "manifest" /\ sub'[q] = u
  BY DEF DirsOK
<1>1. CASE u = t
  BY <1>1 DEF OwnedAt
<1>2. CASE u # t
  <2>1. /\ session'[u] = session[u] /\ lock'[u] = lock[u] /\ unread' = unread
        /\ u \in dir \ kept
    BY <1>2 DEF Moves
  <2>2. \/ u \in Live \cup unread
        \/ \E q \in Requests : Removes(q, u)
        \/ \E q \in Requests : pc[q] = "manifest" /\ sub[q] = u
    BY <2>1 DEF Inv, DirsOK
  <2>3. CASE u \in Live \cup unread
    BY <2>1, <2>3 DEF Live
  <2>4. ASSUME NEW q \in Requests, Removes(q, u) PROVE Removes(q, u)'
    <3>1. q # r
      <4>1. lock[u] # r /\ (pc[r] \in About => sub[r] # u)
        BY <1>2 DEF Alone
      <4>2. pc[r] \in Removal => sub[r] # u
        BY <4>1, Place
      <4> QED BY <2>4, <4>1, <4>2 DEF Removes, About, Setup
    <3> QED BY <3>1, <2>1, <2>4 DEF Removes, Moves
  <2>5. ASSUME NEW q \in Requests, pc[q] = "manifest", sub[q] = u
        PROVE  pc'[q] = "manifest" /\ sub'[q] = u
    <3>1. q # r
      BY <1>2, <2>5 DEF Alone, About, Setup
    <3> QED BY <3>1, <2>5 DEF Moves
  <2> QED BY <2>2, <2>3, <2>4, <2>5
<1> QED BY <1>1, <1>2

\* The tallies of the other uploads still agree with the disk.
LEMMA OthersTallies ==
  ASSUME Inv, NEW r \in Requests, NEW t \in Uploads \cup {Nobody}, Alone(r, t), Moves(r, t),
         t \in Uploads => (t \in Live' \ (swept' \cup kept') => Tally(t)')
  PROVE  TalliesOK'
<1> SUFFICES ASSUME NEW u \in Live' \ (swept' \cup kept') PROVE Tally(u)'
  BY DEF TalliesOK
<1>1. u \in Uploads
  BY DEF Live
<1>2. CASE u = t
  BY <1>1, <1>2
<1>3. CASE u # t
  <2>1. /\ session'[u] = session[u] /\ bytes'[u] = bytes[u] /\ chunks'[u] = chunks[u]
        /\ file'[u] = file[u] /\ u \notin swept \cup kept
    BY <1>1, <1>3 DEF Moves
  <2>2. Tally(u)
    BY <2>1, <1>1 DEF Inv, TalliesOK, Live
  <2>3. Writing(u)' = Writing(u)
    <3>1. \A q \in Requests : (pc'[q] = "copy" /\ sub'[q] = u <=> pc[q] = "copy" /\ sub[q] = u)
                              /\ (q # r => idx'[q] = idx[q])
      BY <1>3 DEF Moves, Alone, About
    <3>2. ~(pc[r] = "copy" /\ sub[r] = u)
      BY <1>3 DEF Alone, About
    <3> QED BY <3>1, <3>2 DEF Writing
  <2>4. /\ Stored(u, "cut")' = Stored(u, "cut") /\ Stored(u, "whole")' = Stored(u, "whole")
        /\ ChunkFiles(u)' = ChunkFiles(u)
    BY <2>1 DEF Stored, ChunkFiles
  <2> QED BY <2>1, <2>2, <2>3, <2>4 DEF Tally
<1> QED BY <1>2, <1>3

\* The other uploads are still imported at most once.
LEMMA OthersOnce ==
  ASSUME Inv, NEW r \in Requests, NEW t \in Uploads \cup {Nobody}, Alone(r, t), Moves(r, t),
         t \in Uploads => (t \notin kept' \cup swept' \cup refused' => Once(t)')
  PROVE  OnceOK'
<1> SUFFICES ASSUME NEW u \in Uploads \ (kept' \cup swept' \cup refused') PROVE Once(u)'
  BY DEF OnceOK
<1>1. CASE u = t
  BY <1>1
<1>2. CASE u # t
  <2>1. /\ file'[u] = file[u] /\ imports'[u] = imports[u] /\ (u \in dir' => u \in dir)
        /\ u \notin kept \cup swept \cup refused
    BY <1>2 DEF Moves
  <2>2. Once(u)
    BY <2>1 DEF Inv, OnceOK
  <2>3. \A q \in Requests : sub'[q] = u /\ pc'[q] \in Commits => sub[q] = u /\ pc[q] \in Commits
    BY <1>2 DEF Moves, About
  <2> QED BY <2>1, <2>2, <2>3 DEF Once
<1> QED BY <1>1, <1>2

\* The uploads that count are those of Uploads that are open or being set up.
LEMMA CountedIs ==
  ASSUME Inv
  PROVE  /\ Counted \in SUBSET Uploads
         /\ \A u : u \in Counted <=> u \in Live \/ \E q \in Requests : pc[q] \in Setup /\ sub[q] = u
<1>1. \A q \in Requests : pc[q] \in Setup => sub[q] \in Uploads
  BY Place DEF Setup
<1>2. \A u : u \in Counted <=> u \in Live \/ \E q \in Requests : pc[q] \in Setup /\ sub[q] = u
  BY DEF Counted, SettingUp, Setup
<1> QED BY <1>1, <1>2 DEF Live

\* The count of slots follows what happens to t.
LEMMA OthersSlots ==
  ASSUME Inv, NEW r \in Requests, NEW t \in Uploads \cup {Nobody}, Alone(r, t), Moves(r, t),
         phase = "up", Shapes', PlaceOK(r)',
         \/ (Counts(r, t)' <=> Counts(r, t)) /\ count' = count
         \/ Counts(r, t) /\ ~Counts(r, t)' /\ count' = count - 1
         \/ ~Counts(r, t) /\ Counts(r, t)' /\ count' = count + 1 /\ count < Limit
  PROVE  SlotsOK' /\ RoomOK'
<1>1. \A q \in Requests \ {r} : pc'[q] = pc[q] /\ sub'[q] = sub[q]
  BY DEF Moves
<1>2. \A u \in Uploads \ {t} : u \in Live' <=> u \in Live
  BY DEF Moves, Live
<1>3. /\ pc[r] \in Setup => sub[r] = t
      /\ pc'[r] \in Setup => sub'[r] = t
  BY DEF Alone, Moves, About
<1>4. \A q \in Requests \ {r} : pc[q] \in Setup => sub[q] # t
  BY DEF Alone, Setup, Creation
<1>5. \A u : u \in Counted' <=>
               u \in Live' \/ \E q \in Requests : pc'[q] \in Setup /\ sub'[q] = u
  BY DEF Counted, SettingUp, Setup
<1>6. ASSUME NEW u, u # t PROVE u \in Counted' <=> u \in Counted
  <2>1. u \in Live' <=> u \in Live
    BY <1>2, <1>6 DEF Live
  <2>2. ASSUME NEW q \in Requests
        PROVE  pc'[q] \in Setup /\ sub'[q] = u <=> pc[q] \in Setup /\ sub[q] = u
    BY <1>1, <1>3, <1>6
  <2> QED BY <2>1, <2>2, <1>5, CountedIs
<1>7. (t \in Counted <=> Counts(r, t)) /\ (t \in Counted' <=> Counts(r, t)')
  <2>1. t \in Counted <=> Counts(r, t)
    BY <1>3, <1>4, CountedIs DEF Counts
  <2>2. t \in Counted' <=> Counts(r, t)'
    BY <1>1, <1>3, <1>4, <1>5 DEF Counts
  <2> QED BY <2>1, <2>2
<1>8. Counted \in SUBSET Uploads /\ Counted' \in SUBSET Uploads
  <2>1. Counted \in SUBSET Uploads
    BY CountedIs
  <2>2. t \in Counted' => t \in Uploads
    <3>1. Counts(r, t)' => t \in Live' \/ (pc'[r] # "idle" /\ sub'[r] = t)
      BY <1>3 DEF Counts, Setup
    <3>2. pc'[r] # "idle" => sub'[r] \in Uploads
      BY DEF PlaceOK, Shapes
    <3>3. Live' \subseteq Uploads
      BY DEF Live
    <3> QED BY <3>1, <3>2, <3>3, <1>7
  <2> QED BY <2>1, <2>2, <1>6
<1>9. /\ IsFiniteSet(Counted) /\ IsFiniteSet(Counted') /\ IsFiniteSet(Counted' \ kept')
      /\ IsFiniteSet(Counted \ kept)
      /\ Cardinality(Counted) \in Nat /\ Cardinality(Counted') \in Nat
      /\ Cardinality(Counted \ kept) \in Nat /\ Cardinality(Counted' \ kept') \in Nat
      /\ Limit \in Nat /\ count = Cardinality(Counted) /\ count \in Nat
  <2>1. Counted \ kept \in SUBSET Uploads /\ Counted' \ kept' \in SUBSET Uploads
    BY <1>8
  <2>2. Limit \in Nat /\ count = Cardinality(Counted) /\ count \in Nat
    BY BoundsAssumption DEF Inv, SlotsOK, Shapes
  <2> QED BY <2>1, <2>2, <1>8, Sizes
<1>10. unread = {} /\ unread' = {} /\ kept \subseteq kept'
  BY DEF Moves, Inv, BootOK
<1>11. Cardinality(Counted \ kept) <= Limit
  <2>1. (Counted \cup unread) \ kept = Counted \ kept
    BY <1>10
  <2> QED BY <2>1 DEF Inv, RoomOK
<1>12. RoomOK' <=> Cardinality(Counted' \ kept') <= Limit
  <2>1. (Counted' \cup unread') \ kept' = Counted' \ kept'
    BY <1>10
  <2> QED BY <2>1 DEF RoomOK
<1>13. Counted' \ kept' \subseteq Counted \ kept => RoomOK'
  <2> SUFFICES ASSUME Counted' \ kept' \in SUBSET (Counted \ kept) PROVE RoomOK'
    OBVIOUS
  <2>1. Cardinality(Counted' \ kept') <= Cardinality(Counted \ kept)
    BY <1>9, FS_Subset
  <2> QED BY <2>1, <1>9, <1>11, <1>12
<1>14. CASE (Counts(r, t)' <=> Counts(r, t)) /\ count' = count
  <2>1. Counted' = Counted
    BY <1>6, <1>7, <1>14
  <2>2. Counted' \ kept' \subseteq Counted \ kept
    BY <2>1, <1>10
  <2> QED BY <2>1, <2>2, <1>9, <1>13, <1>14 DEF SlotsOK
<1>15. CASE Counts(r, t) /\ ~Counts(r, t)' /\ count' = count - 1
  <2>1. Counted' = Counted \ {t} /\ t \in Counted
    BY <1>6, <1>7, <1>15
  <2>2. Cardinality(Counted') = Cardinality(Counted) - 1
    BY <2>1, <1>9, FS_RemoveElement
  <2>3. Counted' \ kept' \subseteq Counted \ kept
    BY <2>1, <1>10
  <2> QED BY <2>2, <2>3, <1>9, <1>13, <1>15 DEF SlotsOK
<1>16. CASE ~Counts(r, t) /\ Counts(r, t)' /\ count' = count + 1 /\ count < Limit
  <2>1. Counted' = Counted \cup {t} /\ t \notin Counted
    BY <1>6, <1>7, <1>16
  <2>2. Cardinality(Counted') = Cardinality(Counted) + 1
    BY <2>1, <1>9, FS_AddElement
  <2>3. Cardinality(Counted' \ kept') <= Cardinality(Counted')
    <3>1. Counted' \ kept' \in SUBSET Counted'
      OBVIOUS
    <3> QED BY <3>1, <1>9, FS_Subset
  <2>4. Cardinality(Counted' \ kept') <= Limit
    BY <2>2, <2>3, <1>9, <1>16
  <2> QED BY <2>2, <2>4, <1>9, <1>12, <1>16 DEF SlotsOK
<1> QED BY <1>14, <1>15, <1>16

\* What such a step has to establish, for r and t.
LEMMA Step ==
  ASSUME Inv, NEW r \in Requests, NEW t \in Uploads \cup {Nobody}, Alone(r, t), Moves(r, t),
         phase = "up", Shapes', PlaceOK(r)', damaged' = {},
         t \in Uploads => t \in used /\ UploadOK(r, t)',
         \/ (Counts(r, t)' <=> Counts(r, t)) /\ count' = count
         \/ Counts(r, t) /\ ~Counts(r, t)' /\ count' = count - 1
         \/ ~Counts(r, t) /\ Counts(r, t)' /\ count' = count + 1 /\ count < Limit
  PROVE  Inv'
<1>1. PlacesOK'
  BY OthersPlaces DEF PlacesOK
<1>2. LocksOK'
  BY OthersLocks DEF UploadOK
<1>3. FreshOK'
  BY OthersFresh DEF UploadOK
<1>4. BootOK'
  BY DEF Moves, Inv, BootOK
<1>5. SlotsOK' /\ RoomOK'
  BY OthersSlots
<1>6. DirsOK'
  BY OthersDirs DEF UploadOK, Shapes
<1>7. TalliesOK'
  BY OthersTallies DEF UploadOK
<1>8. OnceOK'
  BY OthersOnce DEF UploadOK
<1>9. VictimOK'
  BY DEF Moves, Inv, VictimOK
<1> QED BY <1>1, <1>2, <1>3, <1>4, <1>5, <1>6, <1>7, <1>8, <1>9 DEF Inv, ImportsAreIntact

-----------------------------------------------------------------------------
(* A request whose mutex is its own keeps it, or returns.                  *)

Works(r, t) ==
  /\ \A q \in Requests \ {r} : pc'[q] = pc[q] /\ sub'[q] = sub[q] /\ idx'[q] = idx[q]
  /\ \A u \in Uploads \ {t} :
       /\ file'[u] = file[u] /\ imports'[u] = imports[u]
       /\ bytes'[u] = bytes[u] /\ chunks'[u] = chunks[u]
  /\ kept \subseteq kept' /\ refused \subseteq refused'
  /\ UNCHANGED <<dir, session, count, used, bootVars, swept, damaged>>
  /\ \/ pc'[r] \in Working /\ sub'[r] = t /\ lock' = lock
     \/ pc'[r] = "idle" /\ sub'[r] = Nobody /\ lock' = [lock EXCEPT ![t] = Nobody]

\* The chunks of t that are being written are those of r, if it writes one.
LEMMA WritingIs ==
  ASSUME Inv, NEW r \in Requests, NEW t \in Uploads, Alone(r, t)
  PROVE  Writing(t) = IF pc[r] = "copy" THEN {idx[r]} ELSE {}
<1>1. \A q \in Requests : pc[q] = "copy" /\ sub[q] = t <=> q = r /\ pc[r] = "copy"
  BY DEF Alone, About, Working
<1> QED BY <1>1 DEF Writing

\* After a step of r into or out of writing a chunk of t.
LEMMA WritingBecomes ==
  ASSUME Inv, NEW r \in Requests, NEW t \in Uploads, Alone(r, t),
         \A q \in Requests \ {r} : pc'[q] = pc[q] /\ sub'[q] = sub[q],
         pc'[r] = "copy" => sub'[r] = t
  PROVE  Writing(t)' = IF pc'[r] = "copy" THEN {idx'[r]} ELSE {}
<1>1. \A q \in Requests : pc'[q] = "copy" /\ sub'[q] = t <=> q = r /\ pc'[r] = "copy"
  BY DEF Alone, About, Working
<1> QED BY <1>1 DEF Writing

\* What is not about chunks leaves the tally.
LEMMA TallyKept ==
  ASSUME Inv, NEW r \in Requests, NEW t \in Uploads, Alone(r, t),
         \A q \in Requests \ {r} : pc'[q] = pc[q] /\ sub'[q] = sub[q],
         pc[r] # "copy", pc'[r] # "copy",
         \A n \in Chunks : file'[t][n] = file[t][n],
         bytes'[t] = bytes[t], chunks'[t] = chunks[t],
         t \in Live \ (swept \cup kept)
  PROVE  Tally(t)'
<1>1. Tally(t)
  BY DEF Inv, TalliesOK
<1>2. Writing(t)' = Writing(t)
  BY WritingIs, WritingBecomes
<1>3. /\ Stored(t, "cut")' = Stored(t, "cut") /\ Stored(t, "whole")' = Stored(t, "whole")
      /\ ChunkFiles(t)' = ChunkFiles(t)
  BY DEF Stored, ChunkFiles
<1> QED BY <1>1, <1>2, <1>3 DEF Tally

\* Step, for the holder of the mutex of a live session that stays live.
LEMMA WorkStep ==
  ASSUME Inv, NEW r \in Requests, NEW t \in Uploads, t = sub[r],
         pc[r] \in Working \ {"remove"}, Works(r, t), Shapes', PlaceOK(r)',
         t \notin swept \cup kept' => Tally(t)',
         t \notin kept' \cup swept \cup refused' => Once(t)'
  PROVE  Inv'
<1>1. Alone(r, t) /\ lock[t] = r /\ t \in used /\ phase = "up"
  BY AtWork
<1>2. session[t] = "live" /\ session' = session
  BY Place DEF Works
<1>3. pc[r] \notin Setup /\ pc'[r] \notin Setup /\ (pc'[r] \in About => sub'[r] = t)
  BY DEF Works, Working, Setup, About, Commits
<1>4. lock \in [Uploads -> Requests \cup {Nobody}]
  BY DEF Inv, Shapes
<1>5. Moves(r, t)
  BY <1>2, <1>3, <1>4 DEF Works, Moves, bootVars
<1>6. damaged' = {}
  BY DEF Works, Inv, ImportsAreIntact
<1>7. UploadOK(r, t)'
  <2>1. LockAt(r, t)'
    BY <1>1, <1>2, <1>4 DEF Works, LockAt
  <2>2. OwnedAt(r, t)' /\ session'[t] # "none"
    BY <1>2 DEF OwnedAt, Live
  <2> QED BY <2>1, <2>2 DEF UploadOK, Works
<1>8. Counts(r, t) /\ Counts(r, t)' /\ count' = count
  BY <1>2 DEF Counts, Live, Works
<1> QED BY <1>1, <1>5, <1>6, <1>7, <1>8, Step

\* What leaves the file, the marker and the history of t alone leaves Once.
LEMMA OnceKept ==
  ASSUME Inv, NEW r \in Requests, NEW t \in Uploads, Alone(r, t),
         \A q \in Requests \ {r} : pc'[q] = pc[q] /\ sub'[q] = sub[q],
         imports'[t] = imports[t],
         t \in dir' => t \in dir, file'[t][".committing"] = file[t][".committing"],
         sub'[r] = t /\ pc'[r] \in Commits => sub[r] = t /\ pc[r] \in Commits,
         t \notin kept \cup swept \cup refused
  PROVE  Once(t)'
<1>1. Once(t)
  BY DEF Inv, OnceOK
<1> QED BY <1>1 DEF Once

\* An upload that was never imported satisfies Once.
LEMMA OnceNone ==
  ASSUME NEW t \in Uploads, imports'[t] = 0 PROVE Once(t)'
BY DEF Once

\* A commit is one of an upload that has not become a book.
LEMMA NotYet ==
  ASSUME Inv, NEW r \in Requests, NEW t \in Uploads, t = sub[r], pc[r] \in Commits,
         t \notin kept \cup swept \cup refused
  PROVE  imports[t] = 0
<1>1. Once(t) /\ imports[t] \in Nat
  BY DEF Inv, OnceOK, Shapes
<1> QED BY <1>1 DEF Once

\* The names of the files of an upload directory.
LEMMA FileNames ==
  /\ Chunks \subseteq Names /\ {"session.json", ".committing", "merged_file"} \subseteq Names
  /\ \A i \in Chunks : i \notin {"session.json", ".committing", "merged_file"}
BY SetsAssumption DEF Names

\* A request that is idle has nothing to keep.
LEMMA IdleOK ==
  ASSUME NEW r \in Requests, pc'[r] = "idle", sub'[r] = Nobody PROVE PlaceOK(r)'
BY DEF PlaceOK, Working, Removal, Creation, Commits

\* What PutFile changes: one file of one upload.
LEMMA PutFile ==
  ASSUME Inv, NEW t \in Uploads, NEW n \in Names, NEW c \in Contents, Put(t, n, c)
  PROVE  /\ file' \in [Uploads -> [Names -> Contents]]
         /\ file'[t][n] = c /\ \A m \in Names \ {n} : file'[t][m] = file[t][m]
         /\ \A u \in Uploads \ {t} : file'[u] = file[u]
<1>1. file \in [Uploads -> [Names -> Contents]]
  BY DEF Inv, Shapes
<1>2. file[t] \in [Names -> Contents] /\ file'[t] = [file[t] EXCEPT ![n] = c]
  BY <1>1 DEF Put
<1>3. file'[t][n] = c /\ \A m \in Names \ {n} : file'[t][m] = file[t][m]
  BY <1>2
<1> QED BY <1>1, <1>3 DEF Put

\* An incident leaves their number in its bound.
LEMMA IncidentBound ==
  ASSUME Inv, Incident PROVE incidents' \in 0..MaxIncidents
<1>1. incidents \in 0..MaxIncidents
  BY DEF Inv, Shapes
<1> QED BY <1>1, BoundsAssumption DEF Incident

-----------------------------------------------------------------------------
(* SaveChunk.                                                              *)

\* UploadChunk refuses a chunk that is too much, is there already, or has no directory.
LEMMA ChunkRefusedKeeps ==
  ASSUME Inv, NEW r \in Requests, ChunkRefused(r)
  PROVE  Inv'
<1> PICK t \in Uploads : t = sub[r]
  BY Place DEF ChunkRefused
<1> USE DEF ChunkRefused, Return, End, Unlock, diskVars, memVars, bootVars, timeVars, history
<1>1. pc[r] \in Working /\ pc[r] # "remove" /\ Alone(r, t)
  BY AtWork DEF Working
<1>2. Shapes'
  BY DEF Inv, Shapes, PCs
<1>3. pc'[r] = "idle" /\ sub'[r] = Nobody /\ Works(r, t)
  BY DEF Inv, Shapes, Works
<1>4. PlaceOK(r)'
  BY <1>3, IdleOK
<1>5. t \notin swept \cup kept' => Tally(t)'
  BY <1>1, <1>3, TallyKept, Place DEF Live, Works
<1>6. t \notin kept' \cup swept \cup refused' => Once(t)'
  BY <1>1, <1>3, OnceKept DEF Commits, Works
<1> QED BY <1>1, <1>2, <1>3, <1>4, <1>5, <1>6, WorkStep

\* A file that is empty, or in part there, is in no count.
LEMMA ChunkOpenKeeps ==
  ASSUME Inv, NEW r \in Requests, ChunkOpen(r)
  PROVE  Inv'
<1> PICK t \in Uploads : t = sub[r]
  BY Place DEF ChunkOpen
<1> PICK i \in Chunks : i = idx[r]
  BY Place DEF ChunkOpen, PlaceOK
<1> USE DEF ChunkOpen, Put, Goto, memVars, bootVars, timeVars, history
<1>1. pc[r] \in Working /\ pc[r] # "remove" /\ Alone(r, t)
  BY AtWork DEF Working
<1>2. Shapes'
  BY FileNames DEF Inv, Shapes, PCs, Contents
<1>3. /\ pc'[r] = "copy" /\ sub'[r] = t /\ idx'[r] = i
      /\ file'[t] = [file[t] EXCEPT ![i] = "empty"] /\ file[t] \in [Names -> Contents]
      /\ lock' = lock /\ session' = session
  BY DEF Inv, Shapes
<1>4. Works(r, t)
  BY <1>3 DEF Inv, Shapes, Works, Working
<1>5. file'[t][i] = "empty" /\ \A n \in Names \ {i} : file'[t][n] = file[t][n]
  BY <1>3, FileNames
<1>6. PlaceOK(r)'
  <2>1. Room(sub[r])'
    BY <1>3 DEF Room, TotalBytes
  <2>2. sub[r] \in used /\ used' = used /\ lock[t] = r /\ session[t] = "live"
    BY <1>1, Place DEF Working
  <2>3. /\ pc'[r] \notin Removal \cup Creation \cup Commits \cup {"remove", "clear old"}
        /\ pc'[r] \notin {"merge", "fill", "import"}
    BY <1>3 DEF Removal, Creation, Commits
  <2> QED BY <1>3, <1>5, <2>1, <2>2, <2>3 DEF PlaceOK
<1>7. t \notin swept \cup kept' => Tally(t)'
  <2> SUFFICES ASSUME t \notin swept \cup kept PROVE Tally(t)'
    OBVIOUS
  <2>1. Tally(t)
    BY <1>1, Place DEF Inv, TalliesOK, Live
  <2>2. Writing(t) = {} /\ Writing(t)' = {i}
    BY <1>1, <1>3, <1>4, WritingIs, WritingBecomes DEF Works
  <2>3. /\ Stored(t, "cut")' \ {i} = Stored(t, "cut")
        /\ Stored(t, "whole")' \ {i} = Stored(t, "whole")
        /\ ChunkFiles(t)' \ {i} = ChunkFiles(t)
    BY <1>5, FileNames DEF Stored, ChunkFiles
  <2> QED BY <2>1, <2>2, <2>3 DEF Tally
<1>8. t \notin kept' \cup swept \cup refused' => Once(t)'
  BY <1>1, <1>3, <1>4, <1>5, FileNames, OnceKept DEF Commits, Works
<1> QED BY <1>1, <1>2, <1>4, <1>6, <1>7, <1>8, WorkStep

\* The chunk is copied whole, and counted.
LEMMA ChunkCopyKeeps ==
  ASSUME Inv, NEW r \in Requests, ChunkCopy(r)
  PROVE  Inv'
<1> PICK t \in Uploads : t = sub[r]
  BY Place DEF ChunkCopy
<1> PICK i \in Chunks : i = idx[r]
  BY Place DEF ChunkCopy, PlaceOK
<1> USE DEF ChunkCopy, Put, Return, End, Unlock, memVars, place, bootVars, timeVars, history
<1>1. pc[r] = "copy" /\ pc[r] \in Working /\ pc[r] # "remove" /\ Alone(r, t)
  BY AtWork DEF Working
<1>2. t \notin swept => file[t][i] # "none"
  BY <1>1, Place DEF PlaceOK
<1>3. Writing(t) = {i}
  BY <1>1, WritingIs
<1>4. Room(t)
  BY <1>1, Place DEF PlaceOK
<1>5. t \notin swept \cup kept => Tally(t)
  BY <1>1, Place DEF Inv, TalliesOK, Live
<1>6. file[t] \in [Names -> Contents] /\ bytes[t] \in Nat /\ chunks[t] \in Nat
  BY Sizes DEF Inv, Shapes
<1>7. CASE /\ file[t][i] = "empty" /\ Put(t, i, "cut")
           /\ UNCHANGED <<memVars, lock, place>>
  <2>1. Shapes'
    BY <1>7, FileNames DEF Inv, Shapes, PCs, Contents
  <2>2. file'[t] = [file[t] EXCEPT ![i] = "cut"]
    BY <1>7 DEF Inv, Shapes
  <2>3. file'[t][i] = "cut" /\ \A n \in Names \ {i} : file'[t][n] = file[t][n]
    BY <2>2, <1>6, FileNames
  <2>4. Works(r, t)
    BY <1>1, <1>7 DEF Inv, Shapes, Works, Working
  <2>5. PlaceOK(r)'
    <3>1. Room(t)'
      BY <1>4, <1>7 DEF Room, TotalBytes
    <3> QED BY <1>1, <1>7, <2>3, <3>1, Place DEF PlaceOK, Working, Removal, Creation, Commits
  <2>6. t \notin swept \cup kept' => Tally(t)'
    <3>1. Writing(t)' = {i}
      BY <1>1, <1>7, <2>4, WritingBecomes DEF Works
    <3>2. /\ Stored(t, "cut")' \ {i} = Stored(t, "cut") \ {i}
          /\ Stored(t, "whole")' \ {i} = Stored(t, "whole") \ {i}
          /\ ChunkFiles(t)' \ {i} = ChunkFiles(t) \ {i}
      BY <2>3, FileNames DEF Stored, ChunkFiles
    <3> QED BY <1>3, <1>5, <1>7, <3>1, <3>2 DEF Tally
  <2>7. t \notin kept' \cup swept \cup refused' => Once(t)'
    BY <1>1, <1>7, <2>3, <2>4, FileNames, OnceKept DEF Commits, Works
  <2> QED BY <1>1, <2>1, <2>4, <2>5, <2>6, <2>7, WorkStep
<1>8. CASE /\ file[t][i] # "empty"
           /\ IF file[t][i] = "cut" THEN Put(t, i, "whole") ELSE UNCHANGED file
           /\ bytes' = [bytes EXCEPT ![t] = @ + 2]
           /\ chunks' = [chunks EXCEPT ![t] = @ + 1]
           /\ Return(r)
           /\ UNCHANGED <<session, count>>
  <2>1. Shapes'
    <3>1. bytes' \in [Uploads -> 0..TotalBytes]
      BY <1>4, <1>8, Sizes DEF Inv, Shapes, Room
    <3>2. chunks' \in [Uploads -> 0..Cardinality(Chunks)]
      BY <1>4, <1>8, Sizes DEF Inv, Shapes, Room
    <3>3. file' \in [Uploads -> [Names -> Contents]]
      <4>1. file \in [Uploads -> [Names -> Contents]] /\ i \in Names /\ "whole" \in Contents
        BY FileNames DEF Inv, Shapes, Contents
      <4>2. CASE file[t][i] = "cut"
        BY <1>8, <4>1, <4>2
      <4>3. CASE file[t][i] # "cut"
        BY <1>8, <4>1, <4>3
      <4> QED BY <4>2, <4>3
    <3> QED BY <1>8, <3>1, <3>2, <3>3 DEF Inv, Shapes, PCs
  <2>2. file'[t] = IF file[t][i] = "cut" THEN [file[t] EXCEPT ![i] = "whole"] ELSE file[t]
    BY <1>8 DEF Inv, Shapes
  <2>3. /\ file'[t][i] = IF file[t][i] = "cut" THEN "whole" ELSE file[t][i]
        /\ \A n \in Names \ {i} : file'[t][n] = file[t][n]
    BY <2>2, <1>6, FileNames
  <2>4. /\ pc'[r] = "idle" /\ sub'[r] = Nobody /\ session' = session
        /\ bytes'[t] = bytes[t] + 2 /\ chunks'[t] = chunks[t] + 1
    BY <1>8 DEF Inv, Shapes
  <2>5. Works(r, t)
    BY <1>1, <1>8 DEF Inv, Shapes, Works, Working
  <2>6. PlaceOK(r)'
    BY <2>4, IdleOK
  <2>7. t \notin swept \cup kept' => Tally(t)'
    <3> SUFFICES ASSUME t \notin swept \cup kept PROVE Tally(t)'
      OBVIOUS
    <3>1. Writing(t)' = {}
      BY <1>1, <2>4, <2>5, WritingBecomes DEF Works
    <3>2. file[t][i] \in {"cut", "whole"} /\ file'[t][i] = "whole"
      BY <1>2, <1>6, <1>8, <2>3, FileNames DEF Contents
    <3>3. /\ Stored(t, "cut")' = Stored(t, "cut") \ {i}
          /\ Stored(t, "whole")' = (Stored(t, "whole") \ {i}) \cup {i}
          /\ ChunkFiles(t)' = (ChunkFiles(t) \ {i}) \cup {i}
      BY <2>3, <3>2, FileNames DEF Stored, ChunkFiles
    <3>4. /\ Cardinality(Stored(t, "whole")') = Cardinality(Stored(t, "whole") \ {i}) + 1
          /\ Cardinality(ChunkFiles(t)') = Cardinality(ChunkFiles(t) \ {i}) + 1
      <4>1. ASSUME NEW S, IsFiniteSet(S)
            PROVE  Cardinality((S \ {i}) \cup {i}) = Cardinality(S \ {i}) + 1
        <5>1. IsFiniteSet(S \ {i}) /\ i \notin S \ {i}
          BY <4>1, FS_RemoveElement
        <5> QED BY <5>1, FS_AddElement
      <4>2. IsFiniteSet(Stored(t, "whole")) /\ IsFiniteSet(ChunkFiles(t))
        <5>1. Stored(t, "whole") \in SUBSET Chunks /\ ChunkFiles(t) \in SUBSET Chunks
          BY DEF Stored, ChunkFiles
        <5> QED BY <5>1, Sizes
      <4> QED BY <3>3, <4>1, <4>2
    <3>5. /\ Cardinality(Stored(t, "whole") \ {i}) \in Nat
          /\ Cardinality(Stored(t, "cut") \ {i}) \in Nat
      <4>1. Stored(t, "whole") \ {i} \in SUBSET Chunks /\ Stored(t, "cut") \ {i} \in SUBSET Chunks
        BY DEF Stored
      <4> QED BY <4>1, Sizes
    <3>6. /\ chunks[t] = Cardinality(ChunkFiles(t) \ {i})
          /\ bytes[t] = Cardinality(Stored(t, "cut") \ {i})
                          + 2 * Cardinality(Stored(t, "whole") \ {i})
      BY <1>3, <1>5 DEF Tally
    <3>7. /\ chunks'[t] = Cardinality(ChunkFiles(t)')
          /\ bytes'[t] = Cardinality(Stored(t, "cut")') + 2 * Cardinality(Stored(t, "whole")')
      <4> HIDE DEF Return
      <4>1. chunks'[t] = Cardinality(ChunkFiles(t)')
        BY <2>4, <3>4, <3>6
      <4>2. Cardinality(Stored(t, "cut")') = Cardinality(Stored(t, "cut") \ {i})
        BY <3>3
      <4>3. bytes'[t] = Cardinality(Stored(t, "cut")') + 2 * Cardinality(Stored(t, "whole")')
        BY <2>4, <3>4, <3>5, <3>6, <4>2
      <4> QED BY <4>1, <4>3
    <3>8. \A S : S \ {} = S
      OBVIOUS
    <3> QED BY <3>1, <3>7, <3>8 DEF Tally
  <2>8. t \notin kept' \cup swept \cup refused' => Once(t)'
    BY <1>1, <2>3, <2>4, <2>5, FileNames, OnceKept DEF Commits, Works
  <2> QED BY <1>1, <2>1, <2>5, <2>6, <2>7, <2>8, WorkStep
<1> QED BY <1>7, <1>8

\* The copy fails, and its file is removed or stays.
LEMMA ChunkFailsKeeps ==
  ASSUME Inv, NEW r \in Requests, ChunkFails(r)
  PROVE  Inv'
<1> PICK t \in Uploads : t = sub[r]
  BY Place DEF ChunkFails
<1> PICK i \in Chunks : i = idx[r]
  BY Place DEF ChunkFails, PlaceOK
<1> USE DEF ChunkFails, Put, Return, End, Unlock, memVars, bootVars, timeVars
<1>1. pc[r] = "copy" /\ pc[r] \in Working /\ pc[r] # "remove" /\ Alone(r, t)
  BY AtWork DEF Working
<1>2. Shapes'
  <2>1. file' \in [Uploads -> [Names -> Contents]]
    <3>1. CASE Put(t, i, "none")
      BY <3>1, FileNames DEF Inv, Shapes, Contents
    <3>2. CASE file' = file
      BY <3>2 DEF Inv, Shapes
    <3> QED BY <3>1, <3>2
  <2>2. incidents' \in 0..MaxIncidents /\ kept' \subseteq Uploads
    BY IncidentBound DEF Inv, Shapes
  <2> QED BY <2>1, <2>2 DEF Inv, Shapes, PCs
<1>3. pc'[r] = "idle" /\ sub'[r] = Nobody /\ session' = session
  BY DEF Inv, Shapes
<1>4. Works(r, t)
  BY DEF Inv, Shapes, Works, Working
<1>5. PlaceOK(r)'
  BY <1>3, IdleOK
<1>6. \A n \in Names \ {i} : file'[t][n] = file[t][n]
  BY FileNames DEF Inv, Shapes
<1>7. t \notin swept \cup kept' => Tally(t)'
  <2> SUFFICES ASSUME t \notin swept \cup kept' PROVE Tally(t)'
    OBVIOUS
  <2>1. Tally(t) /\ t \notin kept
    BY <1>1, <1>4, Place DEF Inv, TalliesOK, Live, Works
  <2>2. Writing(t) = {i} /\ Writing(t)' = {}
    BY <1>1, <1>3, <1>4, WritingIs, WritingBecomes DEF Works
  <2>3. file'[t][i] = "none"
    BY FileNames DEF Inv, Shapes
  <2>4. /\ Stored(t, "cut")' = Stored(t, "cut") \ {i}
        /\ Stored(t, "whole")' = Stored(t, "whole") \ {i}
        /\ ChunkFiles(t)' = ChunkFiles(t) \ {i}
    BY <1>6, <2>3, FileNames DEF Stored, ChunkFiles
  <2>5. \A S : S \ {} = S
    OBVIOUS
  <2> QED BY <2>1, <2>2, <2>4, <2>5 DEF Tally
<1>8. t \notin kept' \cup swept \cup refused' => Once(t)'
  BY <1>1, <1>3, <1>4, <1>6, FileNames, OnceKept DEF Commits, Works
<1> QED BY <1>1, <1>2, <1>4, <1>5, <1>7, <1>8, WorkStep

-----------------------------------------------------------------------------
(* CommitUpload.                                                           *)

\* CommitUpload is refused before its marker is there.
LEMMA CommitRefusedKeeps ==
  ASSUME Inv, NEW r \in Requests, CommitRefused(r)
  PROVE  Inv'
<1> PICK t \in Uploads : t = sub[r]
  BY Place DEF CommitRefused
<1> USE DEF CommitRefused, Return, End, Unlock, diskVars, memVars, bootVars, timeVars, history
<1>1. pc[r] \in Working /\ pc[r] # "remove" /\ Alone(r, t)
  BY AtWork DEF Working
<1>2. Shapes'
  BY DEF Inv, Shapes, PCs
<1>3. pc'[r] = "idle" /\ sub'[r] = Nobody /\ Works(r, t)
  BY DEF Inv, Shapes, Works
<1>4. PlaceOK(r)'
  BY <1>3, IdleOK
<1>5. t \notin swept \cup kept' => Tally(t)'
  BY <1>1, <1>3, TallyKept, Place DEF Live, Works
<1>6. t \notin kept' \cup swept \cup refused' => Once(t)'
  BY <1>1, <1>3, OnceKept DEF Commits, Works
<1> QED BY <1>1, <1>2, <1>3, <1>4, <1>5, <1>6, WorkStep

\* CommitUpload writes its marker.
LEMMA CommitMarkKeeps ==
  ASSUME Inv, NEW r \in Requests, CommitMark(r)
  PROVE  Inv'
<1> PICK t \in Uploads : t = sub[r]
  BY Place DEF CommitMark
<1> USE DEF CommitMark, Goto, memVars, bootVars, timeVars, history
<1>1. pc[r] = "mark" /\ pc[r] \in Working /\ pc[r] # "remove" /\ Alone(r, t)
  BY AtWork DEF Working
<1>2. /\ file' \in [Uploads -> [Names -> Contents]] /\ file'[t][".committing"] = "whole"
      /\ \A n \in Names \ {".committing"} : file'[t][n] = file[t][n]
      /\ \A u \in Uploads \ {t} : file'[u] = file[u]
  BY PutFile, FileNames DEF Contents
<1>3. pc'[r] = "check" /\ sub'[r] = t /\ lock' = lock /\ session' = session
  BY DEF Inv, Shapes
<1>4. Shapes'
  BY <1>2 DEF Inv, Shapes, PCs
<1>5. Works(r, t)
  BY <1>2, <1>3 DEF Inv, Shapes, Works, Working
<1>6. PlaceOK(r)'
  <2>1. sub[r] \in used /\ used' = used /\ lock[t] = r /\ session[t] = "live"
    BY <1>1, Place
  <2> QED BY <1>2, <1>3, <2>1 DEF PlaceOK, Removal, Creation
<1>7. t \notin swept \cup kept' => Tally(t)'
  BY <1>1, <1>2, <1>3, <1>5, FileNames, TallyKept, Place DEF Live, Works
<1>8. t \notin kept' \cup swept \cup refused' => Once(t)'
  <2> SUFFICES ASSUME t \notin kept \cup swept \cup refused PROVE Once(t)'
    OBVIOUS
  <2>1. ~(imports[t] > 0)
    BY DEF Inv, OnceOK, Once
  <2> QED BY <2>1 DEF Once
<1> QED BY <1>1, <1>4, <1>5, <1>6, <1>7, <1>8, WorkStep

\* When the sizes add up to the total, every chunk is whole.
LEMMA Complete ==
  ASSUME Inv, NEW u \in Uploads, \A i \in Chunks : file[u][i] \in {"cut", "whole"},
         BytesOnDisk(u) = TotalBytes
  PROVE  \A i \in Chunks : file[u][i] = "whole"
<1> DEFINE C == Stored(u, "cut")
           W == Stored(u, "whole")
<1>1. C \cup W = Chunks /\ C \cap W = {}
  BY DEF Stored
<1>2. C \in SUBSET Chunks /\ W \in SUBSET Chunks
  BY <1>1
<1>3. Cardinality(C) + 2 * Cardinality(W) = 2 * Cardinality(Chunks)
  BY DEF BytesOnDisk, TotalBytes
<1> HIDE DEF C, W
<1>4. /\ IsFiniteSet(C) /\ IsFiniteSet(W)
      /\ Cardinality(C) \in Nat /\ Cardinality(W) \in Nat /\ Cardinality(Chunks) \in Nat
  BY <1>2, Sizes
<1>5. Cardinality(Chunks) = Cardinality(C) + Cardinality(W)
  <2>1. Cardinality(C \cup W) = Cardinality(C) + Cardinality(W) - Cardinality(C \cap W)
    BY <1>4, FS_Union
  <2>2. Cardinality(C \cap W) = 0
    BY <1>1, FS_EmptySet
  <2> QED BY <1>1, <1>4, <2>1, <2>2
<1>6. C = {}
  BY <1>3, <1>4, <1>5, FS_EmptySet
<1> QED BY <1>1, <1>6 DEF W, Stored

\* The sizes of the chunks are added up.
LEMMA CommitCheckKeeps ==
  ASSUME Inv, NEW r \in Requests, CommitCheck(r)
  PROVE  Inv'
<1> PICK t \in Uploads : t = sub[r]
  BY Place DEF CommitCheck
<1> USE DEF CommitCheck, Goto, diskVars, memVars, bootVars, timeVars, history
<1>1. pc[r] = "check" /\ pc[r] \in Working /\ pc[r] # "remove" /\ Alone(r, t)
  BY AtWork DEF Working
<1>2. Shapes'
  BY DEF Inv, Shapes, PCs
<1>3. /\ pc'[r] \in {"merge", "unmark"} /\ sub'[r] = t /\ lock' = lock /\ session' = session
      /\ file' = file /\ swept' = swept
  BY DEF Inv, Shapes
<1>4. Works(r, t)
  BY <1>3 DEF Inv, Shapes, Works, Working
<1>5. pc'[r] = "merge" => \A i \in Chunks : file[t][i] \in {"none", "whole"}
  <2> SUFFICES ASSUME pc'[r] = "merge" PROVE \A i \in Chunks : file[t][i] = "whole"
    OBVIOUS
  <2>1. (\A i \in Chunks : file[t][i] \in {"cut", "whole"}) /\ BytesOnDisk(t) = TotalBytes
    BY DEF Inv, Shapes
  <2> QED BY <2>1, Complete
<1>6. PlaceOK(r)'
  <2>1. sub[r] \in used /\ used' = used /\ lock[t] = r /\ session[t] = "live"
    BY <1>1, Place
  <2>2. sub[r] \notin swept => file[t][".committing"] # "none"
    BY <1>1, Place DEF PlaceOK, Commits
  <2> QED BY <1>3, <1>5, <2>1, <2>2 DEF PlaceOK, Removal, Creation
<1>7. t \notin swept \cup kept' => Tally(t)'
  BY <1>1, <1>3, <1>4, TallyKept, Place DEF Live, Works
<1>8. t \notin kept' \cup swept \cup refused' => Once(t)'
  BY <1>1, <1>3, <1>4, OnceKept DEF Commits, Works
<1> QED BY <1>1, <1>2, <1>4, <1>6, <1>7, <1>8, WorkStep

\* The merged file is created.
LEMMA CommitMergeKeeps ==
  ASSUME Inv, NEW r \in Requests, CommitMerge(r)
  PROVE  Inv'
<1> PICK t \in Uploads : t = sub[r]
  BY Place DEF CommitMerge
<1> USE DEF CommitMerge, Goto, memVars, bootVars, timeVars, history
<1>1. pc[r] = "merge" /\ pc[r] \in Working /\ pc[r] # "remove" /\ Alone(r, t)
  BY AtWork DEF Working
<1>2. /\ file' \in [Uploads -> [Names -> Contents]]
      /\ file'[t]["merged_file"] = "cut" \/ pc'[r] = "unmark"
      /\ \A n \in Names \ {"merged_file"} : file'[t][n] = file[t][n]
      /\ \A u \in Uploads \ {t} : file'[u] = file[u]
  <2>1. CASE Put(t, "merged_file", "cut")
    BY <2>1, PutFile, FileNames DEF Contents
  <2>2. CASE file' = file /\ Goto(r, "unmark")
    BY <2>2 DEF Inv, Shapes
  <2> QED BY <2>1, <2>2
<1>3. /\ pc'[r] \in {"fill", "unmark"} /\ sub'[r] = t /\ lock' = lock /\ session' = session
      /\ swept' = swept
  BY DEF Inv, Shapes
<1>4. Shapes'
  <2>1. pc' \in [Requests -> PCs]
    BY DEF Inv, Shapes, PCs
  <2> QED BY <1>2, <2>1 DEF Inv, Shapes
<1>5. Works(r, t)
  BY <1>2, <1>3 DEF Inv, Shapes, Works, Working
<1>6. PlaceOK(r)'
  <2>1. sub[r] \in used /\ used' = used /\ lock[t] = r /\ session[t] = "live"
    BY <1>1, Place
  <2>2. /\ sub[r] \notin swept => file[t][".committing"] # "none"
        /\ \A i \in Chunks : file[t][i] \in {"none", "whole"}
    BY <1>1, Place DEF PlaceOK, Commits
  <2>3. /\ file'[t][".committing"] = file[t][".committing"]
        /\ \A i \in Chunks : file'[t][i] = file[t][i]
    BY <1>2, FileNames
  <2> QED BY <1>2, <1>3, <2>1, <2>2, <2>3 DEF PlaceOK, Removal, Creation
<1>7. t \notin swept \cup kept' => Tally(t)'
  BY <1>1, <1>2, <1>3, <1>5, FileNames, TallyKept, Place DEF Live, Works
<1>8. t \notin kept' \cup swept \cup refused' => Once(t)'
  BY <1>1, <1>2, <1>3, <1>5, FileNames, OnceKept DEF Commits, Works
<1> QED BY <1>1, <1>4, <1>5, <1>6, <1>7, <1>8, WorkStep

\* What is appended is what the check has seen, or a chunk is missing.
LEMMA CommitFillKeeps ==
  ASSUME Inv, NEW r \in Requests, CommitFill(r)
  PROVE  Inv'
<1> PICK t \in Uploads : t = sub[r]
  BY Place DEF CommitFill
<1> USE DEF CommitFill, Goto, memVars, bootVars, timeVars, history
<1>1. pc[r] = "fill" /\ pc[r] \in Working /\ pc[r] # "remove" /\ Alone(r, t)
  BY AtWork DEF Working
<1>2. /\ sub[r] \notin swept => file[t][".committing"] # "none"
      /\ \A i \in Chunks : file[t][i] \in {"none", "whole"}
      /\ file[t]["merged_file"] \in {"none", "cut"}
  BY <1>1, Place DEF PlaceOK, Commits
<1>3. /\ file' \in [Uploads -> [Names -> Contents]]
      /\ file'[t]["merged_file"] \in {"none", "whole"}
      /\ \A n \in Names \ {"merged_file"} : file'[t][n] = file[t][n]
      /\ \A u \in Uploads \ {t} : file'[u] = file[u]
  <2>1. CASE \/ Put(t, "merged_file", "whole")
             \/ Put(t, "merged_file", "none")
    BY <2>1, PutFile, FileNames DEF Contents
  <2>2. CASE /\ file' = file /\ ChunkFiles(t) = Chunks
             /\ ~(file[t]["merged_file"] = "cut" /\ Stored(t, "whole") = Chunks)
    <3>1. Stored(t, "whole") = Chunks
      BY <1>2, <2>2 DEF ChunkFiles, Stored
    <3> QED BY <1>2, <2>2, <3>1 DEF Inv, Shapes
  <2> QED BY <2>1, <2>2
<1>4. /\ pc'[r] \in {"import", "unmark"} /\ sub'[r] = t /\ lock' = lock /\ session' = session
      /\ swept' = swept
  BY DEF Inv, Shapes
<1>5. Shapes'
  BY <1>3 DEF Inv, Shapes, PCs
<1>6. Works(r, t)
  BY <1>3, <1>4 DEF Inv, Shapes, Works, Working
<1>7. PlaceOK(r)'
  <2>1. sub[r] \in used /\ used' = used /\ lock[t] = r /\ session[t] = "live"
    BY <1>1, Place
  <2>2. file'[t][".committing"] = file[t][".committing"]
    BY <1>3, FileNames
  <2> QED BY <1>2, <1>3, <1>4, <2>1, <2>2 DEF PlaceOK, Removal, Creation
<1>8. t \notin swept \cup kept' => Tally(t)'
  BY <1>1, <1>3, <1>4, <1>6, FileNames, TallyKept, Place DEF Live, Works
<1>9. t \notin kept' \cup swept \cup refused' => Once(t)'
  BY <1>1, <1>3, <1>4, <1>6, FileNames, OnceKept DEF Commits, Works
<1> QED BY <1>1, <1>5, <1>6, <1>7, <1>8, <1>9, WorkStep

\* Only a whole file is imported, and only once.
LEMMA CommitImportKeeps ==
  ASSUME Inv, NEW r \in Requests, CommitImport(r)
  PROVE  Inv'
<1> PICK t \in Uploads : t = sub[r]
  BY Place DEF CommitImport
<1> USE DEF CommitImport, Goto, memVars, bootVars, timeVars
<1>1. pc[r] = "import" /\ pc[r] \in Working /\ pc[r] # "remove" /\ Alone(r, t)
  BY AtWork DEF Working
<1>2. /\ sub[r] \notin swept => file[t][".committing"] # "none"
      /\ file[t]["merged_file"] \in {"none", "whole"}
  BY <1>1, Place DEF PlaceOK, Commits
<1>3. /\ file' \in [Uploads -> [Names -> Contents]]
      /\ \A n \in Names \ {"merged_file"} : file'[t][n] = file[t][n]
      /\ \A u \in Uploads \ {t} : file'[u] = file[u]
  <2>1. CASE Put(t, "merged_file", "none")
    BY <2>1, PutFile, FileNames DEF Contents
  <2>2. CASE file' = file
    BY <2>2 DEF Inv, Shapes
  <2> QED BY <2>1, <2>2
<1>4. damaged' = damaged
  BY <1>2
<1>5. /\ pc'[r] \in {"remove", "unmark"} /\ sub'[r] = t /\ lock' = lock /\ session' = session
      /\ swept' = swept
  BY DEF Inv, Shapes
<1>6. /\ incidents' \in 0..MaxIncidents /\ refused \subseteq refused' /\ refused' \subseteq Uploads
      /\ imports' \in [Uploads -> Nat] /\ \A u \in Uploads \ {t} : imports'[u] = imports[u]
  <2>1. imports' = imports \/ imports' = [imports EXCEPT ![t] = @ + 1]
    OBVIOUS
  <2>2. imports' \in [Uploads -> Nat] /\ \A u \in Uploads \ {t} : imports'[u] = imports[u]
    BY <2>1 DEF Inv, Shapes
  <2>3. refused' = refused \/ refused' = refused \cup {t}
    OBVIOUS
  <2>4. incidents' = incidents \/ Incident
    OBVIOUS
  <2>5. incidents' \in 0..MaxIncidents
    BY <2>4, IncidentBound DEF Inv, Shapes
  <2> QED BY <2>2, <2>3, <2>5 DEF Inv, Shapes
<1>7. Shapes'
  BY <1>3, <1>4, <1>6 DEF Inv, Shapes, PCs
<1>8. Works(r, t)
  BY <1>3, <1>4, <1>5, <1>6 DEF Inv, Shapes, Works, Working
<1>9. PlaceOK(r)'
  <2>1. sub[r] \in used /\ used' = used /\ lock[t] = r /\ session[t] = "live"
    BY <1>1, Place
  <2>2. file'[t][".committing"] = file[t][".committing"]
    BY <1>3, FileNames
  <2> QED BY <1>2, <1>5, <2>1, <2>2 DEF PlaceOK, Removal, Creation
<1>10. t \notin swept \cup kept' => Tally(t)'
  BY <1>1, <1>3, <1>5, <1>8, FileNames, TallyKept, Place DEF Live, Works
<1>11. t \notin kept' \cup swept \cup refused' => Once(t)'
  <2> SUFFICES ASSUME t \notin kept' \cup swept \cup refused' PROVE Once(t)'
    OBVIOUS
  <2>1. imports[t] = 0
    BY <1>1, <1>6, NotYet DEF Commits
  <2>2. CASE imports' = imports
    BY <2>1, <2>2 DEF Once
  <2>3. CASE imports' = [imports EXCEPT ![t] = @ + 1] /\ pc'[r] = "remove"
    <3>1. imports'[t] = 1
      BY <2>1, <2>3 DEF Inv, Shapes
    <3>2. file'[t][".committing"] # "none"
      BY <1>2, <1>3, FileNames
    <3>3. \A q \in Requests : sub'[q] = t => pc'[q] \notin Commits
      BY <1>1, <1>8, <2>3 DEF Works, Alone, Working, Commits
    <3> QED BY <3>1, <3>2, <3>3 DEF Once
  <2>4. CASE refused' = refused \cup {t}
    BY <2>4
  <2> QED BY <2>2, <2>3, <2>4 DEF Inv, Shapes
<1> QED BY <1>1, <1>7, <1>8, <1>9, <1>10, <1>11, WorkStep

\* A commit that failed takes its marker away, or fails to.
LEMMA CommitUnmarkKeeps ==
  ASSUME Inv, NEW r \in Requests, CommitUnmark(r)
  PROVE  Inv'
<1> PICK t \in Uploads : t = sub[r]
  BY Place DEF CommitUnmark
<1> USE DEF CommitUnmark, Return, End, Unlock, memVars, bootVars, timeVars
<1>1. pc[r] = "unmark" /\ pc[r] \in Working /\ pc[r] # "remove" /\ Alone(r, t)
  BY AtWork DEF Working
<1>2. /\ file' \in [Uploads -> [Names -> Contents]]
      /\ \A n \in Names \ {".committing"} : file'[t][n] = file[t][n]
      /\ \A u \in Uploads \ {t} : file'[u] = file[u]
  <2>1. CASE Put(t, ".committing", "none")
    BY <2>1, PutFile, FileNames DEF Contents
  <2>2. CASE file' = file
    BY <2>2 DEF Inv, Shapes
  <2> QED BY <2>1, <2>2
<1>3. incidents' \in 0..MaxIncidents /\ kept \subseteq kept' /\ kept' \subseteq Uploads
  BY IncidentBound DEF Inv, Shapes
<1>4. pc'[r] = "idle" /\ sub'[r] = Nobody /\ session' = session
  BY DEF Inv, Shapes
<1>5. Shapes'
  BY <1>2, <1>3 DEF Inv, Shapes, PCs
<1>6. Works(r, t)
  BY <1>2, <1>3 DEF Inv, Shapes, Works, Working
<1>7. PlaceOK(r)'
  BY <1>4, IdleOK
<1>8. t \notin swept \cup kept' => Tally(t)'
  BY <1>1, <1>2, <1>3, <1>4, <1>6, FileNames, TallyKept, Place DEF Live, Works
<1>9. t \notin kept' \cup swept \cup refused' => Once(t)'
  <2> SUFFICES ASSUME t \notin kept' \cup swept \cup refused' PROVE Once(t)'
    OBVIOUS
  <2>1. imports'[t] = 0
    BY <1>1, <1>3, NotYet DEF Commits
  <2> QED BY <2>1 DEF Once
<1> QED BY <1>1, <1>5, <1>6, <1>7, <1>8, <1>9, WorkStep

-----------------------------------------------------------------------------
(* InitUploadSession and lockSession.                                      *)

\* A step that is not about any upload.
LEMMA StepAside ==
  ASSUME Inv, NEW r \in Requests, pc[r] \in {"idle", "cleanup", "lock chunk", "lock commit"},
         pc'[r] \notin About, phase = "up", Shapes', PlaceOK(r)',
         \A q \in Requests \ {r} : pc'[q] = pc[q] /\ sub'[q] = sub[q] /\ idx'[q] = idx[q],
         sub'[r] \in {sub[r], Nobody} \cup Live \cup (Uploads \ used), used \subseteq used',
         UNCHANGED <<diskVars, memVars, lock, bootVars, history>>
  PROVE  Inv'
<1>1. Alone(r, Nobody) /\ Nobody \notin Uploads
  BY NobodyAlone, Distinct
<1>2. Moves(r, Nobody)
  BY DEF Moves, diskVars, memVars, bootVars, history
<1>3. damaged' = {} /\ count' = count
  BY DEF Inv, ImportsAreIntact, history, memVars
<1>4. ~Counts(r, Nobody) /\ ~Counts(r, Nobody)'
  BY <1>1 DEF Counts, Live, Setup, About
<1> QED BY <1>1, <1>2, <1>3, <1>4, Step

\* A client asks for a new upload.
LEMMA InitUploadKeeps ==
  ASSUME Inv, NEW r \in Requests, InitUpload(r)
  PROVE  Inv'
<1> USE DEF InitUpload, timeVars
<1>1. PICK u \in Uploads \ used : sub' = [sub EXCEPT ![r] = u] /\ used' = used \cup {u}
  OBVIOUS
<1>2. /\ pc'[r] = "cleanup" /\ sub'[r] = u
      /\ \A q \in Requests \ {r} : pc'[q] = pc[q] /\ sub'[q] = sub[q] /\ idx'[q] = idx[q]
  BY <1>1 DEF Inv, Shapes
<1>3. Shapes'
  BY <1>1 DEF Inv, Shapes, PCs, Live, diskVars, memVars, bootVars, history
<1>4. PlaceOK(r)'
  <2>1. NewOK(r)'
    <3>1. /\ session[u] = "none" /\ imports[u] = 0
          /\ \A n \in Chunks : file[u][n] = "none"
      BY FileNames DEF Inv, FreshOK
    <3>2. \A q \in Requests \ {r} : sub[q] # u
      <4> TAKE q \in Requests \ {r}
      <4>1. PlaceOK(q)
        BY Place
      <4> QED BY <4>1, Distinct DEF PlaceOK
    <3> QED BY <1>2, <3>1, <3>2 DEF NewOK, diskVars, memVars, history
  <2> QED BY <1>1, <1>2, <2>1 DEF PlaceOK, Working, Removal, Commits
<1> QED BY <1>1, <1>2, <1>3, <1>4, StepAside DEF About, Setup, Commits

\* A client sends a chunk, or asks for the commit.
LEMMA ArriveKeeps ==
  ASSUME Inv, NEW r \in Requests, Arrive(r)
  PROVE  Inv'
<1> USE DEF Arrive, timeVars
<1>1. PICK u \in Live : sub' = [sub EXCEPT ![r] = u]
  OBVIOUS
<1>2. /\ pc'[r] \in {"lock chunk", "lock commit"} /\ sub'[r] = u /\ u \in Uploads
      /\ pc'[r] = "lock chunk" => idx'[r] \in Chunks
      /\ \A q \in Requests \ {r} : pc'[q] = pc[q] /\ sub'[q] = sub[q] /\ idx'[q] = idx[q]
  BY <1>1 DEF Inv, Shapes, Live
<1>3. Shapes'
  <2> USE DEF Inv, Shapes
  <2>1. pc' \in [Requests -> PCs]
    BY DEF PCs
  <2>2. sub' \in [Requests -> Uploads \cup {Nobody}]
    BY <1>1 DEF Live
  <2>3. idx' \in [Requests -> Chunks \cup {Nobody}]
    OBVIOUS
  <2> QED BY <2>1, <2>2, <2>3 DEF diskVars, memVars, bootVars, history
<1>4. u \in used
  BY <1>1, Known DEF Live
<1>5. PlaceOK(r)'
  BY <1>2, <1>4 DEF PlaceOK, Working, Removal, Creation, Commits
<1> QED BY <1>1, <1>2, <1>3, <1>5, StepAside DEF About, Setup, Commits

\* While an upload counts, there is a count.
LEMMA CountPositive ==
  ASSUME Inv, NEW r \in Requests, NEW t \in Uploads, Counts(r, t)
  PROVE  count \in Nat \ {0} /\ count - 1 \in Nat
<1>1. \E u : u \in Counted
  BY CountedIs DEF Counts
<1>2. count = Cardinality(Counted) /\ Counted \in SUBSET Uploads
  BY CountedIs DEF Inv, SlotsOK
<1>3. IsFiniteSet(Counted) /\ Cardinality(Counted) \in 0..Cardinality(Uploads)
      /\ Cardinality(Uploads) \in Nat
  BY <1>2, Sizes
<1> QED BY <1>1, <1>2, <1>3, FS_EmptySet

\* A new upload is nobody else's before and after a step that leaves what is known of it.
LEMMA NewKept ==
  ASSUME Inv, NEW r \in Requests, NewOK(r), sub'[r] = sub[r], sub[r] \in Uploads,
         \A q \in Requests \ {r} : sub'[q] = sub[q],
         session'[sub[r]] = session[sub[r]], imports'[sub[r]] = imports[sub[r]],
         \A n \in Chunks : file'[sub[r]][n] = file[sub[r]][n]
  PROVE  NewOK(r)'
BY DEF NewOK

\* The cleanup before a new upload takes up an expired session, or is done.
LEMMA CleanupExpiredKeeps ==
  ASSUME Inv, NEW r \in Requests, CleanupExpired(r)
  PROVE  Inv'
<1> USE DEF CleanupExpired, diskVars, bootVars, timeVars, history
<1>0. pc[r] = "cleanup" /\ sub[r] \in Uploads /\ NewOK(r) /\ phase = "up"
  BY Place DEF Creation
<1>1. PICK t \in todo[r] :
        /\ lock[t] = Nobody
        /\ \/ /\ session[t] = "live"
              /\ lock' = [lock EXCEPT ![t] = r]
              /\ Forget(t)
              /\ Goto(r, "clear old")
              /\ UNCHANGED todo
           \/ /\ session[t] = "removed"
              /\ todo' = [todo EXCEPT ![r] = @ \ {t}]
              /\ UNCHANGED <<memVars, lock, place>>
  OBVIOUS
<1>2. t \in Uploads
  BY DEF Inv, Shapes
<1>3. CASE /\ session[t] = "live" /\ lock' = [lock EXCEPT ![t] = r]
           /\ Forget(t) /\ Goto(r, "clear old") /\ UNCHANGED todo
  <2> USE <1>3 DEF Goto, Forget
  <2>1. Alone(r, t) /\ t \in used
    BY <1>0, <1>1, <1>2, FreeAlone
  <2>2. /\ pc'[r] = "clear old" /\ sub'[r] = sub[r] /\ lock'[t] = r /\ session'[t] = "removed"
        /\ \A q \in Requests \ {r} : pc'[q] = pc[q] /\ sub'[q] = sub[q] /\ idx'[q] = idx[q]
        /\ \A u \in Uploads \ {t} : session'[u] = session[u] /\ lock'[u] = lock[u]
    BY <1>2 DEF Inv, Shapes
  <2>3. Counts(r, t) /\ ~Counts(r, t)' /\ count' = count - 1
    BY <1>2, <2>2 DEF Counts, Live, Setup
  <2>4. count - 1 \in Nat
    BY <1>2, <2>3, CountPositive
  <2>5. Shapes'
    <3>1. session' \in [Uploads -> SessionStates] /\ lock' \in [Uploads -> Requests \cup {Nobody}]
      BY <1>2 DEF Inv, Shapes, SessionStates
    <3> QED BY <2>4, <3>1 DEF Inv, Shapes, PCs, Clearing
  <2>6. Moves(r, t)
    BY <1>2, <2>2 DEF Moves, About, Setup, Commits
  <2>7. PlaceOK(r)'
    <3>1. sub[r] # t /\ sub[r] \in used
      BY <1>0, Place DEF NewOK
    <3>2. NewOK(r)'
      BY <1>0, <2>2, <3>1, NewKept
    <3> QED BY <1>2, <2>2, <3>1, <3>2 DEF PlaceOK, Working, Removal, Commits
  <2>8. UploadOK(r, t)'
    <3>1. Once(t)' \/ t \in kept \cup swept \cup refused
      BY <1>2, <2>1, <2>2, OnceKept DEF Commits
    <3> QED BY <1>2, <2>2, <3>1 DEF UploadOK, LockAt, OwnedAt, Removes, Live
  <2>9. damaged' = {}
    BY DEF Inv, ImportsAreIntact
  <2> QED BY <1>0, <1>2, <2>1, <2>3, <2>5, <2>6, <2>7, <2>8, <2>9, Step
<1>4. CASE /\ session[t] = "removed" /\ todo' = [todo EXCEPT ![r] = @ \ {t}]
           /\ UNCHANGED <<memVars, lock, place>>
  <2> USE <1>4 DEF memVars, place
  <2>1. Shapes'
    BY DEF Inv, Shapes
  <2>2. PlaceOK(r)'
    <3>1. PlaceOK(r)
      BY Place
    <3>2. NewOK(r)'
      BY <1>0, NewKept
    <3> QED BY <1>0, <3>1, <3>2 DEF PlaceOK, Working, Removal, Commits
  <2> QED BY <1>0, <2>1, <2>2, StepAside DEF About, Setup, Commits
<1> QED BY <1>1, <1>3, <1>4

\* A slot is taken, or refused.
LEMMA ReserveKeeps ==
  ASSUME Inv, NEW r \in Requests, Reserve(r)
  PROVE  Inv'
<1> USE DEF Reserve, diskVars, bootVars, timeVars, history
<1>0. pc[r] = "cleanup" /\ sub[r] \in Uploads /\ NewOK(r) /\ phase = "up"
  BY Place DEF Creation
<1>1. CASE End(r) /\ UNCHANGED count
  <2> USE <1>1 DEF End
  <2>1. Shapes'
    BY DEF Inv, Shapes, PCs
  <2>2. /\ pc'[r] = "idle" /\ sub'[r] = Nobody
        /\ \A q \in Requests \ {r} : pc'[q] = pc[q] /\ sub'[q] = sub[q] /\ idx'[q] = idx[q]
    BY DEF Inv, Shapes
  <2>3. PlaceOK(r)'
    BY <2>2, IdleOK
  <2> QED BY <1>0, <2>1, <2>2, <2>3, StepAside DEF About, Setup, Commits, memVars
<1>2. CASE count < Limit /\ Goto(r, "mkdir") /\ count' = count + 1
  <2> USE <1>2 DEF Goto
  <2> PICK t \in Uploads : t = sub[r]
    BY <1>0
  <2>1. Alone(r, t) /\ t \in used /\ lock[t] = Nobody /\ session[t] = "none"
    BY <1>0, SettingUpAlone DEF Creation
  <2>2. pc'[r] = "mkdir" /\ sub'[r] = sub[r]
    BY DEF Inv, Shapes
  <2>3. Shapes'
    <3>1. pc' \in [Requests -> PCs] /\ count' \in Nat
      <4>1. pc \in [Requests -> PCs] /\ count \in Nat /\ "mkdir" \in PCs
        BY DEF Inv, Shapes, PCs
      <4>2. pc' = [pc EXCEPT ![r] = "mkdir"] /\ count' = count + 1
        OBVIOUS
      <4> QED BY <4>1, <4>2
    <3> QED BY <3>1 DEF Inv, Shapes
  <2>4. PlaceOK(r)'
    <3>1. NewOK(r)'
      BY <1>0, NewKept
    <3> QED BY <2>1, <2>2, <3>1 DEF PlaceOK, Working, Removal, Commits
  <2>5. Moves(r, t)
    BY <2>1, <2>2 DEF Moves
  <2>6. UploadOK(r, t)'
    <3>1. OwnedAt(r, t)'
      <4>1. t \in dir \ kept =>
              \E q \in Requests : Removes(q, t) \/ (pc[q] = "manifest" /\ sub[q] = t)
        <5>1. DirsOK /\ unread = {} /\ t \notin Live
          BY <1>0, <2>1 DEF Inv, BootOK, Live
        <5> QED BY <5>1 DEF DirsOK
      <4>2. \A q \in Requests \ {r} : ~Removes(q, t) /\ ~(pc[q] = "manifest" /\ sub[q] = t)
        BY <2>1 DEF Alone, Removes, Removal, Creation
      <4>3. ~Removes(r, t) /\ pc[r] # "manifest"
        BY <1>0 DEF Removes, Removal
      <4> QED BY <4>1, <4>2, <4>3 DEF OwnedAt
    <3>2. bytes[t] = 0 /\ chunks[t] = 0
      BY <2>1 DEF Inv, FreshOK
    <3>3. t \notin kept \cup swept \cup refused => Once(t)'
      BY <2>1, <2>2, OnceKept DEF Commits
    <3> QED BY <2>1, <3>1, <3>2, <3>3 DEF UploadOK, LockAt, Live
  <2>7. ~Counts(r, t) /\ Counts(r, t)'
    BY <1>0, <2>1, <2>2 DEF Counts, Live, Setup
  <2>8. damaged' = {}
    BY DEF Inv, ImportsAreIntact
  <2> QED BY <1>0, <2>1, <2>3, <2>4, <2>5, <2>6, <2>7, <2>8, Step
<1> QED BY <1>1, <1>2

\* The step of a request that sets up upload t, with the slot that it has taken.
LEMMA SetupStep ==
  ASSUME Inv, NEW r \in Requests, NEW t \in Uploads, t = sub[r], pc[r] \in Setup,
         \A q \in Requests \ {r} : pc'[q] = pc[q] /\ sub'[q] = sub[q] /\ idx'[q] = idx[q],
         \A u \in Uploads \ {t} : file'[u] = file[u] /\ session'[u] = session[u],
         dir' \subseteq dir \cup {t}, kept \subseteq kept',
         UNCHANGED <<lock, bytes, chunks, bootVars, used, imports, damaged, swept, refused>>,
         \/ pc'[r] \in Setup /\ sub'[r] = t /\ session' = session /\ count' = count
         \/ /\ pc'[r] = "idle" /\ sub'[r] = Nobody
            /\ \/ session'[t] = "live" /\ count' = count
               \/ session' = session /\ count' = count - 1,
         Shapes', PlaceOK(r)',
         t \in dir' \ kept' => session'[t] = "live" \/ pc'[r] \in {"manifest", "clear new"},
         session'[t] = "live" => \A i \in Chunks : file'[t][i] = "none"
  PROVE  Inv'
<1>1. /\ Alone(r, t) /\ t \in used /\ lock[t] = Nobody /\ session[t] = "none" /\ phase = "up"
      /\ NewOK(r)
  <2>1. pc[r] \in Creation /\ pc[r] # "clear old"
    BY DEF Setup, Creation
  <2>2. NewOK(r)
    BY <2>1, Place
  <2> QED BY <2>1, <2>2, SettingUpAlone
<1>2. bytes[t] = 0 /\ chunks[t] = 0
  BY <1>1 DEF Inv, FreshOK
<1>3. Moves(r, t)
  BY DEF Moves, bootVars, About, Setup, Commits
<1>4. LockAt(r, t)'
  BY <1>1 DEF LockAt
<1>5. OwnedAt(r, t)'
  BY DEF OwnedAt, Removes, Live
<1>6. t \in Live' => Tally(t)'
  <2> SUFFICES ASSUME session'[t] = "live" PROVE Tally(t)'
    BY DEF Live
  <2>1. /\ ChunkFiles(t)' \ Writing(t)' = {} /\ Stored(t, "cut")' \ Writing(t)' = {}
        /\ Stored(t, "whole")' \ Writing(t)' = {}
    BY DEF ChunkFiles, Stored
  <2>2. bytes'[t] = 0 /\ chunks'[t] = 0 /\ Cardinality({}) = 0 /\ 0 = 0 + 2 * 0
    BY <1>2, FS_EmptySet
  <2> QED BY <2>1, <2>2 DEF Tally
<1>7. Once(t)'
  <2>1. imports'[t] = 0
    BY <1>1 DEF NewOK
  <2> QED BY <2>1, OnceNone
<1>8. UploadOK(r, t)'
  BY <1>2, <1>4, <1>5, <1>6, <1>7 DEF UploadOK
<1>9. Counts(r, t) /\ (Counts(r, t)' <=> session'[t] = "live" \/ pc'[r] \in Setup)
  BY DEF Counts, Live
<1>10. damaged' = {}
  BY DEF Inv, ImportsAreIntact
<1>11. CASE pc'[r] \in Setup
  BY <1>1, <1>3, <1>8, <1>9, <1>10, <1>11, Step DEF Setup
<1>12. CASE pc'[r] = "idle"
  <2>1. pc'[r] \notin Setup
    BY <1>12 DEF Setup
  <2> QED BY <1>1, <1>3, <1>8, <1>9, <1>10, <2>1, Step
<1> QED BY <1>11, <1>12

\* What is known of the upload that r sets up.
LEMMA NewPlace ==
  ASSUME Inv, NEW r \in Requests, pc[r] \in Setup
  PROVE  NewOK(r) /\ sub[r] \in Uploads /\ sub[r] \in used /\ session[sub[r]] = "none"
<1>1. pc[r] \in Creation /\ pc[r] # "idle"
  BY DEF Setup, Creation
<1> QED BY <1>1, Place

\* Where a request stands that sets up an upload.
LEMMA SetupPlace ==
  ASSUME NEW r \in Requests, pc'[r] \in Setup, sub'[r] \in used', NewOK(r)'
  PROVE  PlaceOK(r)'
BY DEF Setup, PlaceOK, Working, Removal, Commits

\* The directory of a new upload is made.
LEMMA MkdirKeeps ==
  ASSUME Inv, NEW r \in Requests, Mkdir(r)
  PROVE  Inv'
<1>0. pc[r] = "mkdir" /\ pc[r] \in Setup
  BY DEF Mkdir, Setup
<1> PICK t \in Uploads : t = sub[r]
  BY <1>0, NewPlace
<1>1. /\ UNCHANGED <<file, session, bytes, chunks, lock, todo, bootVars, timeVars, history>>
      /\ \/ dir' = dir \cup {t} /\ Goto(r, "manifest") /\ UNCHANGED <<count, incidents>>
         \/ Incident /\ End(r) /\ count' = count - 1 /\ UNCHANGED dir
  BY DEF Mkdir
<1> USE DEF bootVars, timeVars, history
<1>2. NewOK(r) /\ t \in used /\ session[t] = "none"
  BY <1>0, NewPlace
<1>3. \A q \in Requests \ {r} : pc'[q] = pc[q] /\ sub'[q] = sub[q] /\ idx'[q] = idx[q]
  BY <1>1 DEF Inv, Shapes, Goto, End
<1>4. CASE dir' = dir \cup {t} /\ Goto(r, "manifest") /\ UNCHANGED <<count, incidents>>
  <2>1. pc'[r] = "manifest" /\ sub'[r] = t /\ sub' = sub
    BY <1>4 DEF Goto, Inv, Shapes
  <2>2. Shapes'
    BY <1>1, <1>4 DEF Inv, Shapes, PCs, Goto
  <2>3. PlaceOK(r)'
    <3>1. NewOK(r)'
      BY <1>1, <1>2, <2>1, NewKept
    <3> QED BY <1>1, <1>2, <2>1, <3>1, SetupPlace DEF Setup
  <2>4. pc'[r] \in Setup /\ session' = session /\ count' = count
    BY <1>1, <1>4, <2>1 DEF Setup
  <2> QED BY <1>0, <1>1, <1>2, <1>3, <1>4, <2>1, <2>2, <2>3, <2>4, SetupStep
<1>5. CASE Incident /\ End(r) /\ count' = count - 1 /\ UNCHANGED dir
  <2>1. pc'[r] = "idle" /\ sub'[r] = Nobody
    BY <1>5 DEF End, Inv, Shapes
  <2>2. Shapes'
    <3>1. incidents' \in 0..MaxIncidents
      BY <1>5, IncidentBound
    <3>2. count' \in Nat
      BY <1>0, <1>5, CountPositive DEF Counts
    <3> QED BY <1>1, <1>5, <3>1, <3>2 DEF Inv, Shapes, PCs, End
  <2>3. PlaceOK(r)'
    BY <2>1, IdleOK
  <2>4. t \notin dir \ kept
    <3>1. DirsOK /\ unread = {} /\ t \notin Live /\ Alone(r, t)
      <4>1. pc[r] \in Creation \ {"clear old"}
        BY <1>0 DEF Creation
      <4> QED BY <1>2, <4>1, SettingUpAlone DEF Inv, BootOK, Live
    <3>2. \A q \in Requests \ {r} : ~Removes(q, t) /\ ~(pc[q] = "manifest" /\ sub[q] = t)
      BY <3>1 DEF Alone, Removes, Removal, Creation
    <3>3. ~Removes(r, t) /\ pc[r] # "manifest"
      BY <1>0 DEF Removes, Removal
    <3> QED BY <3>1, <3>2, <3>3 DEF DirsOK
  <2>5. session'[t] = "none" /\ t \notin dir' \ kept'
    BY <1>1, <1>2, <1>5, <2>4
  <2>6. session' = session /\ count' = count - 1
    BY <1>1, <1>5
  <2> QED BY <1>0, <1>1, <1>3, <1>5, <2>1, <2>2, <2>3, <2>5, <2>6, SetupStep
<1> QED BY <1>1, <1>4, <1>5

\* The manifest of a new upload is written.
LEMMA WriteManifestKeeps ==
  ASSUME Inv, NEW r \in Requests, WriteManifest(r)
  PROVE  Inv'
<1>0. pc[r] = "manifest" /\ pc[r] \in Setup
  BY DEF WriteManifest, Setup
<1> PICK t \in Uploads : t = sub[r]
  BY <1>0, NewPlace
<1>1. /\ UNCHANGED <<dir, memVars, lock, todo, bootVars, timeVars, history>>
      /\ \/ \E c \in {"cut", "whole"} : Put(t, "session.json", c) /\ UNCHANGED <<place, incidents>>
         \/ Incident /\ Goto(r, "clear new") /\ UNCHANGED file
  BY DEF WriteManifest
<1> USE DEF memVars, bootVars, timeVars, history, place
<1>2. NewOK(r) /\ t \in used /\ session[t] = "none"
  BY <1>0, NewPlace
<1>3. /\ file' \in [Uploads -> [Names -> Contents]]
      /\ \A n \in Names \ {"session.json"} : file'[t][n] = file[t][n]
      /\ \A u \in Uploads \ {t} : file'[u] = file[u]
  <2>1. ASSUME NEW c \in {"cut", "whole"}, Put(t, "session.json", c)
        PROVE  /\ file' \in [Uploads -> [Names -> Contents]]
               /\ \A n \in Names \ {"session.json"} : file'[t][n] = file[t][n]
               /\ \A u \in Uploads \ {t} : file'[u] = file[u]
    BY <2>1, PutFile, FileNames DEF Contents
  <2>2. CASE UNCHANGED file
    BY <2>2 DEF Inv, Shapes
  <2> QED BY <1>1, <2>1, <2>2
<1>4. /\ pc' \in [Requests -> PCs] /\ incidents' \in 0..MaxIncidents
      /\ pc'[r] \in {"manifest", "clear new"} /\ sub' = sub /\ idx' = idx
      /\ \A q \in Requests \ {r} : pc'[q] = pc[q]
  <2>1. CASE UNCHANGED <<place, incidents>>
    BY <1>0, <2>1 DEF Inv, Shapes
  <2>2. CASE Incident /\ Goto(r, "clear new")
    <3>1. incidents' \in 0..MaxIncidents
      BY <2>2, IncidentBound
    <3>2. pc \in [Requests -> PCs] /\ "clear new" \in PCs
      BY DEF Inv, Shapes, PCs, Clearing
    <3>3. pc' = [pc EXCEPT ![r] = "clear new"] /\ sub' = sub /\ idx' = idx
      BY <2>2 DEF Goto
    <3> QED BY <3>1, <3>2, <3>3
  <2> QED BY <1>1, <2>1, <2>2
<1>5. Shapes'
  BY <1>1, <1>3, <1>4 DEF Inv, Shapes
<1>6. PlaceOK(r)'
  <2>1. NewOK(r)'
    BY <1>1, <1>2, <1>3, <1>4, FileNames, NewKept
  <2> QED BY <1>1, <1>2, <1>4, <2>1, SetupPlace DEF Setup
<1>7. pc'[r] \in Setup /\ sub'[r] = t /\ session' = session /\ count' = count
  BY <1>1, <1>4 DEF Setup
<1> QED BY <1>0, <1>1, <1>2, <1>3, <1>4, <1>5, <1>6, <1>7, SetupStep

\* The session of a new upload is registered.
LEMMA RegisterKeeps ==
  ASSUME Inv, NEW r \in Requests, Register(r)
  PROVE  Inv'
<1>0. pc[r] = "manifest" /\ pc[r] \in Setup
  BY DEF Register, Setup
<1> PICK t \in Uploads : t = sub[r]
  BY <1>0, NewPlace
<1> USE DEF Register, End, diskVars, bootVars, timeVars, history
<1>1. NewOK(r) /\ t \in used
  BY <1>0, NewPlace
<1>2. /\ pc'[r] = "idle" /\ sub'[r] = Nobody /\ session'[t] = "live"
      /\ \A q \in Requests \ {r} : pc'[q] = pc[q] /\ sub'[q] = sub[q] /\ idx'[q] = idx[q]
      /\ \A u \in Uploads \ {t} : session'[u] = session[u]
  BY DEF Inv, Shapes
<1>3. Shapes'
  BY DEF Inv, Shapes, PCs, SessionStates
<1>4. PlaceOK(r)'
  BY <1>2, IdleOK
<1>5. \A i \in Chunks : file'[t][i] = "none"
  BY <1>1 DEF NewOK
<1>6. count' = count /\ dir' = dir /\ file' = file /\ kept' = kept
  OBVIOUS
<1> QED BY <1>0, <1>2, <1>3, <1>4, <1>5, <1>6, SetupStep

\* A mutex that was awaited.
LEMMA LockSessionKeeps ==
  ASSUME Inv, NEW r \in Requests, LockSession(r)
  PROVE  Inv'
<1> USE DEF diskVars, bootVars, timeVars, history
<1>0. /\ pc[r] \in {"lock chunk", "lock commit"} /\ sub[r] \in Uploads /\ phase = "up"
      /\ pc[r] = "lock chunk" => idx[r] \in Chunks
  BY Place DEF LockSession, Locked, PlaceOK
<1> PICK t \in Uploads : t = sub[r]
  BY <1>0
<1>1. /\ lock[t] = Nobody
      /\ \/ session[t] = "removed" /\ End(r) /\ UNCHANGED <<memVars, lock>>
         \/ /\ session[t] = "live" /\ lock' = [lock EXCEPT ![t] = r]
            /\ Forget(t) /\ Goto(r, "clear expired")
         \/ /\ session[t] = "live" /\ lock' = [lock EXCEPT ![t] = r]
            /\ Goto(r, IF pc[r] = "lock chunk" THEN "chunk" ELSE "mark")
            /\ UNCHANGED memVars
      /\ UNCHANGED <<diskVars, todo, bootVars, timeVars, incidents, history>>
  BY DEF LockSession, Locked
<1>2. damaged' = {}
  BY <1>1 DEF Inv, ImportsAreIntact
<1>3. CASE session[t] = "removed" /\ End(r) /\ UNCHANGED <<memVars, lock>>
  <2>1. Shapes'
    BY <1>1, <1>3 DEF Inv, Shapes, PCs, End, memVars
  <2>2. /\ pc'[r] = "idle" /\ sub'[r] = Nobody
        /\ \A q \in Requests \ {r} : pc'[q] = pc[q] /\ sub'[q] = sub[q] /\ idx'[q] = idx[q]
    BY <1>3 DEF Inv, Shapes, End
  <2>3. PlaceOK(r)'
    BY <2>2, IdleOK
  <2> QED BY <1>0, <1>1, <1>3, <2>1, <2>2, <2>3, StepAside DEF About, Setup, Commits
<1>4. CASE /\ session[t] = "live" /\ lock' = [lock EXCEPT ![t] = r]
           /\ Forget(t) /\ Goto(r, "clear expired")
  <2> USE <1>4 DEF Forget, Goto
  <2>1. Alone(r, t) /\ t \in used
    BY <1>0, <1>1, FreeAlone
  <2>2. /\ pc'[r] = "clear expired" /\ sub'[r] = t /\ lock'[t] = r /\ session'[t] = "removed"
        /\ \A q \in Requests \ {r} : pc'[q] = pc[q] /\ sub'[q] = sub[q] /\ idx'[q] = idx[q]
        /\ \A u \in Uploads \ {t} : session'[u] = session[u] /\ lock'[u] = lock[u]
    BY DEF Inv, Shapes
  <2>3. Counts(r, t) /\ ~Counts(r, t)' /\ count' = count - 1
    BY <2>2 DEF Counts, Live, Setup
  <2>4. count - 1 \in Nat
    BY <2>3, CountPositive
  <2>5. Shapes'
    <3>1. session' \in [Uploads -> SessionStates] /\ lock' \in [Uploads -> Requests \cup {Nobody}]
      BY DEF Inv, Shapes, SessionStates
    <3> QED BY <1>1, <2>4, <3>1 DEF Inv, Shapes, PCs, Clearing
  <2>6. Moves(r, t)
    BY <1>1, <2>2 DEF Moves, About, Setup, Commits
  <2>7. PlaceOK(r)'
    BY <1>1, <2>1, <2>2 DEF PlaceOK, Working, Removal, Commits, Creation
  <2>8. UploadOK(r, t)'
    <3>1. t \notin kept \cup swept \cup refused => Once(t)'
      BY <1>1, <2>1, <2>2, OnceKept DEF Commits
    <3> QED BY <1>1, <2>2, <3>1 DEF UploadOK, LockAt, OwnedAt, Removes, Removal, Live
  <2> QED BY <1>0, <1>2, <2>1, <2>3, <2>5, <2>6, <2>7, <2>8, Step
<1>5. CASE /\ session[t] = "live" /\ lock' = [lock EXCEPT ![t] = r]
           /\ Goto(r, IF pc[r] = "lock chunk" THEN "chunk" ELSE "mark")
           /\ UNCHANGED memVars
  <2> USE <1>5 DEF Goto, memVars
  <2>1. Alone(r, t) /\ t \in used
    BY <1>0, <1>1, FreeAlone
  <2>2. /\ pc'[r] \in {"chunk", "mark"} /\ sub'[r] = t /\ lock'[t] = r
        /\ pc'[r] = "chunk" => idx'[r] \in Chunks
        /\ \A q \in Requests \ {r} : pc'[q] = pc[q] /\ sub'[q] = sub[q] /\ idx'[q] = idx[q]
        /\ \A u \in Uploads \ {t} : lock'[u] = lock[u]
    BY <1>0 DEF Inv, Shapes
  <2>3. (Counts(r, t)' <=> Counts(r, t)) /\ count' = count
    BY DEF Counts, Live
  <2>4. Shapes'
    <3>1. lock' \in [Uploads -> Requests \cup {Nobody}]
      BY DEF Inv, Shapes
    <3> QED BY <1>1, <3>1 DEF Inv, Shapes, PCs
  <2>5. Moves(r, t)
    BY <1>1, <2>2 DEF Moves, About, Setup, Commits
  <2>6. PlaceOK(r)'
    BY <1>1, <2>1, <2>2 DEF PlaceOK, Working, Removal, Commits, Creation
  <2>7. UploadOK(r, t)'
    <3>1. t \notin kept \cup swept \cup refused => Once(t)'
      BY <1>1, <2>1, <2>2, OnceKept DEF Commits
    <3>2. t \notin kept \cup swept => Tally(t)'
      BY <1>0, <1>1, <2>1, <2>2, TallyKept DEF Live
    <3> QED BY <1>1, <2>2, <3>1, <3>2 DEF UploadOK, LockAt, OwnedAt, Working, Live
  <2> QED BY <1>0, <1>2, <2>1, <2>3, <2>4, <2>5, <2>6, <2>7, Step
<1> QED BY <1>1, <1>3, <1>4, <1>5

-----------------------------------------------------------------------------
(* The removal of a session and of its directory.                          *)

\* After an import the session leaves the map.
LEMMA CommitRemoveKeeps ==
  ASSUME Inv, NEW r \in Requests, CommitRemove(r)
  PROVE  Inv'
<1> USE DEF CommitRemove, Forget, Goto, diskVars, bootVars, timeVars, history
<1> PICK t \in Uploads : t = sub[r]
  BY Place
<1>1. /\ pc[r] = "remove" /\ Alone(r, t) /\ lock[t] = r /\ t \in used /\ phase = "up"
      /\ session[t] = "live"
  BY AtWork, Place DEF Working
<1>2. /\ pc'[r] = "clear done" /\ sub'[r] = t /\ session'[t] = "removed"
      /\ \A q \in Requests \ {r} : pc'[q] = pc[q] /\ sub'[q] = sub[q] /\ idx'[q] = idx[q]
      /\ \A u \in Uploads \ {t} : session'[u] = session[u]
  BY DEF Inv, Shapes
<1>3. Counts(r, t) /\ ~Counts(r, t)' /\ count' = count - 1
  BY <1>1, <1>2 DEF Counts, Live, Setup
<1>4. count - 1 \in Nat
  BY <1>3, CountPositive
<1>5. Shapes'
  <2>1. session' \in [Uploads -> SessionStates]
    BY DEF Inv, Shapes, SessionStates
  <2> QED BY <1>4, <2>1 DEF Inv, Shapes, PCs, Clearing
<1>6. Moves(r, t)
  BY <1>2 DEF Moves, About, Setup, Commits
<1>7. PlaceOK(r)'
  BY <1>1, <1>2 DEF PlaceOK, Working, Removal, Commits, Creation
<1>8. UploadOK(r, t)'
  <2>1. t \notin kept \cup swept \cup refused => Once(t)'
    BY <1>1, <1>2, OnceKept DEF Commits
  <2> QED BY <1>1, <1>2, <2>1 DEF UploadOK, LockAt, OwnedAt, Removes, Removal, Live
<1>9. damaged' = {}
  BY DEF Inv, ImportsAreIntact
<1> QED BY <1>1, <1>3, <1>5, <1>6, <1>7, <1>8, <1>9, Step

\* The upload whose directory r is deleting.
LEMMA TargetIs ==
  ASSUME Inv, NEW r \in Requests, pc[r] \in Clearing
  PROVE  \E t \in Uploads :
           /\ Target(r) = t /\ Removes(r, t) /\ Alone(r, t) /\ t \in used /\ phase = "up"
           /\ session[t] # "live"
           /\ pc[r] = "clear new" => lock[t] = Nobody /\ sub[r] = t /\ session[t] = "none"
           /\ pc[r] # "clear new" => lock[t] = r /\ session[t] = "removed"
           /\ pc[r] = "clear old" => sub[r] # t
<1>1. CASE pc[r] = "clear new"
  <2> PICK t \in Uploads : t = sub[r]
    BY <1>1, NewPlace DEF Setup
  <2>1. lock[t] = Nobody /\ Alone(r, t) /\ t \in used /\ phase = "up" /\ session[t] = "none"
    BY <1>1, SettingUpAlone DEF Creation
  <2>2. Target(r) = t
    BY <1>1 DEF Target
  <2> QED BY <1>1, <2>1, <2>2 DEF Removes
<1>2. CASE pc[r] # "clear new"
  <2>1. \E u \in Uploads :
          lock[u] = r /\ session[u] = "removed" /\ (pc[r] # "clear old" => u = sub[r])
    <3>1. CASE pc[r] = "clear old"
      <4>1. PlaceOK(r)
        BY Place
      <4> QED BY <3>1, <4>1 DEF PlaceOK
    <3>2. CASE pc[r] # "clear old"
      <4>1. pc[r] \in Removal /\ pc[r] # "idle"
        BY <1>2, <3>2 DEF Clearing, Removal
      <4>2. sub[r] \in Uploads /\ lock[sub[r]] = r /\ session[sub[r]] = "removed"
        BY <4>1, Place
      <4> QED BY <3>2, <4>2
    <3> QED BY <3>1, <3>2
  <2> PICK t \in Uploads :
         lock[t] = r /\ session[t] = "removed" /\ (pc[r] # "clear old" => t = sub[r])
    BY <2>1
  <2>2. \A u \in Uploads : lock[u] = r => u = t
    BY Held
  <2>3. Target(r) = CHOOSE u \in Uploads : lock[u] = r
    BY <1>2 DEF Target
  <2>4. Target(r) = t
    BY <2>2, <2>3
  <2>5. Alone(r, t) /\ t \in used /\ phase = "up" /\ (pc[r] = "clear old" => sub[r] # t)
    <3>1. CASE pc[r] = "clear old"
      BY <3>1, FoundAlone
    <3>2. CASE pc[r] # "clear old"
      <4>1. pc[r] \in Removal
        BY <1>2, <3>2 DEF Clearing, Removal
      <4> QED BY <3>2, <4>1, AtWork
    <3> QED BY <3>1, <3>2
  <2>6. Removes(r, t)
    BY <1>2, <2>5 DEF Removes, Removal, Clearing
  <2> QED BY <1>2, <2>4, <2>5, <2>6
<1> QED BY <1>1, <1>2

\* What follows the removal of the files of t, of which either nothing is left or what is
\* kept.
LEMMA ClearStep ==
  ASSUME Inv, NEW r \in Requests, NEW t \in Uploads, pc[r] \in Clearing, Target(r) = t,
         ClearEnds(r), UNCHANGED <<bootVars, timeVars, imports, damaged, swept, refused>>,
         dir' \subseteq dir, kept \subseteq kept', kept' \subseteq Uploads,
         incidents' \in 0..MaxIncidents,
         file' \in [Uploads -> [Names -> Contents]],
         \A u \in Uploads \ {t} : file'[u] = file[u],
         t \in dir' => t \in kept'
  PROVE  Inv'
<1> USE DEF bootVars, timeVars
<1>1. /\ Alone(r, t) /\ t \in used /\ phase = "up" /\ session[t] # "live"
      /\ pc[r] = "clear new" => lock[t] = Nobody /\ sub[r] = t /\ session[t] = "none"
      /\ pc[r] # "clear new" => lock[t] = r /\ session[t] = "removed"
      /\ pc[r] = "clear old" => sub[r] # t
  BY TargetIs
<1>2. session' = session /\ bytes' = bytes /\ chunks' = chunks
  BY DEF ClearEnds
<1>3. IF pc[r] = "clear old"
      THEN pc'[r] = "cleanup" /\ sub' = sub /\ idx' = idx /\ pc' = [pc EXCEPT ![r] = "cleanup"]
      ELSE End(r)
  BY DEF ClearEnds, Goto, Inv, Shapes
<1>4. /\ \A q \in Requests \ {r} : pc'[q] = pc[q] /\ sub'[q] = sub[q] /\ idx'[q] = idx[q]
      /\ pc[r] # "clear old" => pc'[r] = "idle" /\ sub'[r] = Nobody
      /\ pc[r] = "clear old" => pc'[r] = "cleanup" /\ sub'[r] = sub[r]
      /\ pc' \in [Requests -> PCs] /\ sub' \in [Requests -> Uploads \cup {Nobody}]
      /\ idx' \in [Requests -> Chunks \cup {Nobody}]
  <2>1. CASE pc[r] = "clear old"
    BY <1>3, <2>1 DEF Inv, Shapes, PCs
  <2>2. CASE pc[r] # "clear old"
    BY <1>3, <2>2 DEF Inv, Shapes, PCs, End
  <2> QED BY <2>1, <2>2
<1>5. /\ lock' \in [Uploads -> Requests \cup {Nobody}] /\ lock'[t] = Nobody
      /\ \A u \in Uploads \ {t} : lock'[u] = lock[u]
  <2>1. CASE pc[r] = "clear new"
    BY <1>1, <2>1 DEF ClearEnds, Inv, Shapes
  <2>2. CASE pc[r] # "clear new"
    BY <2>2 DEF ClearEnds, Unlock, Inv, Shapes
  <2> QED BY <2>1, <2>2
<1>6. todo' \in [Requests -> SUBSET Uploads]
  <2>1. todo \in [Requests -> SUBSET Uploads]
    BY DEF Inv, Shapes
  <2>2. CASE pc[r] = "clear old"
    BY <2>1, <2>2 DEF ClearEnds
  <2>3. CASE pc[r] # "clear old"
    BY <2>1, <2>3 DEF ClearEnds
  <2> QED BY <2>2, <2>3
<1>7. /\ Counts(r, t) <=> pc[r] = "clear new"
      /\ ~Counts(r, t)'
      /\ count' = IF pc[r] = "clear new" THEN count - 1 ELSE count
  <2>1. Counts(r, t) <=> pc[r] = "clear new"
    BY <1>1 DEF Counts, Live, Clearing, Setup
  <2>2. ~Counts(r, t)'
    BY <1>1, <1>2, <1>4 DEF Counts, Live, Setup
  <2> QED BY <2>1, <2>2 DEF ClearEnds
<1>8. count' \in Nat
  BY <1>7, CountPositive DEF Inv, Shapes
<1>9. Shapes'
  BY <1>2, <1>4, <1>5, <1>6, <1>8 DEF Inv, Shapes
<1>10. Moves(r, t)
  BY <1>2, <1>4, <1>5 DEF Moves, About, Setup, Commits
<1>11. PlaceOK(r)'
  <2>1. CASE pc[r] = "clear old"
    <3>1. NewOK(r) /\ sub[r] \in Uploads /\ sub[r] \in used /\ pc[r] \in Creation
      BY <2>1, Place DEF Creation
    <3>2. NewOK(r)'
      BY <1>1, <1>2, <1>4, <2>1, <3>1, NewKept
    <3> QED BY <1>4, <2>1, <3>1, <3>2 DEF PlaceOK, Working, Removal, Commits
  <2>2. CASE pc[r] # "clear old"
    BY <1>4, <2>2, IdleOK
  <2> QED BY <2>1, <2>2
<1>12. UploadOK(r, t)'
  <2>1. t \notin kept' \cup swept \cup refused => Once(t)'
    <3> SUFFICES ASSUME t \notin kept' \cup swept \cup refused PROVE Once(t)'
      OBVIOUS
    <3>1. Once(t)
      BY DEF Inv, OnceOK
    <3>2. \A q \in Requests : sub'[q] = t => pc'[q] \notin Commits
      BY <1>1, <1>4 DEF Alone, Working, Commits
    <3> QED BY <3>1, <3>2 DEF Once
  <2>2. session'[t] = "none" => bytes'[t] = 0 /\ chunks'[t] = 0
    BY <1>2 DEF Inv, FreshOK
  <2> QED BY <1>1, <1>2, <1>5, <2>1, <2>2 DEF UploadOK, LockAt, OwnedAt, Live
<1>13. damaged' = {}
  BY DEF Inv, ImportsAreIntact
<1> QED BY <1>1, <1>7, <1>9, <1>10, <1>11, <1>12, <1>13, Step

\* Files of the uploads U that go, and nothing else.
LEMMA WithoutFiles ==
  ASSUME Inv, NEW U \in SUBSET Uploads, NEW gone \in SUBSET (U \X Names), Without(gone)
  PROVE  /\ file' \in [Uploads -> [Names -> Contents]]
         /\ \A u \in Uploads \ U : file'[u] = file[u]
         /\ \A u \in Uploads, n \in Names : file'[u][n] \in {file[u][n], "none"}
<1>1. file \in [Uploads -> [Names -> Contents]] /\ "none" \in Contents
  BY DEF Inv, Shapes, Contents
<1>2. file' = [u \in Uploads |-> [n \in Names |-> IF <<u, n>> \in gone THEN "none" ELSE file[u][n]]]
  BY DEF Without
<1>3. ASSUME NEW u \in Uploads \ U PROVE file'[u] = file[u]
  <2>1. file'[u] = [n \in Names |-> file[u][n]]
    BY <1>2
  <2> QED BY <1>1, <2>1
<1>4. \A u \in Uploads, n \in Names : file'[u][n] \in {file[u][n], "none"}
  BY <1>2
<1>5. file' \in [Uploads -> [Names -> Contents]]
  BY <1>1, <1>2
<1> QED BY <1>3, <1>4, <1>5

\* A directory is deleted, whole or in part.
LEMMA ClearKeeps ==
  ASSUME Inv, NEW r \in Requests, Clear(r)
  PROVE  Inv'
<1>0. pc[r] \in Clearing
  BY DEF Clear, ClearDone, ClearFails
<1> PICK t \in Uploads : Target(r) = t
  BY <1>0, TargetIs
<1>1. CASE ClearDone(r)
  <2>1. {t} \X Names \in SUBSET ({t} \X Names) /\ {t} \in SUBSET Uploads /\ Without({t} \X Names)
    BY <1>1 DEF ClearDone, RemoveAll
  <2>2. file' \in [Uploads -> [Names -> Contents]] /\ \A u \in Uploads \ {t} : file'[u] = file[u]
    BY <2>1, WithoutFiles
  <2>3. dir' = dir \ {t}
    BY <1>1 DEF ClearDone, RemoveAll
  <2>4. /\ ClearEnds(r) /\ UNCHANGED <<bootVars, timeVars, imports, damaged, swept, refused>>
        /\ kept' = kept /\ incidents' = incidents
    BY <1>1 DEF ClearDone, history
  <2>5. kept' \subseteq Uploads /\ incidents' \in 0..MaxIncidents
    BY <2>4 DEF Inv, Shapes
  <2> QED BY <1>0, <2>2, <2>3, <2>4, <2>5, ClearStep
<1>2. CASE ClearFails(r)
  <2>1. RemovePart({t})
    BY <1>2 DEF ClearFails
  <2> PICK gone \in SUBSET ({t} \X Names) : Without(gone)
    BY <2>1 DEF RemovePart
  <2>2. file' \in [Uploads -> [Names -> Contents]] /\ \A u \in Uploads \ {t} : file'[u] = file[u]
    BY WithoutFiles
  <2>3. dir' = dir
    BY <2>1 DEF RemovePart
  <2>4. /\ ClearEnds(r) /\ UNCHANGED <<bootVars, timeVars, imports, damaged, swept, refused>>
        /\ kept' = kept \cup {t} /\ incidents' \in 0..MaxIncidents
    BY <1>2, IncidentBound DEF ClearFails
  <2>5. kept' \subseteq Uploads
    BY <2>4 DEF Inv, Shapes
  <2> QED BY <1>0, <2>2, <2>3, <2>4, <2>5, ClearStep
<1> QED BY <1>1, <1>2 DEF Clear

-----------------------------------------------------------------------------
(* Recovery, the cleanup task, time, and the end of the process.           *)

\* A step that no request takes, and that deletes at most files of uploads the task has
\* taken.
LEMMA Aside ==
  ASSUME Inv, Shapes', BootOK', VictimOK', dir' \subseteq dir, swept \subseteq swept',
         UNCHANGED <<memVars, lock, place, unread, used, imports, damaged, kept, refused>>,
         \A u \in Uploads \ swept : file'[u] = file[u],
         \A u \in Uploads, n \in Names : file'[u][n] \in {file[u][n], "none"}
  PROVE  Inv'
<1> USE DEF memVars, place
<1>1. PlacesOK'
  <2> SUFFICES ASSUME NEW r \in Requests PROVE PlaceOK(r)'
    BY DEF PlacesOK
  <2>1. PlaceOK(r)
    BY Place
  <2>2. pc[r] = "idle" => PlaceOK(r)'
    BY <2>1, IdleOK DEF PlaceOK
  <2>3. CASE pc[r] # "idle"
    <3> PICK t \in Uploads : t = sub[r]
      BY <2>3, Place
    <3>1. t \notin swept' => file'[t] = file[t]
      OBVIOUS
    <3>2. \A n \in Names : file'[t][n] \in {file[t][n], "none"}
      OBVIOUS
    <3>3. pc[r] \in Creation => NewOK(r)'
      <4> SUFFICES ASSUME pc[r] \in Creation PROVE NewOK(r)'
        OBVIOUS
      <4>1. NewOK(r)
        BY <2>1 DEF PlaceOK
      <4>2. \A n \in Chunks : file[t][n] = "none" => file'[t][n] = "none"
        BY <3>2, FileNames
      <4> QED BY <4>1, <4>2 DEF NewOK
    <3>4. pc[r] = "copy" => Room(sub[r])'
      BY <2>1 DEF PlaceOK, Room, TotalBytes
    <3>5. pc[r] = "copy" /\ t \notin swept' => file'[t][idx[r]] # "none"
      BY <2>1, <3>1 DEF PlaceOK
    <3>6. pc[r] \in Commits \cup {"remove"} /\ t \notin swept' => file'[t][".committing"] # "none"
      BY <2>1, <3>1 DEF PlaceOK
    <3>7. pc[r] \in {"merge", "fill"} => \A i \in Chunks : file'[t][i] \in {"none", "whole"}
      BY <2>1, <3>2, FileNames DEF PlaceOK
    <3>8. /\ pc[r] = "fill" => file'[t]["merged_file"] \in {"none", "cut"}
          /\ pc[r] = "import" => file'[t]["merged_file"] \in {"none", "whole"}
      BY <2>1, <3>2, FileNames DEF PlaceOK
    <3>9. /\ IF pc[r] = "idle" THEN sub[r] = Nobody ELSE sub[r] \in used
          /\ pc[r] \in {"lock chunk", "chunk", "copy"} => idx[r] \in Chunks
          /\ pc[r] \in Working => lock[sub[r]] = r /\ session[sub[r]] = "live"
          /\ pc[r] \in Removal => lock[sub[r]] = r /\ session[sub[r]] = "removed"
          /\ pc[r] = "clear old" => \E u \in Uploads : lock[u] = r /\ session[u] = "removed"
      BY <2>1 DEF PlaceOK
    <3> QED BY <3>3, <3>4, <3>5, <3>6, <3>7, <3>8, <3>9 DEF PlaceOK
  <2> QED BY <2>2, <2>3
<1>2. LocksOK'
  BY DEF Inv, LocksOK
<1>3. FreshOK'
  <2>1. FreshOK
    BY DEF Inv
  <2> QED BY <2>1 DEF FreshOK
<1>4. Live' = Live /\ SettingUp' = SettingUp /\ Counted' = Counted
  BY DEF Live, SettingUp, Counted
<1>5. SlotsOK' /\ RoomOK'
  BY <1>4 DEF Inv, SlotsOK, RoomOK
<1>6. DirsOK'
  <2>1. DirsOK
    BY DEF Inv
  <2>2. \A r \in Requests, u \in Uploads : Removes(r, u)' <=> Removes(r, u)
    BY DEF Removes
  <2>3. dir' \subseteq Uploads
    BY DEF Shapes
  <2> QED BY <1>4, <2>1, <2>2, <2>3 DEF DirsOK
<1>7. TalliesOK'
  <2> SUFFICES ASSUME NEW u \in Live' \ (swept' \cup kept') PROVE Tally(u)'
    BY DEF TalliesOK
  <2>1. u \in Uploads /\ file'[u] = file[u] /\ Tally(u)
    BY <1>4 DEF Inv, TalliesOK, Live
  <2>2. Writing(u)' = Writing(u)
    BY DEF Writing
  <2>3. /\ Stored(u, "cut")' = Stored(u, "cut") /\ Stored(u, "whole")' = Stored(u, "whole")
        /\ ChunkFiles(u)' = ChunkFiles(u)
    BY <2>1 DEF Stored, ChunkFiles
  <2> QED BY <2>1, <2>2, <2>3 DEF Tally
<1>8. OnceOK'
  <2> SUFFICES ASSUME NEW u \in Uploads \ (kept' \cup swept' \cup refused') PROVE Once(u)'
    BY DEF OnceOK
  <2>1. Once(u) /\ file'[u] = file[u]
    BY DEF Inv, OnceOK
  <2> QED BY <2>1 DEF Once
<1>9. ImportsAreIntact'
  BY DEF Inv, ImportsAreIntact
<1> QED BY <1>1, <1>2, <1>3, <1>5, <1>6, <1>7, <1>8, <1>9 DEF Inv

\* Recovery is over, and the service is up.
LEMMA ServeKeeps ==
  ASSUME Inv, Serve PROVE Inv'
<1> USE DEF Serve, diskVars, reqVars, timeVars, history
<1>1. Shapes'
  BY DEF Inv, Shapes, memVars, place
<1>2. BootOK' /\ VictimOK'
  BY DEF Inv, BootOK, VictimOK
<1>3. \A u \in Uploads, n \in Names : file'[u][n] \in {file[u][n], "none"}
  OBVIOUS
<1> QED BY <1>1, <1>2, <1>3, Aside

\* The cleanup task picks a directory.
LEMMA CleanOrphanUploadsKeeps ==
  ASSUME Inv, CleanOrphanUploads PROVE Inv'
<1> USE DEF CleanOrphanUploads, diskVars, reqVars, timeVars, history
<1> PICK u \in dir : victim' = u /\ swept' = swept \cup {u}
  OBVIOUS
<1>1. u \in Uploads /\ incidents' \in 0..MaxIncidents
  BY IncidentBound DEF Inv, Shapes
<1>2. Shapes'
  BY <1>1 DEF Inv, Shapes, memVars, place
<1>3. BootOK' /\ VictimOK'
  BY DEF Inv, BootOK, VictimOK, memVars, place
<1>4. \A v \in Uploads, n \in Names : file'[v][n] \in {file[v][n], "none"}
  OBVIOUS
<1> QED BY <1>2, <1>3, <1>4, Aside

\* The cleanup task deletes the directory it has picked.
LEMMA SweepKeeps ==
  ASSUME Inv, SweepFile \/ SweepDone PROVE Inv'
<1> USE DEF reqVars, bootVars, timeVars, history
<1>0. victim \in Uploads /\ victim \in swept /\ phase = "up"
  BY DEF SweepFile, SweepDone, Inv, Shapes, VictimOK, BootOK
<1>1. CASE SweepFile
  <2> USE <1>1 DEF SweepFile
  <2> PICK t \in Uploads : t = victim
    BY <1>0
  <2> PICK n \in Names : Put(t, n, "none")
    OBVIOUS
  <2>1. /\ file' \in [Uploads -> [Names -> Contents]] /\ file'[t][n] = "none"
        /\ \A m \in Names \ {n} : file'[t][m] = file[t][m]
        /\ \A u \in Uploads \ {t} : file'[u] = file[u]
    BY PutFile DEF Contents
  <2>2. Shapes'
    BY <2>1 DEF Inv, Shapes, memVars, place
  <2>3. BootOK' /\ VictimOK'
    BY <1>0 DEF Inv, BootOK, VictimOK, memVars, place
  <2>4. \A u \in Uploads, m \in Names : file'[u][m] \in {file[u][m], "none"}
    BY <2>1
  <2> QED BY <1>0, <2>1, <2>2, <2>3, <2>4, Aside
<1>2. CASE SweepDone
  <2> USE <1>2 DEF SweepDone
  <2>1. Shapes'
    BY DEF Inv, Shapes, memVars, place
  <2>2. BootOK' /\ VictimOK'
    BY <1>0 DEF Inv, BootOK, VictimOK, memVars, place
  <2>3. \A u \in Uploads, m \in Names : file'[u][m] \in {file[u][m], "none"}
    OBVIOUS
  <2>4. dir' \subseteq dir
    OBVIOUS
  <2> QED BY <2>1, <2>2, <2>3, <2>4, Aside
<1> QED BY <1>1, <1>2

\* A session expires.
LEMMA ExpireKeeps ==
  ASSUME Inv, Expire PROVE Inv'
<1> USE DEF Expire, diskVars, reqVars, bootVars, history
<1>1. Shapes'
  BY DEF Inv, Shapes, memVars, place
<1>2. BootOK' /\ VictimOK'
  BY DEF Inv, BootOK, VictimOK, memVars, place
<1>3. \A u \in Uploads, n \in Names : file'[u][n] \in {file[u][n], "none"}
  OBVIOUS
<1> QED BY <1>1, <1>2, <1>3, Aside

\* With every request idle, only recovery has something to do.
LEMMA Idle ==
  ASSUME \A r \in Requests : pc'[r] = "idle" /\ sub'[r] = Nobody,
         \A u \in Uploads : lock'[u] = Nobody
  PROVE  /\ PlacesOK' /\ LocksOK' /\ Counted' = Live'
         /\ \A u \in Uploads : Writing(u)' = {}
         /\ \A u \in Uploads : (\A r \in Requests : sub'[r] = u => pc'[r] \notin Commits)
<1>1. PlacesOK'
  BY IdleOK DEF PlacesOK
<1>2. LocksOK'
  BY DEF LocksOK
<1>3. SettingUp' = {}
  BY DEF SettingUp
<1>4. Counted' = Live'
  BY <1>3 DEF Counted
<1>5. ASSUME NEW u \in Uploads PROVE Writing(u)' = {}
  BY DEF Writing
<1>6. "idle" \notin Commits
  BY DEF Commits
<1> QED BY <1>1, <1>2, <1>4, <1>5, <1>6

\* While recovery runs, there are no requests.
LEMMA BootIdle ==
  ASSUME Inv, phase = "boot"
  PROVE  /\ \A r \in Requests : pc[r] = "idle" /\ sub[r] = Nobody
         /\ \A u \in Uploads : lock[u] = Nobody /\ Writing(u) = {}
         /\ Counted = Live /\ victim = Nobody
         /\ \A u \in dir \ kept : u \in Live \cup unread
<1>1. victim = Nobody /\ \A r \in Requests : pc[r] = "idle"
  BY DEF Inv, BootOK
<1>2. \A r \in Requests : sub[r] = Nobody
  <2> TAKE r \in Requests
  <2>1. PlaceOK(r)
    BY Place
  <2> QED BY <1>1, <2>1 DEF PlaceOK
<1>3. \A u \in Uploads : lock[u] = Nobody
  BY Known
<1>4. SettingUp = {}
  BY <1>1 DEF SettingUp
<1>5. Counted = Live
  BY <1>4 DEF Counted
<1>6. \A u \in Uploads : Writing(u) = {}
  BY <1>1 DEF Writing
<1>7. \A u \in dir \ kept : u \in Live \cup unread
  BY <1>1 DEF Inv, DirsOK, Removes, Removal
<1> QED BY <1>1, <1>2, <1>3, <1>5, <1>6, <1>7

\* What a directory can hold is within what a session may count.
LEMMA DiskBounds ==
  ASSUME Inv, NEW u \in Uploads
  PROVE  /\ BytesOnDisk(u) \in 0..TotalBytes
         /\ Cardinality(ChunkFiles(u)) \in 0..Cardinality(Chunks)
<1> DEFINE C == Stored(u, "cut")
           W == Stored(u, "whole")
<1>1. C \in SUBSET Chunks /\ W \in SUBSET Chunks /\ C \cap W = {} /\ C \cup W \in SUBSET Chunks
  BY DEF Stored
<1>2. Cardinality(ChunkFiles(u)) \in 0..Cardinality(Chunks)
  BY Sizes DEF ChunkFiles
<1>3. BytesOnDisk(u) = Cardinality(C) + 2 * Cardinality(W)
  BY DEF BytesOnDisk
<1> HIDE DEF C, W
<1>4. /\ IsFiniteSet(C) /\ IsFiniteSet(W)
      /\ Cardinality(C) \in 0..Cardinality(Chunks) /\ Cardinality(W) \in 0..Cardinality(Chunks)
      /\ Cardinality(C \cup W) \in 0..Cardinality(Chunks) /\ Cardinality(Chunks) \in Nat
  BY <1>1, Sizes
<1>5. Cardinality(C \cup W) = Cardinality(C) + Cardinality(W)
  <2>1. Cardinality(C \cup W) = Cardinality(C) + Cardinality(W) - Cardinality(C \cap W)
    BY <1>4, FS_Union
  <2>2. Cardinality(C \cap W) = 0
    BY <1>1, FS_EmptySet
  <2> QED BY <1>4, <2>1, <2>2
<1>6. TotalBytes = 2 * Cardinality(Chunks)
  BY DEF TotalBytes
<1>7. BytesOnDisk(u) \in 0..TotalBytes
  BY <1>3, <1>4, <1>5, <1>6
<1> QED BY <1>2, <1>7

\* A directory is recovered at the start of the process.
LEMMA RecoverKeeps ==
  ASSUME Inv, NEW u \in Uploads, Recover(u)
  PROVE  Inv'
<1>1. /\ phase = "boot" /\ u \in unread /\ unread' = unread \ {u}
      /\ RecoverSession(u) \/ RecoverRemoves(u)
      /\ pc' = pc /\ sub' = sub /\ idx' = idx /\ todo' = todo
      /\ UNCHANGED <<lock, phase, victim, expired, used, imports, damaged, swept, refused>>
  BY DEF Recover, reqVars, place, timeVars
<1>2. session[u] = "none" /\ u \in used /\ FreshOK /\ BootOK /\ unread \subseteq Uploads
  BY <1>1 DEF Inv, BootOK, Shapes
<1>3. /\ \A r \in Requests : pc[r] = "idle" /\ sub[r] = Nobody
      /\ \A t \in Uploads : lock[t] = Nobody /\ Writing(t) = {}
      /\ Counted = Live /\ victim = Nobody
      /\ \A t \in dir \ kept : t \in Live \cup unread
  BY <1>1, BootIdle
<1>4. /\ PlacesOK' /\ LocksOK' /\ Counted' = Live'
      /\ \A t \in Uploads : Writing(t)' = {}
      /\ \A t \in Uploads : (\A r \in Requests : sub'[r] = t => pc'[r] \notin Commits)
  BY <1>1, <1>3, Idle
<1>5. VictimOK' /\ ImportsAreIntact'
  BY <1>1 DEF Inv, VictimOK, ImportsAreIntact
<1>6. /\ count = Cardinality(Live) /\ count \in Nat /\ IsFiniteSet(Live)
      /\ Cardinality((Live \cup unread) \ kept) <= Limit
  <2>1. Live \in SUBSET Uploads
    BY DEF Live
  <2> QED BY <1>3, <2>1, Sizes DEF Inv, SlotsOK, RoomOK, Shapes
<1>7. CASE RecoverSession(u)
  <2>1. /\ session' = [session EXCEPT ![u] = "live"]
        /\ bytes' = [bytes EXCEPT ![u] = BytesOnDisk(u)]
        /\ chunks' = [chunks EXCEPT ![u] = Cardinality(ChunkFiles(u))]
        /\ count' = count + 1 /\ dir' = dir /\ file' = file
        /\ incidents' = incidents /\ kept' = kept
    BY <1>7 DEF RecoverSession, diskVars
  <2>2. /\ session'[u] = "live" /\ bytes'[u] = BytesOnDisk(u)
        /\ chunks'[u] = Cardinality(ChunkFiles(u))
        /\ \A t \in Uploads \ {u} :
             session'[t] = session[t] /\ bytes'[t] = bytes[t] /\ chunks'[t] = chunks[t]
    BY <2>1 DEF Inv, Shapes
  <2>3. Shapes'
    <3>1. /\ bytes' \in [Uploads -> 0..TotalBytes]
          /\ chunks' \in [Uploads -> 0..Cardinality(Chunks)]
          /\ session' \in [Uploads -> SessionStates]
      BY <2>1, DiskBounds DEF Inv, Shapes, SessionStates
    <3> QED BY <1>1, <2>1, <3>1 DEF Inv, Shapes
  <2>4. Live' = Live \cup {u} /\ u \notin Live
    BY <1>2, <2>2 DEF Live
  <2>5. FreshOK'
    BY <1>1, <1>2, <2>1, <2>2 DEF FreshOK
  <2>6. BootOK'
    BY <1>1, <1>2, <2>2 DEF BootOK
  <2>7. SlotsOK'
    <3>1. Cardinality(Live \cup {u}) = Cardinality(Live) + 1
      BY <1>6, <2>4, FS_AddElement
    <3> QED BY <1>4, <1>6, <2>1, <2>4, <3>1 DEF SlotsOK
  <2>8. RoomOK'
    <3>1. (Live' \cup unread') \ kept' = (Live \cup unread) \ kept
      BY <1>1, <2>1, <2>4
    <3> QED BY <1>4, <1>6, <3>1 DEF RoomOK
  <2>9. DirsOK'
    BY <1>1, <1>3, <2>1, <2>4 DEF DirsOK
  <2>10. TalliesOK'
    <3> SUFFICES ASSUME NEW t \in Live' \ (swept' \cup kept') PROVE Tally(t)'
      BY DEF TalliesOK
    <3>1. t \in Uploads /\ Writing(t)' = {} /\ Writing(t) = {}
      BY <1>3, <1>4 DEF Live
    <3>2. /\ Stored(t, "cut")' = Stored(t, "cut") /\ Stored(t, "whole")' = Stored(t, "whole")
          /\ ChunkFiles(t)' = ChunkFiles(t)
      BY <2>1 DEF Stored, ChunkFiles
    <3>3. \A S : S \ {} = S
      OBVIOUS
    <3>4. CASE t = u
      BY <2>2, <3>1, <3>2, <3>3, <3>4 DEF Tally, BytesOnDisk
    <3>5. CASE t # u
      <4>1. Tally(t)
        BY <1>1, <2>1, <2>4, <3>5 DEF Inv, TalliesOK
      <4> QED BY <2>2, <3>1, <3>2, <3>5, <4>1 DEF Tally
    <3> QED BY <3>4, <3>5
  <2>11. OnceOK'
    <3> SUFFICES ASSUME NEW t \in Uploads \ (kept' \cup swept' \cup refused') PROVE Once(t)'
      BY DEF OnceOK
    <3>1. Once(t)
      BY <1>1, <2>1 DEF Inv, OnceOK
    <3> QED BY <1>1, <1>4, <2>1, <3>1 DEF Once
  <2> QED BY <1>4, <1>5, <2>3, <2>5, <2>6, <2>7, <2>8, <2>9, <2>10, <2>11 DEF Inv
<1>8. CASE RecoverRemoves(u)
  <2>1. PICK gone \in SUBSET ({u} \X Names) : Without(gone)
    BY <1>8 DEF RecoverRemoves, RemoveAll, RemovePart
  <2>2. /\ session' = session /\ bytes' = bytes /\ chunks' = chunks /\ count' = count
        /\ kept \subseteq kept' /\ kept' \subseteq kept \cup {u} /\ dir' \subseteq dir
        /\ u \in dir' => u \in kept'
    BY <1>8 DEF RecoverRemoves, RemoveAll, RemovePart, memVars
  <2>3. incidents' \in 0..MaxIncidents
    BY <1>8, IncidentBound DEF RecoverRemoves, Inv, Shapes
  <2>4. /\ file' \in [Uploads -> [Names -> Contents]]
        /\ \A t \in Uploads \ {u} : file'[t] = file[t]
        /\ \A t \in Uploads, n \in Names : file'[t][n] \in {file[t][n], "none"}
    BY <2>1, WithoutFiles
  <2>5. Shapes'
    BY <1>1, <2>2, <2>3, <2>4 DEF Inv, Shapes
  <2>6. Live' = Live /\ u \notin Live
    BY <1>2, <2>2 DEF Live
  <2>7. FreshOK'
    BY <1>1, <1>2, <2>2, <2>4 DEF FreshOK
  <2>8. BootOK'
    BY <1>1, <1>2, <2>2 DEF BootOK
  <2>9. SlotsOK'
    BY <1>4, <1>6, <2>2, <2>6 DEF SlotsOK
  <2>10. RoomOK'
    <3>1. (Live' \cup unread') \ kept' \in SUBSET ((Live \cup unread) \ kept)
      BY <1>1, <2>2, <2>6
    <3>2. (Live \cup unread) \ kept \in SUBSET Uploads
      BY <1>2 DEF Live
    <3>3. /\ IsFiniteSet((Live \cup unread) \ kept)
          /\ Cardinality((Live \cup unread) \ kept) \in 0..Cardinality(Uploads)
          /\ Cardinality((Live' \cup unread') \ kept') \in 0..Cardinality(Uploads)
          /\ Cardinality(Uploads) \in Nat
      BY <3>1, <3>2, Sizes
    <3>4. Cardinality((Live' \cup unread') \ kept') <= Cardinality((Live \cup unread) \ kept)
      BY <3>1, <3>3, FS_Subset
    <3>5. Cardinality((Live' \cup unread') \ kept') <= Limit
      BY <1>6, <3>3, <3>4, BoundsAssumption
    <3> QED BY <1>4, <3>5 DEF RoomOK
  <2>11. DirsOK'
    BY <1>1, <1>3, <2>2, <2>6 DEF DirsOK
  <2>12. TalliesOK'
    <3> SUFFICES ASSUME NEW t \in Live' \ (swept' \cup kept') PROVE Tally(t)'
      BY DEF TalliesOK
    <3>1. t \in Uploads /\ Writing(t)' = {} /\ Writing(t) = {} /\ t # u
      BY <1>3, <1>4, <2>6 DEF Live
    <3>2. /\ Stored(t, "cut")' = Stored(t, "cut") /\ Stored(t, "whole")' = Stored(t, "whole")
          /\ ChunkFiles(t)' = ChunkFiles(t)
      BY <2>4, <3>1 DEF Stored, ChunkFiles
    <3>3. Tally(t)
      BY <1>1, <2>2, <2>6 DEF Inv, TalliesOK
    <3> QED BY <2>2, <3>1, <3>2, <3>3 DEF Tally
  <2>13. OnceOK'
    <3> SUFFICES ASSUME NEW t \in Uploads \ (kept' \cup swept' \cup refused') PROVE Once(t)'
      BY DEF OnceOK
    <3>1. Once(t)
      BY <1>1, <2>2 DEF Inv, OnceOK
    <3>2. t = u => t \notin dir'
      BY <2>2
    <3>3. t # u => file'[t] = file[t]
      BY <2>4
    <3> QED BY <1>1, <1>4, <2>2, <3>1, <3>2, <3>3 DEF Once
  <2> QED BY <1>4, <1>5, <2>5, <2>7, <2>8, <2>9, <2>10, <2>11, <2>12, <2>13 DEF Inv
<1> QED BY <1>1, <1>7, <1>8

\* What a request removes is its target.
LEMMA RemovesTarget ==
  ASSUME Inv, NEW r \in Requests, NEW u \in Uploads
  PROVE  Removes(r, u) <=> pc[r] \in Clearing /\ Target(r) = u
<1>1. ASSUME Removes(r, u) PROVE pc[r] \in Clearing
  BY <1>1 DEF Removes, Removal, Clearing
<1>2. CASE pc[r] \in Clearing
  <2> PICK t \in Uploads : Target(r) = t /\ Removes(r, t)
    BY <1>2, TargetIs
  <2>1. Removes(r, u) => u = t
    <3>1. CASE pc[r] = "clear old"
      <4>1. pc[r] \notin Removal \cup {"clear new"}
        BY <3>1 DEF Removal
      <4> QED BY <4>1, Held DEF Removes
    <3>2. CASE pc[r] # "clear old"
      BY <3>2 DEF Removes
    <3> QED BY <3>1, <3>2
  <2> QED BY <1>2, <2>1
<1> QED BY <1>1, <1>2

\* The process ends, and takes its memory along.
LEMMA ExitKeeps ==
  ASSUME Inv, Exit PROVE Inv'
<1> DEFINE H == HalfRemoved
<1>1. /\ RemovePart(H) /\ kept' = kept \cup H
      /\ session' = [u \in Uploads |-> "none"]
      /\ bytes' = [u \in Uploads |-> 0] /\ chunks' = [u \in Uploads |-> 0] /\ count' = 0
      /\ lock' = [u \in Uploads |-> Nobody]
      /\ pc' = [r \in Requests |-> "idle"]
      /\ sub' = [r \in Requests |-> Nobody] /\ idx' = [r \in Requests |-> Nobody]
      /\ todo' = [r \in Requests |-> {}]
      /\ phase' = "boot" /\ unread' = dir /\ victim' = Nobody
      /\ expired' = expired /\ used' = used
      /\ UNCHANGED <<imports, damaged, swept, refused>>
  BY DEF Exit, timeVars
<1>2. H \in SUBSET Uploads /\ \A r \in Requests, u \in Uploads : Removes(r, u) => u \in H
  <2>1. \A r \in Requests : pc[r] \in Clearing => Target(r) \in Uploads
    BY TargetIs
  <2>2. unread \subseteq Uploads
    BY DEF Inv, Shapes
  <2> QED BY <2>1, <2>2, RemovesTarget DEF HalfRemoved
<1> HIDE DEF H
<1>3. PICK U \in SUBSET Uploads : U = H
  BY <1>2
<1>4. PICK gone \in SUBSET (U \X Names) : Without(gone)
  BY <1>1, <1>3 DEF RemovePart
<1>5. /\ file' \in [Uploads -> [Names -> Contents]] /\ \A u \in Uploads \ U : file'[u] = file[u]
      /\ \A u \in Uploads, n \in Names : file'[u][n] \in {file[u][n], "none"}
  BY <1>4, WithoutFiles
<1>6. dir' = dir /\ kept' = kept \cup U /\ dir \subseteq Uploads
  BY <1>1, <1>3 DEF RemovePart, Inv, Shapes
<1>7. Shapes'
  <2>1. /\ 0 \in 0..TotalBytes /\ 0 \in 0..Cardinality(Chunks) /\ "none" \in SessionStates
        /\ "idle" \in PCs
    BY Sizes DEF SessionStates, PCs
  <2>2. incidents' \in 0..MaxIncidents
    BY IncidentBound DEF Exit
  <2> QED BY <1>1, <1>5, <1>6, <2>1, <2>2 DEF Inv, Shapes
<1>8. /\ PlacesOK' /\ LocksOK' /\ Counted' = Live'
      /\ \A u \in Uploads : (\A r \in Requests : sub'[r] = u => pc'[r] \notin Commits)
  BY <1>1, Idle
<1>9. Live' = {}
  BY <1>1 DEF Live
<1>10. FreshOK'
  BY <1>1, <1>5, <1>6 DEF FreshOK, Inv
<1>11. BootOK'
  BY <1>1, <1>6 DEF BootOK, Inv, FreshOK
<1>12. SlotsOK'
  BY <1>1, <1>8, <1>9, FS_EmptySet DEF SlotsOK
<1>13. RoomOK'
  <2>1. (Counted' \cup unread') \ kept' = dir \ (kept \cup U)
    BY <1>1, <1>6, <1>8, <1>9
  <2>2. ASSUME NEW u \in dir \ (kept \cup U) PROVE u \in (Counted \cup unread) \ kept
    <3>1. \/ u \in Live \cup unread
          \/ \E r \in Requests : pc[r] = "manifest" /\ sub[r] = u
      BY <1>2, <1>3, <1>6 DEF Inv, DirsOK
    <3> QED BY <3>1, CountedIs DEF Setup
  <2>3. dir \ (kept \cup U) \in SUBSET ((Counted \cup unread) \ kept)
    BY <2>2
  <2>4. (Counted \cup unread) \ kept \in SUBSET Uploads
    BY CountedIs DEF Inv, Shapes
  <2>5. /\ IsFiniteSet((Counted \cup unread) \ kept)
        /\ Cardinality((Counted \cup unread) \ kept) \in 0..Cardinality(Uploads)
        /\ Cardinality(dir \ (kept \cup U)) \in 0..Cardinality(Uploads)
        /\ Cardinality(Uploads) \in Nat
    BY <2>3, <2>4, Sizes
  <2>6. Cardinality(dir \ (kept \cup U)) <= Cardinality((Counted \cup unread) \ kept)
    BY <2>3, <2>5, FS_Subset
  <2>7. Cardinality((Counted \cup unread) \ kept) <= Limit
    BY DEF Inv, RoomOK
  <2>8. Cardinality(dir \ (kept \cup U)) <= Limit
    BY <2>5, <2>6, <2>7, BoundsAssumption
  <2> QED BY <2>1, <2>8 DEF RoomOK
<1>14. DirsOK'
  BY <1>1, <1>6 DEF DirsOK
<1>15. TalliesOK'
  BY <1>9 DEF TalliesOK
<1>16. VictimOK' /\ ImportsAreIntact'
  BY <1>1 DEF Inv, VictimOK, ImportsAreIntact
<1>17. OnceOK'
  <2> SUFFICES ASSUME NEW u \in Uploads \ (kept' \cup swept' \cup refused') PROVE Once(u)'
    BY DEF OnceOK
  <2>1. Once(u) /\ file'[u] = file[u]
    BY <1>1, <1>5, <1>6 DEF Inv, OnceOK
  <2> QED BY <1>1, <1>6, <1>8, <2>1 DEF Once
<1> QED BY <1>7, <1>8, <1>10, <1>11, <1>12, <1>13, <1>14, <1>15, <1>16, <1>17 DEF Inv

-----------------------------------------------------------------------------
(* Every step, and the theorems.                                           *)

\* A first start, on an empty disk.
LEMMA InitInv == Init => Inv
<1> SUFFICES ASSUME Init PROVE Inv
  OBVIOUS
<1> USE DEF Init
<1>1. Shapes
  <2>1. 0 \in 0..TotalBytes /\ 0 \in 0..Cardinality(Chunks)
    BY Sizes
  <2> QED BY <2>1, BoundsAssumption DEF Shapes, SessionStates, PCs, Contents
<1>2. PlacesOK
  BY DEF PlacesOK, PlaceOK, Working, Removal, Creation, Commits
<1>3. LocksOK /\ FreshOK /\ BootOK /\ VictimOK /\ DirsOK /\ ImportsAreIntact
  BY DEF LocksOK, FreshOK, BootOK, VictimOK, DirsOK, ImportsAreIntact
<1>4. Live = {} /\ Counted = {}
  BY DEF Live, Counted, SettingUp
<1>5. SlotsOK /\ RoomOK
  <2>1. (Counted \cup unread) \ kept = {}
    BY <1>4
  <2> QED BY <1>4, <2>1, FS_EmptySet, BoundsAssumption DEF SlotsOK, RoomOK
<1>6. TalliesOK
  BY <1>4 DEF TalliesOK
<1>7. OnceOK
  BY DEF OnceOK, Once
<1> QED BY <1>1, <1>2, <1>3, <1>5, <1>6, <1>7 DEF Inv

\* What a stuttering step leaves alone.
LEMMA Stutter ==
  ASSUME Inv, UNCHANGED vars PROVE Inv'
<1> USE DEF vars, diskVars, reqVars, bootVars, timeVars, history
<1>1. Shapes'
  BY DEF Inv, Shapes, memVars, place
<1>2. BootOK' /\ VictimOK'
  BY DEF Inv, BootOK, VictimOK, memVars, place
<1>3. \A u \in Uploads, n \in Names : file'[u][n] \in {file[u][n], "none"}
  OBVIOUS
<1> QED BY <1>1, <1>2, <1>3, Aside

\* Every step keeps the invariant.
LEMMA NextInv == Inv /\ [Next]_vars => Inv'
<1> SUFFICES ASSUME Inv, [Next]_vars PROVE Inv'
  OBVIOUS
<1>1. ASSUME NEW r \in Requests, SetUp(r) \/ InitUpload(r) PROVE Inv'
  BY <1>1, InitUploadKeeps, CleanupExpiredKeeps, ReserveKeeps, MkdirKeeps, WriteManifestKeeps,
     RegisterKeeps DEF SetUp
<1>2. ASSUME NEW r \in Requests, Arrive(r) \/ LockSession(r) \/ Clear(r) PROVE Inv'
  BY <1>2, ArriveKeeps, LockSessionKeeps, ClearKeeps
<1>3. ASSUME NEW r \in Requests, SaveChunk(r) PROVE Inv'
  BY <1>3, ChunkRefusedKeeps, ChunkOpenKeeps, ChunkCopyKeeps, ChunkFailsKeeps DEF SaveChunk
<1>4. ASSUME NEW r \in Requests, CommitUpload(r) PROVE Inv'
  BY <1>4, CommitRefusedKeeps, CommitMarkKeeps, CommitCheckKeeps, CommitMergeKeeps,
     CommitFillKeeps, CommitImportKeeps, CommitRemoveKeeps, CommitUnmarkKeeps DEF CommitUpload
<1>5. CASE Sweep
  BY <1>5, CleanOrphanUploadsKeeps, SweepKeeps DEF Sweep
<1>6. ASSUME NEW u \in Uploads, Recover(u) PROVE Inv'
  BY <1>6, RecoverKeeps
<1>7. CASE Serve \/ Expire \/ Exit
  BY <1>7, ServeKeeps, ExpireKeeps, ExitKeeps
<1>8. CASE UNCHANGED vars
  BY <1>8, Stutter
<1> QED BY <1>1, <1>2, <1>3, <1>4, <1>5, <1>6, <1>7, <1>8 DEF Next, Proceed

\* The inductive invariant holds throughout: whatever the requests of uploadService.go, the
\* cleanup task, recovery and the end of the process do, in any order.
THEOREM Invariance == Spec => []Inv
<1>1. Init => Inv
  BY InitInv
<1>2. Inv /\ [Next]_vars => Inv'
  BY NextInv
<1> QED BY <1>1, <1>2, PTL DEF Spec

\* The two sets that SlotsMatch counts apart have nothing in common.
LEMMA SlotFacts ==
  ASSUME Inv
  PROVE  /\ count = Cardinality(Live) + Cardinality(SettingUp)
         /\ count <= Limit + Cardinality(kept) /\ count \in 0..Cardinality(Uploads)
<1> DEFINE S == {sub[r] : r \in SettingUp}
           f == [r \in SettingUp |-> sub[r]]
<1>1. /\ Live \in SUBSET Uploads /\ S \in SUBSET Uploads /\ kept \in SUBSET Uploads
      /\ Counted \in SUBSET Uploads
  BY CountedIs DEF Live, Counted, Inv, Shapes
<1>2. \A r \in SettingUp : r \in Requests /\ NewOK(r)
  BY NewPlace DEF SettingUp, Setup
<1>3. Live \cap S = {}
  BY <1>2 DEF Live, NewOK
<1>4. f \in Bijection(SettingUp, S)
  <2>1. f \in [SettingUp -> S] /\ \A s \in S : \E r \in SettingUp : f[r] = s
    OBVIOUS
  <2>2. \A q, r \in SettingUp : f[q] = f[r] => q = r
    BY <1>2 DEF NewOK
  <2> QED BY <2>1, <2>2 DEF Bijection, Injection, Surjection, IsInjective
<1>5. IsFiniteSet(SettingUp)
  <2>1. SettingUp \in SUBSET Requests
    BY DEF SettingUp
  <2> QED BY <2>1, FS_Subset, SetsAssumption
<1>6. Cardinality(S) = Cardinality(SettingUp)
  BY <1>4, <1>5, FS_Bijection DEF ExistsBijection
<1>7. Counted = Live \cup S /\ count = Cardinality(Counted)
  BY DEF Counted, Inv, SlotsOK
<1> HIDE DEF S, f
<1>8. /\ IsFiniteSet(Live) /\ IsFiniteSet(S) /\ IsFiniteSet(kept) /\ IsFiniteSet(Counted)
      /\ Cardinality(Live) \in Nat /\ Cardinality(S) \in Nat /\ Cardinality(kept) \in Nat
      /\ Cardinality(Counted) \in 0..Cardinality(Uploads) /\ Cardinality(Uploads) \in Nat
  BY <1>1, Sizes
<1>9. Cardinality(Counted) = Cardinality(Live) + Cardinality(S)
  <2>1. Cardinality(Live \cup S) = Cardinality(Live) + Cardinality(S) - Cardinality(Live \cap S)
    BY <1>8, FS_Union
  <2>2. Cardinality(Live \cap S) = 0
    BY <1>3, FS_EmptySet
  <2> QED BY <1>7, <1>8, <2>1, <2>2
<1>10. Cardinality(Counted) <= Limit + Cardinality(kept)
  <2> DEFINE F == (Counted \cup unread) \ kept
  <2>1. F \in SUBSET Uploads /\ Cardinality(F) <= Limit
    BY <1>1 DEF Inv, RoomOK, Shapes
  <2>2. IsFiniteSet(F) /\ Cardinality(F) \in Nat /\ F \cup kept \in SUBSET Uploads
    BY <1>1, <2>1, Sizes
  <2>3. Counted \in SUBSET (F \cup kept)
    OBVIOUS
  <2> HIDE DEF F
  <2>4. /\ IsFiniteSet(F \cup kept) /\ Cardinality(F \cup kept) \in Nat
        /\ Cardinality(F \cap kept) \in Nat
    <3>1. F \cap kept \in SUBSET Uploads
      BY <1>1
    <3> QED BY <2>2, <3>1, Sizes
  <2>5. Cardinality(F \cup kept) = Cardinality(F) + Cardinality(kept) - Cardinality(F \cap kept)
    BY <1>8, <2>2, FS_Union
  <2>6. Cardinality(Counted) <= Cardinality(F \cup kept)
    BY <2>3, <2>4, FS_Subset
  <2>7. Limit \in Nat
    BY BoundsAssumption
  <2> QED BY <1>8, <2>1, <2>2, <2>4, <2>5, <2>6, <2>7
<1> QED BY <1>6, <1>7, <1>8, <1>9, <1>10

\* Every reachable state has the types of Uploads, and the count is one of uploads
\* (uploadService.go:60-95).
THEOREM TypesHold == Spec => []TypeOK
<1>1. Inv => TypeOK
  BY SlotFacts DEF Inv, Shapes, TypeOK
<1> QED BY <1>1, Invariance, PTL

\* The count of the sessions is that of the sessions that are open and being set up,
\* whatever expires, fails or is recovered (uploadService.go:250-265, 328-335).
THEOREM NoSlotLeaks == Spec => []SlotsMatch
<1>1. Inv => SlotsMatch
  BY SlotFacts DEF SlotsMatch
<1> QED BY <1>1, Invariance, PTL

\* However many requests arrive at once, only what outlived its removal exceeds the limit
\* (uploadService.go:109-134, 252, 338).
THEOREM LimitIsKept == Spec => []LimitHolds
<1>1. Inv => LimitHolds
  BY SlotFacts DEF LimitHolds
<1> QED BY <1>1, Invariance, PTL

\* A session has counted what its directory holds, before and after a restart
\* (uploadService.go:175-176, 386-387).
THEOREM TalliesAreTrue == Spec => []CountsMatchDisk
<1>1. Inv => CountsMatchDisk
  <2> SUFFICES ASSUME Inv, NEW u \in Live \ (swept \cup kept), lock[u] = Nobody
               PROVE  chunks[u] = Cardinality(ChunkFiles(u)) /\ bytes[u] = BytesOnDisk(u)
    BY DEF CountsMatchDisk
  <2>1. Tally(u) /\ u \in Uploads
    BY DEF Inv, TalliesOK, Live
  <2>2. \A r \in Requests : ~(pc[r] = "copy" /\ sub[r] = u)
    <3> TAKE r \in Requests
    <3>1. pc[r] = "copy" => lock[sub[r]] = r
      BY Place DEF Working
    <3> QED BY <3>1, Distinct
  <2>3. Writing(u) = {}
    BY <2>2 DEF Writing
  <2>4. \A S : S \ {} = S
    OBVIOUS
  <2> QED BY <2>1, <2>3, <2>4 DEF Tally, BytesOnDisk
<1> QED BY <1>1, Invariance, PTL

\* No truncated file gets into the library (uploadService.go:421-476).
THEOREM OnlyWholeFiles == Spec => []ImportsAreIntact
<1>1. Inv => ImportsAreIntact
  BY DEF Inv
<1> QED BY <1>1, Invariance, PTL

\* An upload becomes one book, also over a crash in the middle of its commit
\* (uploadService.go:411-419, 477, libraryService.go:389-393).
THEOREM NoDuplicates == Spec => []ImportsOnce
<1>1. Inv => ImportsOnce
  <2> SUFFICES ASSUME Inv, NEW u \in Uploads, imports[u] > 1, u \notin kept \cup swept \cup refused
               PROVE  FALSE
    BY DEF ImportsOnce
  <2>1. Once(u) /\ imports[u] \in Nat
    BY DEF Inv, OnceOK, Shapes
  <2> QED BY <2>1 DEF Once
<1> QED BY <1>1, Invariance, PTL

\* Every directory has an owner that will remove it (uploadService.go:126-130, 272-288, 338).
THEOREM NoneAbandoned == Spec => []DirsOwned
<1>1. Inv => DirsOwned
  <2> SUFFICES ASSUME Inv, phase = "up", NEW u \in dir \ kept
               PROVE  \/ u \in Live \cup {victim}
                      \/ \E r \in Requests : pc[r] \in Clearing /\ Target(r) = u
                      \/ \E r \in Requests : pc[r] = "manifest" /\ sub[r] = u
    BY DEF DirsOwned
  <2>1. u \in Uploads /\ unread = {}
    BY DEF Inv, Shapes, BootOK
  <2>2. \/ u \in Live
        \/ \E r \in Requests : Removes(r, u)
        \/ \E r \in Requests : pc[r] = "manifest" /\ sub[r] = u
    BY <2>1 DEF Inv, DirsOK
  <2> QED BY <2>1, <2>2, RemovesTarget
<1> QED BY <1>1, Invariance, PTL
=============================================================================
