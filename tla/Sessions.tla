------------------------------ MODULE Sessions ------------------------------
(***************************************************************************)
(* The sessions of one account: access and refresh tokens that carry a     *)
(* token version, the list of refresh tokens in the account's row, the     *)
(* operations that issue, rotate and revoke them                           *)
(* (src/internal/services/authService.go, userService.go), and the cache   *)
(* in front of the row (src/internal/repositories/userRepository.go).      *)
(*                                                                         *)
(* A pair of tokens is a number; tokens[t] says what it carries.  A        *)
(* session is what one sign-in starts and refreshes carry on.  Passwords,  *)
(* second factors and role checks are left out: whoever passes them.       *)
(***************************************************************************)
EXTENDS Naturals, Sequences, FiniteSets

CONSTANTS
  Procs,       \* request handlers that run at the same time
  None,
  MaxActive,   \* maxActiveRefreshTokens
  MaxTries,    \* attempts of a rotation
  MaxTokens,   \* bound: pairs of tokens issued
  MaxOps       \* bound: requests begun

ASSUME SessionAssumption ==
  /\ MaxActive \in Nat \ {0} /\ MaxTries \in Nat \ {0}
  /\ MaxTokens \in Nat \ {0} /\ MaxOps \in Nat
  /\ Procs \cap {"token", "id", "email"} = {}   \* no handler is a cache key

VARIABLES
  row,       \* the row: [ver (token_version), list (refresh_token), deleted]
  cache,     \* cache[k]: None, or what the cache holds under the key
  flight,    \* flight[k]: the singleflight call that fills the key
  proc,      \* proc[p]: the request p handles
  tokens,    \* tokens issued: [ver, sess, at]
  ops,       \* requests begun
  commits,   \* history: revocations committed
  dead,      \* history: sessions that a completed revocation covered
  excused,   \* history: sessions that a race may carry past a revocation
  spent,     \* history: how often a refresh token was exchanged
  revived,   \* history: refresh tokens a sign-in wrote back after they had left the list
  lost       \* history: refresh tokens a sign-in dropped, over the limit or unaware of them

state == <<row, cache, flight>>
history == <<commits, dead, excused, spent, revived, lost>>
vars == <<state, proc, tokens, ops, history>>

\* The cache keys of the account: its token version, and its row by id and by email, of
\* which the version and the deletion matter.  A value is late if the row had moved on
\* when it was stored.
Keys == {"token", "id", "email"}
Value(v, l, d) == [ver |-> v, late |-> l, deleted |-> d]

\* A bulk request looks for cached rows by id, reads those it misses in a call of its own
\* and stores them by id; two with the same accounts may share it, which is left out.
Calls == Keys \cup Procs
Cached(k) == IF k \in Procs THEN cache["id"] ELSE cache[k]
StoredUnder(k) == CASE k = "email" -> {"email", "id"} [] k \in Procs -> {"id"} [] OTHER -> {k}

\* What a revocation does: where it reads the account before it writes, by which flag of
\* deletion it goes on, whether the version it writes is the one read or the row's plus
\* one, whether it clears the list, what its statements do with a deleted account (they
\* fail, match no row, or match it), and the flag they leave.
Usual == [reads |-> "id", takes |-> {FALSE}, adds |-> "read", clears |-> FALSE,
          gone |-> "fails", leaves |-> "same"]
Bulk == [Usual EXCEPT !.reads = "own", !.adds = "row", !.clears = TRUE, !.gone = "matches"]

Logout == [Usual EXCEPT !.reads = "nothing", !.adds = "row", !.clears = TRUE]
ResetPasswordWithOTP == [Usual EXCEPT !.reads = "email", !.clears = TRUE]
ChangePassword == [Usual EXCEPT !.reads = "row"]
AdminResetPassword == Usual
RevokeUserSessions == [Usual EXCEPT !.adds = "row", !.clears = TRUE, !.gone = "misses"]
ChangeRoleUser == [Usual EXCEPT !.gone = "misses"]
DeleteUser == [Usual EXCEPT !.clears = TRUE, !.leaves = "deleted"]
RestoreUser == [Usual EXCEPT !.reads = "row", !.takes = BOOLEAN, !.clears = TRUE,
                             !.gone = "matches", !.leaves = "active"]
BulkDeleteUsers == [Bulk EXCEPT !.leaves = "deleted"]
BulkRestoreUsers == [Bulk EXCEPT !.takes = {TRUE}, !.leaves = "active"]
BulkChangeUserRoles == Bulk
BulkUpdateUserInfo == Bulk   \* when it is told to revoke the sessions

Revocations ==
  {Logout, ResetPasswordWithOTP, ChangePassword, AdminResetPassword, RevokeUserSessions,
   ChangeRoleUser, DeleteUser, RestoreUser, BulkDeleteUsers, BulkRestoreUsers,
   BulkChangeUserRoles, BulkUpdateUserInfo}

NoFlight == [running |-> FALSE, got |-> None, waiting |-> {}]

Idle == [op |-> "none", does |-> Usual, pc |-> "idle", tok |-> 0, got |-> None, ver |-> 0,
         list |-> <<>>, at |-> 0, tries |-> 0, mark |-> 0, dead |-> FALSE]

Init ==
  /\ row = [ver |-> 0, list |-> <<1>>, deleted |-> FALSE]
  /\ cache = [k \in Keys |-> None]
  /\ flight = [k \in Calls |-> NoFlight]
  /\ proc = [p \in Procs |-> Idle]
  /\ tokens = <<[ver |-> 0, sess |-> 1, at |-> 0]>>
  /\ ops = 0 /\ commits = 0
  /\ dead = {} /\ excused = {} /\ revived = {} /\ lost = {}
  /\ spent = [t \in 1..MaxTokens |-> 0]

Sessions == {tokens[t].sess : t \in DOMAIN tokens}

At(p, op, pc) == proc[p].op = op /\ proc[p].pc = pc

\* The key under which the request looks the account up.
KeyOf(p) ==
  CASE proc[p].op \in {"request", "refresh"} -> "token"
    [] proc[p].op = "signin" -> "id"
    [] proc[p].does.reads = "own" -> p
    [] OTHER -> proc[p].does.reads

Goes(p, pc) == proc' = [proc EXCEPT ![p].pc = pc]

Finish(p) == proc' = [proc EXCEPT ![p] = Idle]

Drop(K) == cache' = [k \in Keys |-> IF k \in K THEN None ELSE cache[k]]

-----------------------------------------------------------------------------
\* The cache: a miss joins the call that is on its way, or starts one; the call reads
\* the row, stores what it read, and answers everyone who waits.

Lookup(p) ==
  /\ proc[p].pc = "get"
  /\ LET k == KeyOf(p) IN
     IF Cached(k) # None
       THEN proc' = [proc EXCEPT ![p].got = Cached(k), ![p].pc = "got"] /\ UNCHANGED flight
       ELSE /\ flight' = [flight EXCEPT ![k].running = TRUE, ![k].waiting = @ \cup {p}]
            /\ Goes(p, "wait")
  /\ UNCHANGED <<row, cache, tokens, ops, history>>

FlightReads(k) ==
  /\ flight[k].running /\ flight[k].got = None
  /\ ~row.deleted \/ k \in Procs
  /\ flight' = [flight EXCEPT ![k].got = Value(row.ver, FALSE, row.deleted)]
  /\ UNCHANGED <<row, cache, proc, tokens, ops, history>>

\* A deleted account is not found; nothing is cached and the requests are refused.
FlightFails(k) ==
  /\ flight[k].running /\ flight[k].got = None
  /\ row.deleted /\ k \in Keys
  /\ flight' = [flight EXCEPT ![k] = NoFlight]
  /\ proc' = [p \in Procs |-> IF p \in flight[k].waiting THEN Idle ELSE proc[p]]
  /\ UNCHANGED <<row, cache, tokens, ops, history>>

\* The call by email stores the row by id as well; a deleted row is not stored.
FlightStores(k) ==
  /\ flight[k].running /\ flight[k].got # None
  /\ LET got == flight[k].got
         value == [got EXCEPT !.late = got.ver # row.ver \/ got.deleted # row.deleted]
     IN
       /\ cache' = [l \in Keys |->
                      IF l \in StoredUnder(k) /\ ~value.deleted THEN value ELSE cache[l]]
       /\ proc' = [p \in Procs |-> IF p \in flight[k].waiting
                     THEN [proc[p] EXCEPT !.got = value, !.pc = "got"] ELSE proc[p]]
  /\ flight' = [flight EXCEPT ![k] = NoFlight]
  /\ UNCHANGED <<row, tokens, ops, history>>

\* An entry expires after 15 minutes or is evicted.
Evict(k) ==
  /\ cache[k] # None
  /\ Drop({k})
  /\ UNCHANGED <<row, flight, proc, tokens, ops, history>>

-----------------------------------------------------------------------------
\* A request with an access token, and the gate before a refresh: the version of the
\* token must be the account's.

Start(p, request) ==
  /\ proc[p] = Idle /\ ops < MaxOps
  /\ ops' = ops + 1
  /\ proc' = [proc EXCEPT ![p] = request]
  /\ UNCHANGED <<state, tokens, history>>

Present(p, t) ==
  \E op \in {"request", "refresh"} :
    Start(p, [Idle EXCEPT !.op = op, !.pc = "get", !.tok = t, !.dead = tokens[t].sess \in dead])

Decide(p) ==
  /\ proc[p].op \in {"request", "refresh"} /\ proc[p].pc = "got"
  /\ Goes(p, IF proc[p].got.ver # tokens[proc[p].tok].ver THEN "refused"
             ELSE IF proc[p].op = "request" THEN "admitted" ELSE "read")
  /\ UNCHANGED <<state, tokens, ops, history>>

Answer(p) ==
  /\ proc[p].pc \in {"admitted", "refused"}
  /\ Finish(p)
  /\ UNCHANGED <<state, tokens, ops, history>>

-----------------------------------------------------------------------------
\* Issuing tokens.

Issue(ver, sess, at) == tokens' = Append(tokens, [ver |-> ver, sess |-> sess, at |-> at])

NewToken == Len(tokens) + 1
Elements(l) == {l[i] : i \in DOMAIN l}

\* A faulty variant, for a mutant only: one entry too many.
AddOneMore(l, t) ==
  Append(IF Len(l) > MaxActive THEN SubSeq(l, Len(l) - MaxActive + 2, Len(l)) ELSE l, t)

\* addRefreshToken keeps the newest entries.
Add(l, t) ==
  Append(IF Len(l) >= MaxActive THEN SubSeq(l, Len(l) - MaxActive + 2, Len(l)) ELSE l, t)

\* RefreshToken reads the row, past the cache.  The new tokens carry the version of the
\* first read; a later attempt reads the list only.
ReadForRefresh(p) ==
  /\ At(p, "refresh", "read")
  /\ proc' = [proc EXCEPT ![p] =
       IF row.deleted \/ @.tok \notin Elements(row.list)
         THEN Idle
         ELSE [@ EXCEPT !.pc = "rotate", !.list = row.list, !.tries = proc[p].tries + 1,
                        !.ver = IF proc[p].tries = 0 THEN row.ver ELSE proc[p].ver,
                        !.at  = IF proc[p].tries = 0 THEN commits ELSE proc[p].at]]
  /\ UNCHANGED <<state, tokens, ops, history>>

\* The row takes the list read, with the token exchanged for a new one, and the cache
\* forgets the account, whose version has not changed.
Exchange(p) ==
  LET old == proc[p].tok
      first == CHOOSE i \in DOMAIN proc[p].list :
                 proc[p].list[i] = old /\ \A j \in 1..(i - 1) : proc[p].list[j] # old
      stale == proc[p].ver # tokens[old].ver \/ proc[p].ver > row.ver
  IN  /\ Len(tokens) < MaxTokens
      /\ row' = [row EXCEPT !.list = [proc[p].list EXCEPT ![first] = NewToken]]
      /\ Issue(proc[p].ver, tokens[old].sess, proc[p].at)
      /\ spent' = [spent EXCEPT ![old] = @ + 1]
      /\ excused' = IF stale THEN excused \cup {tokens[old].sess} ELSE excused
      /\ Drop({"id", "token"})
      /\ Finish(p)
      /\ UNCHANGED <<flight, ops, commits, dead, revived, lost>>

\* A faulty variant, for mutants only: the row is written whatever it holds by now.
RotateBlindly(p) == At(p, "refresh", "rotate") /\ ~row.deleted /\ Exchange(p)

Rotate(p) ==
  /\ At(p, "refresh", "rotate")
  /\ ~row.deleted /\ row.list = proc[p].list
  /\ Exchange(p)

\* Somebody else has changed the list: read it again, MaxTries times in all.
RotateFails(p) ==
  /\ At(p, "refresh", "rotate")
  /\ row.deleted \/ row.list # proc[p].list
  /\ IF proc[p].tries < MaxTries THEN Goes(p, "read") ELSE Finish(p)
  /\ UNCHANGED <<state, tokens, ops, history>>

SignIn(p) == Len(tokens) < MaxTokens /\ Start(p, [Idle EXCEPT !.op = "signin", !.pc = "auth"])

\* A faulty variant, for a mutant only: the row comes from the cache.
AuthenticateCached(p) ==
  /\ At(p, "signin", "auth")
  /\ proc' = [proc EXCEPT ![p] =
       IF row.deleted THEN Idle
       ELSE [@ EXCEPT !.pc = "get", !.list = row.list, !.at = commits,
               !.ver = IF cache["id"] # None THEN cache["id"].ver ELSE row.ver]]
  /\ UNCHANGED <<state, tokens, ops, history>>

\* The row by email, past the cache, and then the password.
Authenticate(p) ==
  /\ At(p, "signin", "auth")
  /\ proc' = [proc EXCEPT ![p] =
       IF row.deleted THEN Idle
       ELSE [@ EXCEPT !.pc = "get", !.ver = row.ver, !.list = row.list, !.at = commits]]
  /\ UNCHANGED <<state, tokens, ops, history>>

\* UpdateRefreshToken, once it has found the account: the list read at the beginning
\* goes back with the new token, whatever the row holds by now.
SignInWrites(p) ==
  /\ At(p, "signin", "got") /\ Len(tokens) < MaxTokens
  /\ LET list == Add(proc[p].list, NewToken)
         sess == Cardinality(Sessions) + 1
     IN  /\ row' = IF row.deleted THEN row ELSE [row EXCEPT !.list = list]
         /\ Issue(proc[p].ver, sess, proc[p].at)
         /\ revived' = revived \cup (Elements(proc[p].list) \ Elements(row.list))
         /\ lost' = lost \cup (Elements(row.list) \ Elements(list))
         /\ excused' = IF proc[p].ver > row.ver THEN excused \cup {sess} ELSE excused
  /\ Drop(Keys)
  /\ Finish(p)
  /\ UNCHANGED <<flight, ops, commits, dead, spent>>

-----------------------------------------------------------------------------
\* Revocations.

Revoke(p) ==
  \E does \in Revocations :
    Start(p, [Idle EXCEPT !.op = "revoke", !.does = does,
                          !.pc = CASE does.reads = "nothing" -> "got"
                                   [] does.reads = "row" -> "row"
                                   [] OTHER -> "get"])

ReadRow(p) ==
  /\ proc[p].pc = "row"
  /\ proc' = [proc EXCEPT ![p].pc = "got", ![p].got = Value(row.ver, FALSE, row.deleted)]
  /\ UNCHANGED <<state, tokens, ops, history>>

\* A faulty variant, for a mutant only: the list goes and the version stays.
NextVersionKept(p) == row.ver

NextVersion(p) == (IF proc[p].does.adds = "row" THEN row.ver ELSE proc[p].got.ver) + 1

\* The account read is not one to act on.
Skips(p) == proc[p].got # None /\ proc[p].got.deleted \notin proc[p].does.takes

Commit(p) ==
  /\ At(p, "revoke", "got")
  /\ LET does == proc[p].does
         applies == ~row.deleted \/ does.gone = "matches"
     IN  IF Skips(p) \/ (row.deleted /\ does.gone = "fails")
           THEN Finish(p) /\ UNCHANGED <<row, commits, excused>>
           ELSE /\ row' = IF ~applies THEN row ELSE
                     [ver     |-> NextVersion(p),
                      list    |-> IF does.clears THEN <<>> ELSE row.list,
                      deleted |-> CASE does.leaves = "same" -> row.deleted
                                    [] OTHER -> does.leaves = "deleted"]
                /\ commits' = commits + 1
                /\ excused' = IF applies /\ NextVersion(p) <= row.ver /\ does.adds = "read"
                                 THEN excused \cup Sessions ELSE excused
                /\ proc' = [proc EXCEPT ![p] =
                     [Idle EXCEPT !.pc = "invalidate", !.mark = Cardinality(Sessions)]]
  /\ UNCHANGED <<cache, flight, tokens, ops, dead, spent, revived, lost>>

\* InvalidateUserCache drops every cached view of the account.
Invalidate(p) ==
  /\ proc[p].pc = "invalidate"
  /\ Drop(Keys)
  /\ dead' = dead \cup 1..proc[p].mark
  /\ Finish(p)
  /\ UNCHANGED <<row, flight, tokens, ops, commits, excused, spent, revived, lost>>

Handle(p) ==
  \/ Lookup(p) \/ Decide(p) \/ Answer(p)
  \/ ReadForRefresh(p) \/ Rotate(p) \/ RotateFails(p)
  \/ Authenticate(p) \/ SignInWrites(p)
  \/ ReadRow(p) \/ Commit(p) \/ Invalidate(p)

Next ==
  \/ \E p \in Procs : Handle(p) \/ SignIn(p) \/ Revoke(p) \/ \E t \in DOMAIN tokens : Present(p, t)
  \/ \E k \in Calls : FlightReads(k) \/ FlightFails(k) \/ FlightStores(k)
  \/ \E k \in Keys : Evict(k)

Spec == Init /\ [][Next]_vars

-----------------------------------------------------------------------------
\* Properties.

\* Types; the list keeps within its limit and never holds a token twice.
TypeOK ==
  /\ row.ver \in Nat /\ Len(row.list) <= MaxActive
  /\ Elements(row.list) \subseteq DOMAIN tokens
  /\ Cardinality(Elements(row.list)) = Len(row.list)
  /\ \A k \in Keys : cache[k] # None => cache[k].ver \in Nat
  /\ \A k \in Calls : flight[k].waiting # {} <=> flight[k].running
  /\ dead \subseteq Sessions

\* Once a revocation has returned, no request that begins with a token of a session it
\* covered gets past the version check, and no refresh does either
\* (jwtMiddleware.go:120-130), except in three races: the version was cached by a call
\* that read it before the revocation and stored it after; the revocation wrote a
\* version it had read too early; or the session's refresh passed the check before
\* and read the new version after (authService.go:475).
RevocationFinal ==
  \A p \in Procs :
    proc[p].dead /\ proc[p].pc \in {"admitted", "read", "rotate"}
      => tokens[proc[p].tok].sess \in excused \/ proc[p].got.late

\* A refresh token is exchanged once, unless a sign-in that overlapped the exchange
\* wrote it back (authService.go:229, 515): whoever stole one cannot use it again.
RotatedOnce == \A t \in DOMAIN tokens : spent[t] > 1 => t \in revived

\* A refresh token stays in the list until it is exchanged or a revocation comes,
\* unless a sign-in overwrote the list without knowing it: nobody else's refresh or
\* sign-in ends a session (authService.go:499-520).
NoSessionLost ==
  \A t \in DOMAIN tokens :
    \/ t \in Elements(row.list)
    \/ spent[t] > 0 \/ t \in lost
    \/ commits > tokens[t].at \/ row.deleted

\* A token is refused only after a revocation that came later than the read of the
\* version it carries, or because of a version cached too late: who has just signed
\* in again is not thrown out by the cache (userRepository.go:547-575).
SignedInIsAdmitted ==
  \A p \in Procs :
    proc[p].pc = "refused" => commits > tokens[proc[p].tok].at \/ proc[p].got.late
=============================================================================
