--------------------------- MODULE SessionProofs ---------------------------
(***************************************************************************)
(* What holds of Sessions for every value of its constants.                *)
(***************************************************************************)
EXTENDS Sessions, SequenceTheorems, FiniteSetTheorems, FunctionTheorems, TLAPS

\* The shapes of the variables.
Rows == [ver : Nat, list : Seq(Nat), deleted : BOOLEAN]
Views == [ver : Nat, late : BOOLEAN, deleted : BOOLEAN]
Fills == [running : BOOLEAN, got : Views \cup {None}, waiting : SUBSET Procs]
Presented == {"request", "refresh"}
Requests ==
  [op : Presented \cup {"none", "signin", "revoke"}, does : Revocations,
   pc : {"idle", "get", "wait", "got", "read", "rotate", "admitted", "refused", "auth", "row",
         "invalidate"},
   tok : Nat, got : Views \cup {None}, ver : Nat, list : Seq(Nat), at : Nat, tries : Nat,
   mark : Nat, dead : BOOLEAN]
Pairs == [ver : Nat, sess : Nat, at : Nat]

Shapes ==
  /\ row \in Rows
  /\ cache \in [Keys -> Views \cup {None}]
  /\ flight \in [Calls -> Fills]
  /\ proc \in [Procs -> Requests]
  /\ tokens \in Seq(Pairs) /\ Len(tokens) <= MaxTokens
  /\ commits \in Nat
  /\ spent \in [1..MaxTokens -> Nat]

\* A list keeps within its limit, and its entries are different tokens of those issued.
Listed(l) ==
  /\ Len(l) <= MaxActive
  /\ \A i \in 1..Len(l) : l[i] \in 1..Len(tokens)
  /\ \A i, j \in 1..Len(l) : l[i] = l[j] => i = j

\* A version is as old as the count of revocations it was read under, and without one in
\* between it is the row's.
Fresh(v, a) == a <= commits /\ (a = commits => v = row.ver)

\* What a view that was not stored too late says of a token: its version, unless a
\* revocation has come, and another version if a revocation has covered its session.
Tells(view, t, covered) ==
  \/ view.late
  \/ /\ tokens[t].at < commits \/ view.ver = tokens[t].ver
     /\ covered => tokens[t].sess \in excused \/ view.ver # tokens[t].ver

\* What a request holds, by where it stands.
RequestOK(r) ==
  /\ Listed(r.list) /\ Fresh(r.ver, r.at)
  /\ 1..r.mark \subseteq Sessions
  /\ r.op \in Presented => r.tok \in 1..Len(tokens)
  /\ r.pc \in {"get", "wait"} =>
       \/ r.op \in Presented \cup {"signin"}
       \/ r.op = "revoke" /\ r.does.reads \in {"own", "id", "email"}
  /\ r.pc = "row" => r.op = "revoke"
  /\ r.op # "revoke" => r.does = Usual
  /\ r.op = "revoke" /\ r.pc = "got" => r.does.adds = "row" \/ r.got \in Views
  /\ r.op = "refresh" /\ r.pc = "rotate" => r.tok \in Elements(r.list)
  /\ r.dead => r.op \in Presented /\ tokens[r.tok].sess \in dead
  /\ r.op \in Presented /\ r.pc = "got" => Tells(r.got, r.tok, r.dead)
  /\ r.pc = "refused" => r.op \in Presented /\ (tokens[r.tok].at < commits \/ r.got.late)
  /\ r.dead /\ r.pc \in {"admitted", "read", "rotate"} =>
       tokens[r.tok].sess \in excused \/ r.got.late

RequestsOK == \A p \in Procs : RequestOK(proc[p])

RowOK == Listed(row.list) /\ Fresh(0, 0)

TokensOK ==
  \A t \in 1..Len(tokens) :
    /\ Fresh(tokens[t].ver, tokens[t].at)
    /\ tokens[t].sess \in excused \/ tokens[t].ver <= row.ver

SessionsOK == (\E n \in Nat : Sessions = 1..n) /\ dead \subseteq Sessions

\* Who waits for a call waits under its key, and a call under a key of the cache has not
\* read a deleted row.
FlightsOK ==
  \A k \in Calls :
    /\ flight[k].waiting # {} <=> flight[k].running
    /\ k \in Keys /\ flight[k].got # None => ~flight[k].got.deleted
    /\ \A p \in flight[k].waiting : proc[p].pc = "wait" /\ KeyOf(p) = k

\* A token that was exchanged is out of the list, but for the sign-ins that wrote it back.
SpentOK ==
  \A t \in 1..MaxTokens :
    spent[t] > 0 => t \in 1..Len(tokens) /\ (t \in Elements(row.list) => t \in revived)

\* The row has moved on from the tokens that a committed revocation covers.
Revoked(t) == tokens[t].sess \in excused \/ tokens[t].ver < row.ver \/ row.deleted

RevokedOK ==
  /\ \A t \in 1..Len(tokens) : tokens[t].sess \in dead => Revoked(t)
  /\ \A p \in Procs : proc[p].pc = "invalidate" =>
       \A t \in 1..Len(tokens) : tokens[t].sess \in 1..proc[p].mark => Revoked(t)

CacheOK ==
  cache["token"] # None =>
    \A t \in 1..Len(tokens) : Tells(cache["token"], t, tokens[t].sess \in dead)

\* The inductive invariant.
Inv ==
  /\ Shapes /\ RequestsOK /\ RowOK /\ TokensOK /\ SessionsOK /\ FlightsOK /\ SpentOK
  /\ RevokedOK /\ CacheOK /\ NoSessionLost /\ RotatedOnce

-----------------------------------------------------------------------------
\* The records the requests are made of.

\* Where a revocation reads the account, and what it adds to.
LEMMA KindFacts ==
  \A does \in Revocations :
    /\ does.reads \in {"nothing", "row", "id", "email", "own"}
    /\ does.adds \in {"read", "row"}
    /\ does.reads = "nothing" => does.adds = "row"
<1>1. Usual.reads = "id"
  BY DEF Usual
<1>2. Bulk.reads = "own"
  BY Zenon DEF Bulk, Usual
<1>3. Logout.reads = "nothing" /\ Logout.adds = "row"
  BY Zenon DEF Logout, Usual
<1>4. ResetPasswordWithOTP.adds = "read" /\ ResetPasswordWithOTP.reads = "email"
  BY Zenon DEF ResetPasswordWithOTP, Usual
<1>5. ChangePassword.adds = "read" /\ ChangePassword.reads = "row"
  BY Zenon DEF ChangePassword, Usual
<1>6. AdminResetPassword.adds = "read" /\ AdminResetPassword.reads = "id"
  BY Zenon DEF AdminResetPassword, Usual
<1>7. RevokeUserSessions.adds = "row" /\ RevokeUserSessions.reads = "id"
  BY Zenon DEF RevokeUserSessions, Usual
<1>8. ChangeRoleUser.adds = "read" /\ ChangeRoleUser.reads = "id"
  BY Zenon DEF ChangeRoleUser, Usual
<1>9. DeleteUser.adds = "read" /\ DeleteUser.reads = "id"
  BY Zenon DEF DeleteUser, Usual
<1>10. RestoreUser.adds = "read" /\ RestoreUser.reads = "row"
  BY Zenon DEF RestoreUser, Usual
<1>11. BulkDeleteUsers.adds = "row" /\ BulkDeleteUsers.reads = "own"
  BY Zenon DEF BulkDeleteUsers, Bulk, Usual
<1>12. BulkRestoreUsers.adds = "row" /\ BulkRestoreUsers.reads = "own"
  BY Zenon DEF BulkRestoreUsers, Bulk, Usual
<1>13. BulkChangeUserRoles.adds = "row" /\ BulkChangeUserRoles.reads = "own"
  BY Zenon DEF BulkChangeUserRoles, Bulk, Usual
<1>14. BulkUpdateUserInfo.adds = "row" /\ BulkUpdateUserInfo.reads = "own"
  BY Zenon DEF BulkUpdateUserInfo, Bulk, Usual
<1> QED
  BY <1>3, <1>4, <1>5, <1>6, <1>7, <1>8, <1>9, <1>10, <1>11, <1>12, <1>13, <1>14 DEF Revocations

LEMMA UsualKind == Usual \in Revocations /\ Usual.reads = "id"
<1>1. Usual \in Revocations
  BY DEF Revocations, AdminResetPassword
<1>2. Usual.reads = "id"
  BY DEF Usual
<1> QED
  BY <1>1, <1>2

LEMMA IdleFacts ==
  /\ Idle \in Requests /\ Idle.does = Usual
  /\ Idle.op = "none" /\ Idle.pc = "idle" /\ Idle.tok = 0 /\ Idle.list = <<>> /\ Idle.ver = 0
  /\ Idle.at = 0 /\ Idle.tries = 0 /\ Idle.mark = 0 /\ Idle.dead = FALSE
  BY UsualKind, EmptySeq DEF Idle, Requests, Presented

LEMMA ViewFacts ==
  ASSUME NEW v \in Nat, NEW l \in BOOLEAN, NEW d \in BOOLEAN
  PROVE  /\ Value(v, l, d) \in Views /\ Value(v, l, d).ver = v
         /\ Value(v, l, d).late = l /\ Value(v, l, d).deleted = d
  BY DEF Value, Views

LEMMA InitInv == Init => Inv
<1> SUFFICES ASSUME Init PROVE Inv
  OBVIOUS
<1>1. /\ tokens = <<[ver |-> 0, sess |-> 1, at |-> 0]>> /\ Len(tokens) = 1
      /\ tokens[1].ver = 0 /\ tokens[1].sess = 1 /\ tokens[1].at = 0
  BY DEF Init
<1>2. /\ row.ver = 0 /\ row.list = <<1>> /\ Len(row.list) = 1 /\ row.list[1] = 1
      /\ row.deleted = FALSE /\ row \in Rows
  BY DEF Init, Rows
<1>3. Sessions = 1..1
  BY <1>1 DEF Sessions
<1>4. Shapes
  BY <1>1, <1>2, IdleFacts, SessionAssumption DEF Init, Shapes, Pairs, NoFlight, Fills
<1>5. RowOK /\ RequestOK(Idle)
  BY <1>1, <1>2, IdleFacts, EmptySeq, SessionAssumption
     DEF Init, RowOK, RequestOK, Listed, Fresh, Presented
<1>6. RequestsOK /\ FlightsOK /\ RevokedOK /\ CacheOK
  BY <1>1, <1>5, IdleFacts DEF Init, RequestsOK, FlightsOK, RevokedOK, CacheOK, NoFlight, Keys
<1>7. TokensOK /\ SessionsOK /\ SpentOK /\ RotatedOnce
  BY <1>1, <1>2, <1>3, SessionAssumption
     DEF Init, TokensOK, SessionsOK, SpentOK, RotatedOnce, Fresh
<1>8. NoSessionLost
  BY <1>1, <1>2 DEF NoSessionLost, Elements
<1> QED
  BY <1>4, <1>5, <1>6, <1>7, <1>8 DEF Inv

LEMMA ProcFacts ==
  ASSUME Inv, NEW p \in Procs
  PROVE  /\ proc[p] \in Requests /\ RequestOK(proc[p])
         /\ KeyOf(p) \in Calls \/ proc[p].pc \notin {"get", "wait"}
         /\ proc[p].op \in Presented => KeyOf(p) = "token"
<1>1. proc[p] \in Requests /\ RequestOK(proc[p])
  BY DEF Inv, Shapes, RequestsOK
<1>2. proc[p].op \in Presented => KeyOf(p) = "token"
  BY <1>1, UsualKind DEF KeyOf, Presented, RequestOK
<1>3. proc[p].op = "signin" => KeyOf(p) = "id"
  BY <1>1, UsualKind DEF KeyOf, RequestOK
<1>4. ASSUME proc[p].op = "revoke" PROVE KeyOf(p) \in {proc[p].does.reads, p}
  BY <1>4 DEF KeyOf
<1>5. ASSUME proc[p].op = "revoke", proc[p].does.reads = "own" PROVE KeyOf(p) = p
  BY <1>5 DEF KeyOf
<1> QED
  BY <1>1, <1>2, <1>3, <1>4, <1>5 DEF RequestOK, Calls, Keys

-----------------------------------------------------------------------------
\* Steps that change one request only.

LEMMA Local ==
  ASSUME Inv, NEW p \in Procs, NEW r \in Requests, RequestOK(r), r.pc # "invalidate",
         proc[p].pc # "wait", proc' = [proc EXCEPT ![p] = r], UNCHANGED <<state, tokens, history>>
  PROVE  Inv'
<1> USE DEF state, history
<1>1. /\ proc' \in [Procs -> Requests] /\ proc'[p] = r
      /\ \A q \in Procs : q # p => proc'[q] = proc[q]
  BY DEF Inv, Shapes
<1>2. Shapes'
  BY <1>1 DEF Inv, Shapes
<1>3. RequestsOK'
  BY <1>1 DEF Inv, RequestsOK, RequestOK, Listed, Fresh, Tells, Sessions, Elements
<1>4. RowOK' /\ TokensOK' /\ SessionsOK' /\ SpentOK' /\ CacheOK'
  BY DEF Inv, RowOK, TokensOK, SessionsOK, SpentOK, CacheOK, Listed, Fresh, Tells, Sessions,
         Elements
<1>5. FlightsOK'
  <2>1. \A k \in Calls : flight[k].waiting \subseteq Procs
    BY DEF Inv, Shapes, Fills
  <2>2. \A k \in Calls : \A q \in flight[k].waiting : q # p
    BY DEF Inv, FlightsOK
  <2>3. \A q \in Procs : q # p => KeyOf(q)' = KeyOf(q)
    BY <1>1 DEF KeyOf
  <2> QED
    BY <1>1, <2>1, <2>2, <2>3 DEF Inv, FlightsOK
<1>6. RevokedOK'
  BY <1>1 DEF Inv, RevokedOK, Revoked
<1>7. NoSessionLost' /\ RotatedOnce'
  BY DEF Inv, NoSessionLost, RotatedOnce, Elements
<1> QED
  BY <1>2, <1>3, <1>4, <1>5, <1>6, <1>7 DEF Inv

LEMMA IdleOK == ASSUME Inv PROVE RequestOK(Idle)
<1>1. Listed(Idle.list) /\ Fresh(Idle.ver, Idle.at)
  BY IdleFacts, EmptySeq, SessionAssumption DEF Inv, RowOK, Listed
<1>2. 1..Idle.mark = {}
  BY IdleFacts
<1> QED
  BY <1>1, <1>2, IdleFacts DEF RequestOK, Presented

LEMMA FinishInv ==
  ASSUME Inv, NEW p \in Procs, proc[p].pc # "wait", Finish(p), UNCHANGED <<state, tokens, history>>
  PROVE  Inv'
<1>1. proc' = [proc EXCEPT ![p] = Idle]
  BY DEF Finish
<1> QED
  BY <1>1, IdleOK, IdleFacts, Local

LEMMA AnswerInv == ASSUME Inv, NEW p \in Procs, Answer(p) PROVE Inv'
  BY FinishInv DEF Answer

LEMMA DecideInv == ASSUME Inv, NEW p \in Procs, Decide(p) PROVE Inv'
<1> DEFINE x == IF proc[p].got.ver # tokens[proc[p].tok].ver THEN "refused"
                ELSE IF proc[p].op = "request" THEN "admitted" ELSE "read"
           r == [proc[p] EXCEPT !.pc = x]
<1>1. /\ proc[p].op \in Presented /\ proc[p].pc = "got" /\ UNCHANGED <<state, tokens, history>>
      /\ proc' = [proc EXCEPT ![p] = r]
  BY DEF Decide, Goes, Presented
<1>2. x \in {"refused", "admitted", "read"}
  OBVIOUS
<1>3. /\ r \in Requests /\ r.pc = x /\ r.op = proc[p].op /\ r.does = proc[p].does
      /\ r.tok = proc[p].tok /\ r.got = proc[p].got /\ r.ver = proc[p].ver
      /\ r.list = proc[p].list /\ r.at = proc[p].at /\ r.mark = proc[p].mark
      /\ r.dead = proc[p].dead
  BY <1>2, ProcFacts DEF Requests
<1>4. Tells(r.got, r.tok, r.dead)
  BY <1>1, <1>3, ProcFacts DEF RequestOK
<1>5. x = "refused" <=> r.got.ver # tokens[r.tok].ver
  BY <1>3
<1> HIDE DEF x, r
<1>6. RequestOK(r)
  BY <1>1, <1>2, <1>3, <1>4, <1>5, ProcFacts DEF RequestOK, Tells
<1> QED
  BY <1>1, <1>2, <1>3, <1>6, Local

LEMMA ReadForRefreshInv == ASSUME Inv, NEW p \in Procs, ReadForRefresh(p) PROVE Inv'
<1> DEFINE n == proc[p].tries + 1
           v == IF proc[p].tries = 0 THEN row.ver ELSE proc[p].ver
           a == IF proc[p].tries = 0 THEN commits ELSE proc[p].at
           r == [proc[p] EXCEPT !.pc = "rotate", !.list = row.list, !.tries = n, !.ver = v,
                                !.at = a]
<1>1. /\ proc[p].op = "refresh" /\ proc[p].pc = "read" /\ UNCHANGED <<state, tokens, history>>
  BY DEF ReadForRefresh, At
<1>2. CASE row.deleted \/ proc[p].tok \notin Elements(row.list)
  BY <1>1, <1>2, FinishInv DEF ReadForRefresh, Finish
<1>3. CASE ~(row.deleted \/ proc[p].tok \notin Elements(row.list))
  <2>1. proc' = [proc EXCEPT ![p] = r]
    BY <1>3 DEF ReadForRefresh
  <2>2. /\ r \in Requests /\ r.pc = "rotate" /\ r.op = proc[p].op /\ r.does = proc[p].does
        /\ r.tok = proc[p].tok /\ r.got = proc[p].got /\ r.list = row.list
        /\ r.mark = proc[p].mark /\ r.dead = proc[p].dead
        /\ r.ver = v /\ r.at = a
    <3>1. n \in Nat /\ v \in Nat /\ a \in Nat
      <4>1. proc[p].tries \in Nat /\ proc[p].ver \in Nat /\ proc[p].at \in Nat
        BY ProcFacts DEF Requests
      <4>2. row.ver \in Nat /\ commits \in Nat
        BY DEF Inv, Shapes, Rows
      <4> QED
        BY <4>1, <4>2
    <3> HIDE DEF n, v, a
    <3> QED
      BY <3>1, ProcFacts DEF Requests, Inv, Shapes, Rows
  <2>3. Fresh(v, a)
    BY ProcFacts DEF RequestOK, Fresh, Inv, Shapes
  <2> HIDE DEF r, v, a
  <2>4. RequestOK(r)
    BY <1>1, <1>3, <2>2, <2>3, ProcFacts DEF RequestOK, Inv, RowOK, Presented
  <2> QED
    BY <1>1, <2>1, <2>2, <2>4, Local
<1> QED
  BY <1>2, <1>3

LEMMA RotateFailsInv == ASSUME Inv, NEW p \in Procs, RotateFails(p) PROVE Inv'
<1> DEFINE r == [proc[p] EXCEPT !.pc = "read"]
<1>1. /\ proc[p].op = "refresh" /\ proc[p].pc = "rotate" /\ UNCHANGED <<state, tokens, history>>
      /\ proc' = [proc EXCEPT ![p] = r] \/ Finish(p)
  BY DEF RotateFails, At, Goes
<1>2. /\ r \in Requests /\ r.pc = "read" /\ r.op = proc[p].op /\ r.does = proc[p].does
      /\ r.tok = proc[p].tok /\ r.got = proc[p].got /\ r.ver = proc[p].ver
      /\ r.list = proc[p].list /\ r.at = proc[p].at /\ r.mark = proc[p].mark
      /\ r.dead = proc[p].dead
  BY ProcFacts DEF Requests
<1> HIDE DEF r
<1>3. RequestOK(r)
  BY <1>1, <1>2, ProcFacts DEF RequestOK
<1> QED
  BY <1>1, <1>2, <1>3, Local, FinishInv

LEMMA AuthenticateInv == ASSUME Inv, NEW p \in Procs, Authenticate(p) PROVE Inv'
<1> DEFINE r == [proc[p] EXCEPT !.pc = "get", !.ver = row.ver, !.list = row.list, !.at = commits]
<1>1. /\ proc[p].op = "signin" /\ proc[p].pc = "auth" /\ UNCHANGED <<state, tokens, history>>
      /\ Finish(p) \/ proc' = [proc EXCEPT ![p] = r]
  BY DEF Authenticate, At, Finish
<1>2. /\ r \in Requests /\ r.pc = "get" /\ r.op = proc[p].op /\ r.does = proc[p].does
      /\ r.tok = proc[p].tok /\ r.got = proc[p].got /\ r.ver = row.ver
      /\ r.list = row.list /\ r.at = commits /\ r.mark = proc[p].mark
      /\ r.dead = proc[p].dead
  BY ProcFacts DEF Requests, Inv, Shapes, Rows
<1> HIDE DEF r
<1>3. RequestOK(r)
  BY <1>1, <1>2, ProcFacts DEF RequestOK, Inv, Shapes, RowOK, Fresh, Presented
<1> QED
  BY <1>1, <1>2, <1>3, Local, FinishInv

LEMMA ReadRowInv == ASSUME Inv, NEW p \in Procs, ReadRow(p) PROVE Inv'
<1> DEFINE v == Value(row.ver, FALSE, row.deleted)
           r == [proc[p] EXCEPT !.pc = "got", !.got = v]
<1>1. /\ proc[p].pc = "row" /\ UNCHANGED <<state, tokens, history>>
      /\ proc' = [proc EXCEPT ![p] = r]
  BY DEF ReadRow
<1>2. v \in Views
  BY ViewFacts DEF Inv, Shapes, Rows
<1> HIDE DEF v
<1>3. /\ r \in Requests /\ r.pc = "got" /\ r.op = proc[p].op /\ r.does = proc[p].does
      /\ r.tok = proc[p].tok /\ r.got = v /\ r.ver = proc[p].ver
      /\ r.list = proc[p].list /\ r.at = proc[p].at /\ r.mark = proc[p].mark
      /\ r.dead = proc[p].dead
  BY <1>2, ProcFacts DEF Requests
<1> HIDE DEF r
<1>4. RequestOK(r)
  BY <1>1, <1>2, <1>3, ProcFacts DEF RequestOK, Presented
<1> QED
  BY <1>1, <1>3, <1>4, Local

LEMMA StartInv ==
  ASSUME Inv, NEW p \in Procs, NEW r \in Requests, RequestOK(r), r.pc # "invalidate", Start(p, r)
  PROVE  Inv'
<1>1. /\ proc[p].pc = "idle" /\ proc' = [proc EXCEPT ![p] = r]
      /\ UNCHANGED <<state, tokens, history>>
  BY IdleFacts DEF Start
<1> QED
  BY <1>1, Local

LEMMA PresentInv == ASSUME Inv, NEW p \in Procs, NEW t \in DOMAIN tokens, Present(p, t) PROVE Inv'
<1>1. PICK op \in {"request", "refresh"} :
        Start(p, [Idle EXCEPT !.op = op, !.pc = "get", !.tok = t,
                              !.dead = tokens[t].sess \in dead])
  BY DEF Present
<1>2. t \in 1..Len(tokens) /\ t \in Nat
  BY DEF Inv, Shapes
<1> DEFINE d == tokens[t].sess \in dead
           r == [Idle EXCEPT !.op = op, !.pc = "get", !.tok = t, !.dead = d]
<1>3. d \in BOOLEAN /\ (d => tokens[t].sess \in dead)
  OBVIOUS
<1>4. Start(p, r)
  BY <1>1
<1> HIDE DEF d
<1>5. /\ r \in Requests /\ r.op = op /\ r.does = Usual /\ r.pc = "get" /\ r.tok = t
      /\ r.list = Idle.list /\ r.ver = Idle.ver /\ r.at = Idle.at /\ r.mark = Idle.mark
      /\ r.dead = d
  BY <1>2, <1>3, IdleFacts DEF Requests, Presented
<1> HIDE DEF r
<1>6. RequestOK(r)
  BY <1>2, <1>3, <1>5, IdleOK DEF RequestOK, Presented
<1> QED
  BY <1>4, <1>5, <1>6, StartInv

LEMMA SignInInv == ASSUME Inv, NEW p \in Procs, SignIn(p) PROVE Inv'
<1> DEFINE r == [Idle EXCEPT !.op = "signin", !.pc = "auth"]
<1>1. Start(p, r)
  BY DEF SignIn
<1>2. /\ r \in Requests /\ r.op = "signin" /\ r.does = Usual /\ r.pc = "auth"
      /\ r.list = Idle.list /\ r.ver = Idle.ver /\ r.at = Idle.at /\ r.mark = Idle.mark
      /\ r.dead = FALSE
  BY IdleFacts DEF Requests
<1> HIDE DEF r
<1>3. RequestOK(r)
  BY <1>2, IdleOK DEF RequestOK, Presented
<1> QED
  BY <1>1, <1>2, <1>3, StartInv

LEMMA RevokeInv == ASSUME Inv, NEW p \in Procs, Revoke(p) PROVE Inv'
<1>1. PICK does \in Revocations :
        Start(p, [Idle EXCEPT !.op = "revoke", !.does = does,
                              !.pc = CASE does.reads = "nothing" -> "got"
                                       [] does.reads = "row" -> "row"
                                       [] OTHER -> "get"])
  BY DEF Revoke
<1> DEFINE x == CASE does.reads = "nothing" -> "got"
                  [] does.reads = "row" -> "row"
                  [] OTHER -> "get"
           r == [Idle EXCEPT !.op = "revoke", !.does = does, !.pc = x]
<1>2. /\ x \in {"got", "row", "get"}
      /\ x = "got" => does.adds = "row"
      /\ x = "get" => does.reads \in {"id", "email", "own"}
  BY KindFacts
<1>3. Start(p, r)
  BY <1>1
<1> HIDE DEF x
<1>4. /\ r \in Requests /\ r.op = "revoke" /\ r.does = does /\ r.pc = x
      /\ r.list = Idle.list /\ r.ver = Idle.ver /\ r.at = Idle.at /\ r.mark = Idle.mark
      /\ r.dead = FALSE
  BY <1>2, IdleFacts DEF Requests, Presented
<1> HIDE DEF r
<1>5. RequestOK(r)
  BY <1>2, <1>4, IdleOK DEF RequestOK, Presented
<1> QED
  BY <1>2, <1>3, <1>4, <1>5, StartInv

-----------------------------------------------------------------------------
\* The cache: neither the row nor the tokens change.

LEMMA Quiet ==
  ASSUME Inv, UNCHANGED <<row, tokens, history>>, cache' \in [Keys -> Views \cup {None}],
         flight' \in [Calls -> Fills], proc' \in [Procs -> Requests],
         \A q \in Procs : RequestOK(proc'[q]) /\ (proc'[q].pc = "invalidate" => proc'[q] = proc[q]),
         FlightsOK', CacheOK'
  PROVE  Inv'
<1> USE DEF history
<1>1. Shapes'
  BY DEF Inv, Shapes
<1>2. RequestsOK'
  BY DEF Inv, RequestsOK, RequestOK, Listed, Fresh, Tells, Sessions, Elements
<1>3. RowOK' /\ TokensOK' /\ SessionsOK' /\ SpentOK'
  BY DEF Inv, RowOK, TokensOK, SessionsOK, SpentOK, Listed, Fresh, Sessions, Elements
<1>4. RevokedOK'
  BY DEF Inv, RevokedOK, Revoked
<1>5. NoSessionLost' /\ RotatedOnce'
  BY DEF Inv, NoSessionLost, RotatedOnce, Elements
<1> QED
  BY <1>1, <1>2, <1>3, <1>4, <1>5 DEF Inv

LEMMA KeysApart == \A k \in Keys : k \notin Procs
  BY SessionAssumption DEF Keys

LEMMA LookupInv == ASSUME Inv, NEW p \in Procs, Lookup(p) PROVE Inv'
<1> DEFINE k == KeyOf(p)
<1>1. proc[p].pc = "get" /\ UNCHANGED <<row, cache, tokens, ops, history>> /\ k \in Calls
  BY ProcFacts DEF Lookup
<1>2. CASE Cached(k) # None
  <2> DEFINE v == Cached(k)
             r == [proc[p] EXCEPT !.got = v, !.pc = "got"]
  <2>1. UNCHANGED <<state, tokens, history>> /\ proc' = [proc EXCEPT ![p] = r]
    BY <1>1, <1>2 DEF Lookup, state
  <2>2. v \in Views
    BY <1>1, <1>2 DEF Inv, Shapes, Cached, Calls, Keys
  <2>3. proc[p].op \in Presented => v = cache["token"]
    BY ProcFacts, KeysApart DEF Cached, Keys
  <2>4. proc[p].op \in Presented => Tells(v, proc[p].tok, proc[p].dead)
    BY <1>2, <2>3, ProcFacts DEF Inv, CacheOK, RequestOK, Tells
  <2> HIDE DEF v
  <2>5. /\ r \in Requests /\ r.pc = "got" /\ r.op = proc[p].op /\ r.does = proc[p].does
        /\ r.tok = proc[p].tok /\ r.got = v /\ r.ver = proc[p].ver
        /\ r.list = proc[p].list /\ r.at = proc[p].at /\ r.mark = proc[p].mark
        /\ r.dead = proc[p].dead
    BY <2>2, ProcFacts DEF Requests
  <2> HIDE DEF r
  <2>6. RequestOK(r)
    BY <1>1, <2>2, <2>4, <2>5, ProcFacts DEF RequestOK
  <2> QED
    BY <1>1, <2>1, <2>5, <2>6, Local
<1>3. CASE Cached(k) = None
  <2> DEFINE r == [proc[p] EXCEPT !.pc = "wait"]
             f == [flight EXCEPT ![k].running = TRUE, ![k].waiting = @ \cup {p}]
  <2>1. flight' = f /\ proc' = [proc EXCEPT ![p] = r]
    BY <1>3 DEF Lookup, Goes
  <2>2. /\ r \in Requests /\ r.pc = "wait" /\ r.op = proc[p].op /\ r.does = proc[p].does
        /\ r.tok = proc[p].tok /\ r.got = proc[p].got /\ r.ver = proc[p].ver
        /\ r.list = proc[p].list /\ r.at = proc[p].at /\ r.mark = proc[p].mark
        /\ r.dead = proc[p].dead
    BY ProcFacts DEF Requests
  <2> HIDE DEF r
  <2>3. RequestOK(r)
    BY <1>1, <2>2, ProcFacts DEF RequestOK
  <2>4. /\ proc' \in [Procs -> Requests] /\ proc'[p] = r
        /\ \A q \in Procs : q # p => proc'[q] = proc[q]
    BY <2>1, <2>2 DEF Inv, Shapes
  <2>5. /\ f \in [Calls -> Fills] /\ f[k].running = TRUE /\ f[k].got = flight[k].got
        /\ f[k].waiting = flight[k].waiting \cup {p}
        /\ \A l \in Calls : l # k => f[l] = flight[l]
    BY <1>1 DEF Inv, Shapes, Fills
  <2>6. KeyOf(p)' = k /\ \A q \in Procs : q # p => KeyOf(q)' = KeyOf(q)
    BY <2>2, <2>4 DEF KeyOf
  <2>7. FlightsOK'
    <3>1. \A l \in Calls : flight[l].waiting \subseteq Procs
      BY DEF Inv, Shapes, Fills
    <3> HIDE DEF f, k
    <3> QED
      BY <1>1, <2>1, <2>2, <2>4, <2>5, <2>6, <3>1 DEF Inv, FlightsOK
  <2>8. CacheOK'
    BY <1>1 DEF Inv, CacheOK, Tells, history
  <2> HIDE DEF f, k
  <2> QED
    BY <1>1, <2>1, <2>2, <2>3, <2>4, <2>5, <2>7, <2>8, Quiet DEF Inv, Shapes, RequestsOK
<1> QED
  BY <1>2, <1>3

LEMMA FlightReadsInv == ASSUME Inv, NEW k \in Calls, FlightReads(k) PROVE Inv'
<1> DEFINE v == Value(row.ver, FALSE, row.deleted)
<1>1. /\ UNCHANGED <<row, cache, proc, tokens, history>> /\ (~row.deleted \/ k \in Procs)
      /\ flight' = [flight EXCEPT ![k].got = v]
  BY DEF FlightReads
<1>2. v \in Views /\ v.deleted = row.deleted
  BY ViewFacts DEF Inv, Shapes, Rows
<1> HIDE DEF v
<1>3. /\ flight' \in [Calls -> Fills]
      /\ flight'[k].running = flight[k].running /\ flight'[k].got = v
      /\ flight'[k].waiting = flight[k].waiting
      /\ \A l \in Calls : l # k => flight'[l] = flight[l]
  BY <1>1, <1>2 DEF Inv, Shapes, Fills
<1>4. \A l \in Calls : flight[l].waiting \subseteq Procs
  BY DEF Inv, Shapes, Fills
<1>5. \A q \in Procs : KeyOf(q)' = KeyOf(q)
  BY <1>1 DEF KeyOf
<1>6. FlightsOK'
  BY <1>1, <1>2, <1>3, <1>4, <1>5, KeysApart DEF Inv, FlightsOK
<1>7. CacheOK'
  BY <1>1 DEF Inv, CacheOK, Tells, history
<1> QED
  BY <1>1, <1>3, <1>6, <1>7, Quiet DEF Inv, Shapes, RequestsOK

\* The requests that wait for a call go on together; the others stay.
LEMMA Answered ==
  ASSUME Inv, NEW k \in Calls, flight' = [flight EXCEPT ![k] = NoFlight],
         proc' \in [Procs -> Requests],
         \A q \in Procs : q \notin flight[k].waiting => proc'[q] = proc[q]
  PROVE  flight' \in [Calls -> Fills] /\ FlightsOK'
<1>1. NoFlight \in Fills /\ NoFlight.running = FALSE /\ NoFlight.got = None /\ NoFlight.waiting = {}
  BY DEF NoFlight, Fills
<1>2. /\ flight' \in [Calls -> Fills] /\ flight'[k] = NoFlight
      /\ \A l \in Calls : l # k => flight'[l] = flight[l]
  BY <1>1 DEF Inv, Shapes
<1>3. \A l \in Calls : flight[l].waiting \subseteq Procs
  BY DEF Inv, Shapes, Fills
<1>4. \A l \in Calls : l # k => \A q \in flight[l].waiting : q \notin flight[k].waiting
  BY <1>3 DEF Inv, FlightsOK
<1>5. \A q \in Procs : proc'[q] = proc[q] => KeyOf(q)' = KeyOf(q)
  BY DEF KeyOf
<1> QED
  BY <1>1, <1>2, <1>3, <1>4, <1>5 DEF Inv, FlightsOK

LEMMA FlightFailsInv == ASSUME Inv, NEW k \in Calls, FlightFails(k) PROVE Inv'
<1>1. /\ UNCHANGED <<row, cache, tokens, history>> /\ flight' = [flight EXCEPT ![k] = NoFlight]
      /\ proc' = [q \in Procs |-> IF q \in flight[k].waiting THEN Idle ELSE proc[q]]
  BY DEF FlightFails
<1>2. proc' \in [Procs -> Requests]
  BY <1>1, IdleFacts DEF Inv, Shapes
<1>3. CacheOK'
  BY <1>1 DEF Inv, CacheOK, Tells, history
<1>4. \A q \in Procs : RequestOK(proc'[q]) /\ (proc'[q].pc = "invalidate" => proc'[q] = proc[q])
  BY <1>1, IdleOK, IdleFacts DEF Inv, RequestsOK
<1> QED
  BY <1>1, <1>2, <1>3, <1>4, Answered, Quiet DEF Inv, Shapes

LEMMA FlightStoresInv == ASSUME Inv, NEW k \in Calls, FlightStores(k) PROVE Inv'
<1> DEFINE got == flight[k].got
           value == [got EXCEPT !.late = got.ver # row.ver \/ got.deleted # row.deleted]
<1>1. /\ UNCHANGED <<row, tokens, history>> /\ flight' = [flight EXCEPT ![k] = NoFlight]
      /\ got # None
      /\ cache' = [l \in Keys |->
                     IF l \in StoredUnder(k) /\ ~value.deleted THEN value ELSE cache[l]]
      /\ proc' = [q \in Procs |-> IF q \in flight[k].waiting
                    THEN [proc[q] EXCEPT !.got = value, !.pc = "got"] ELSE proc[q]]
  BY DEF FlightStores
<1>2. /\ value \in Views
      /\ ~value.late => value.ver = row.ver /\ value.deleted = row.deleted
      /\ value.deleted = got.deleted
  <2>1. got \in Views
    BY <1>1 DEF Inv, Shapes, Fills
  <2> DEFINE b == got.ver # row.ver \/ got.deleted # row.deleted
  <2>2. b \in BOOLEAN /\ (~b => got.ver = row.ver /\ got.deleted = row.deleted)
    OBVIOUS
  <2> HIDE DEF b
  <2> QED
    BY <2>1, <2>2 DEF Views
<1> HIDE DEF value
<1>3. ASSUME NEW t \in 1..Len(tokens), ~value.deleted
      PROVE  Tells(value, t, tokens[t].sess \in dead)
  <2>1. CASE value.late
    BY <2>1 DEF Tells
  <2>2. CASE ~value.late
    <3>1. value.ver = row.ver /\ ~row.deleted
      BY <1>2, <1>3, <2>2
    <3>2. tokens[t] \in Pairs /\ row.ver \in Nat /\ commits \in Nat
      BY ElementOfSeq DEF Inv, Shapes, Rows
    <3>3. tokens[t].at < commits \/ value.ver = tokens[t].ver
      BY <3>1, <3>2 DEF Inv, TokensOK, Fresh, Pairs
    <3>4. tokens[t].sess \in dead => tokens[t].sess \in excused \/ value.ver # tokens[t].ver
      BY <3>1, <3>2 DEF Inv, RevokedOK, Revoked, Pairs
    <3> QED
      BY <3>3, <3>4 DEF Tells
  <2> QED
    BY <2>1, <2>2
<1>4. proc' \in [Procs -> Requests]
  <2>1. \A r \in Requests : [r EXCEPT !.got = value, !.pc = "got"] \in Requests
    BY <1>2 DEF Requests
  <2> QED
    BY <1>1, <2>1, ProcFacts
<1>5. ASSUME NEW q \in Procs
      PROVE  RequestOK(proc'[q]) /\ (proc'[q].pc = "invalidate" => proc'[q] = proc[q])
  <2>1. CASE q \notin flight[k].waiting
    BY <1>1, <2>1 DEF Inv, RequestsOK
  <2>2. CASE q \in flight[k].waiting
    <3> DEFINE r == [proc[q] EXCEPT !.got = value, !.pc = "got"]
    <3>1. proc'[q] = r
      BY <1>1, <2>2
    <3>2. proc[q].pc = "wait" /\ KeyOf(q) = k
      BY <2>2 DEF Inv, FlightsOK
    <3>3. proc[q].op \in Presented => ~value.deleted
      BY <1>1, <1>2, <3>2, ProcFacts DEF Inv, FlightsOK, Keys
    <3>4. proc[q].op \in Presented => Tells(value, proc[q].tok, proc[q].dead)
      BY <1>3, <3>3, ProcFacts DEF RequestOK, Tells
    <3>5. /\ r \in Requests /\ r.pc = "got" /\ r.op = proc[q].op /\ r.does = proc[q].does
          /\ r.tok = proc[q].tok /\ r.got = value /\ r.ver = proc[q].ver
          /\ r.list = proc[q].list /\ r.at = proc[q].at /\ r.mark = proc[q].mark
          /\ r.dead = proc[q].dead
      BY <1>2, ProcFacts DEF Requests
    <3> HIDE DEF r
    <3>6. RequestOK(r)
      BY <1>2, <3>2, <3>4, <3>5, ProcFacts DEF RequestOK
    <3> QED
      BY <3>1, <3>5, <3>6
  <2> QED
    BY <2>1, <2>2
<1>6. cache' \in [Keys -> Views \cup {None}]
  BY <1>1, <1>2 DEF Inv, Shapes
<1>7. CacheOK'
  <2>1. \A t \in 1..Len(tokens) : ~value.deleted => Tells(value, t, tokens[t].sess \in dead)
    BY <1>3
  <2>2. cache'["token"] \in {cache["token"]} \/ (cache'["token"] = value /\ ~value.deleted)
    BY <1>1 DEF Keys
  <2> QED
    BY <1>1, <2>1, <2>2 DEF Inv, CacheOK, Tells, history
<1> QED
  BY <1>1, <1>4, <1>5, <1>6, <1>7, Answered, Quiet

LEMMA EvictInv == ASSUME Inv, NEW k \in Keys, Evict(k) PROVE Inv'
<1>1. /\ UNCHANGED <<row, flight, proc, tokens, history>>
      /\ cache' = [l \in Keys |-> IF l \in {k} THEN None ELSE cache[l]]
  BY DEF Evict, Drop
<1>2. cache' \in [Keys -> Views \cup {None}]
  BY <1>1 DEF Inv, Shapes
<1>3. CacheOK'
  BY <1>1 DEF Inv, CacheOK, Tells, history, Keys
<1>4. FlightsOK'
  BY <1>1 DEF Inv, FlightsOK, KeyOf
<1> QED
  BY <1>1, <1>2, <1>3, <1>4, Quiet DEF Inv, Shapes, RequestsOK

-----------------------------------------------------------------------------
\* Steps that change the row or the tokens.  Tokens stay, and so does the version unless a
\* revocation is counted; what a request holds is then as true as before.

LEMMA Kept ==
  ASSUME Inv, tokens' \in Seq(Pairs), Len(tokens) <= Len(tokens'),
         \A t \in 1..Len(tokens) : tokens'[t] = tokens[t],
         commits' \in Nat, commits <= commits', commits' = commits => row'.ver = row.ver,
         dead \subseteq dead', excused \subseteq excused',
         NEW r \in Requests, RequestOK(r)
  PROVE  RequestOK(r)'
<1>1. Len(tokens) \in Nat /\ Len(tokens') \in Nat /\ commits \in Nat
  BY LenProperties DEF Inv, Shapes
<1>2. Listed(r.list)'
  <2>1. 1..Len(tokens) \subseteq 1..Len(tokens')
    BY <1>1
  <2> QED
    BY <2>1 DEF RequestOK, Listed
<1>3. Fresh(r.ver, r.at)'
  BY <1>1 DEF RequestOK, Fresh, Requests
<1>4. Sessions \subseteq Sessions'
  <2>1. DOMAIN tokens = 1..Len(tokens) /\ DOMAIN tokens' = 1..Len(tokens')
    BY LenProperties DEF Inv, Shapes
  <2>2. \A t \in DOMAIN tokens : t \in DOMAIN tokens' /\ tokens'[t].sess = tokens[t].sess
    BY <1>1, <2>1
  <2> QED
    BY <2>2 DEF Sessions
<1>5. ASSUME r.op \in Presented
      PROVE  /\ r.tok \in 1..Len(tokens') /\ tokens'[r.tok] = tokens[r.tok]
             /\ tokens[r.tok].at < commits => tokens'[r.tok].at < commits'
  <2>1. r.tok \in 1..Len(tokens) /\ r.tok \in 1..Len(tokens')
    BY <1>1, <1>5 DEF RequestOK
  <2>2. tokens[r.tok].at \in Nat
    <3>1. tokens[r.tok] \in Pairs
      BY <2>1, ElementOfSeq DEF Inv, Shapes
    <3> QED
      BY <3>1 DEF Pairs
  <2> QED
    BY <1>1, <2>1, <2>2
<1>6. ASSUME r.op \in Presented, NEW d \in BOOLEAN, Tells(r.got, r.tok, d)
      PROVE  Tells(r.got, r.tok, d)'
  <2>1. CASE r.got.late
    BY <2>1 DEF Tells
  <2>2. CASE ~r.got.late
    <3>1. tokens[r.tok].at < commits \/ r.got.ver = tokens[r.tok].ver
      BY <1>6, <2>2 DEF Tells
    <3>2. tokens'[r.tok].at < commits' \/ r.got.ver = tokens'[r.tok].ver
      BY <1>5, <1>6, <3>1
    <3>3. d => tokens'[r.tok].sess \in excused' \/ r.got.ver # tokens'[r.tok].ver
      BY <1>5, <1>6, <2>2 DEF Tells
    <3> QED
      BY <3>2, <3>3 DEF Tells
  <2> QED
    BY <2>1, <2>2
<1>7. r.dead \in BOOLEAN
  BY DEF Requests
<1>8. r.op \in Presented /\ r.pc = "got" => Tells(r.got, r.tok, r.dead)'
  BY <1>6, <1>7 DEF RequestOK
<1>9. r.pc = "refused" => r.op \in Presented /\ (tokens'[r.tok].at < commits' \/ r.got.late)
  BY <1>5 DEF RequestOK
<1>10. r.dead => r.op \in Presented /\ tokens'[r.tok].sess \in dead'
  BY <1>5 DEF RequestOK
<1>11. r.dead /\ r.pc \in {"admitted", "read", "rotate"} =>
         tokens'[r.tok].sess \in excused' \/ r.got.late
  BY <1>5 DEF RequestOK
<1>12. r.op \in Presented => r.tok \in 1..Len(tokens')
  BY <1>5
<1> QED
  BY <1>2, <1>3, <1>4, <1>8, <1>9, <1>10, <1>11, <1>12 DEF RequestOK, Elements

LEMMA OthersWait ==
  ASSUME Inv, NEW p \in Procs, proc[p].pc # "wait", flight' = flight,
         \A q \in Procs : q # p => proc'[q] = proc[q]
  PROVE  FlightsOK'
<1>1. \A k \in Calls : flight[k].waiting \subseteq Procs
  BY DEF Inv, Shapes, Fills
<1>2. \A k \in Calls : \A q \in flight[k].waiting : q # p
  BY DEF Inv, FlightsOK
<1>3. \A q \in Procs : q # p => KeyOf(q)' = KeyOf(q)
  BY DEF KeyOf
<1> QED
  BY <1>1, <1>2, <1>3 DEF Inv, FlightsOK

LEMMA FinishFacts ==
  ASSUME Inv, NEW p \in Procs, Finish(p)
  PROVE  /\ proc' \in [Procs -> Requests] /\ proc'[p] = Idle
         /\ \A q \in Procs : q # p => proc'[q] = proc[q]
  BY IdleFacts DEF Inv, Shapes, Finish

LEMMA InvalidateInv == ASSUME Inv, NEW p \in Procs, Invalidate(p) PROVE Inv'
<1>1. /\ proc[p].pc = "invalidate" /\ Finish(p) /\ dead' = dead \cup 1..proc[p].mark
      /\ UNCHANGED <<row, flight, tokens, commits, excused, spent, revived, lost>>
      /\ cache' = [k \in Keys |-> IF k \in Keys THEN None ELSE cache[k]]
  BY DEF Invalidate, Drop
<1>2. /\ proc' \in [Procs -> Requests] /\ proc'[p] = Idle
      /\ \A q \in Procs : q # p => proc'[q] = proc[q]
  BY <1>1, FinishFacts
<1>3. Shapes' /\ CacheOK'
  BY <1>1, <1>2 DEF Inv, Shapes, CacheOK, Keys
<1>4. RequestsOK'
  <2>1. \A r \in Requests : RequestOK(r) => RequestOK(r)'
    BY <1>1, Kept DEF Inv, Shapes
  <2> QED
    BY <1>2, <2>1, IdleOK, IdleFacts, ProcFacts DEF RequestsOK
<1>5. RowOK' /\ TokensOK' /\ SpentOK'
  BY <1>1 DEF Inv, RowOK, TokensOK, SpentOK, Listed, Fresh, Elements
<1>6. SessionsOK'
  BY <1>1, ProcFacts DEF Inv, SessionsOK, Sessions, RequestOK
<1>7. FlightsOK'
  BY <1>1, <1>2, OthersWait
<1>8. RevokedOK'
  BY <1>1, <1>2, IdleFacts DEF Inv, RevokedOK, Revoked
<1>9. NoSessionLost' /\ RotatedOnce'
  BY <1>1 DEF Inv, NoSessionLost, RotatedOnce, Elements
<1> QED
  BY <1>3, <1>4, <1>5, <1>6, <1>7, <1>8, <1>9 DEF Inv

LEMMA SessionCount ==
  ASSUME Inv
  PROVE  Cardinality(Sessions) \in Nat /\ Sessions = 1..Cardinality(Sessions)
<1>1. PICK n \in Nat : Sessions = 1..n
  BY DEF Inv, SessionsOK
<1>2. Cardinality(1..n) = n
  BY FS_Interval
<1> QED
  BY <1>1, <1>2

LEMMA NextVersionNat ==
  ASSUME Inv, NEW p \in Procs, proc[p].op = "revoke", proc[p].pc = "got"
  PROVE  NextVersion(p) \in Nat
  BY ProcFacts DEF NextVersion, RequestOK, Inv, Shapes, Rows, Views

LEMMA CommitInv == ASSUME Inv, NEW p \in Procs, Commit(p) PROVE Inv'
<1> DEFINE does == proc[p].does
           applies == ~row.deleted \/ does.gone = "matches"
           m == Cardinality(Sessions)
           rr == [Idle EXCEPT !.pc = "invalidate", !.mark = m]
<1>1. /\ proc[p].op = "revoke" /\ proc[p].pc = "got"
      /\ UNCHANGED <<cache, flight, tokens, ops, dead, spent, revived, lost>>
  BY DEF Commit, At
<1>2. CASE Skips(p) \/ (row.deleted /\ does.gone = "fails")
  <2>1. Finish(p) /\ UNCHANGED <<state, tokens, history>>
    BY <1>2 DEF Commit, state, history
  <2> QED
    BY <1>1, <2>1, FinishInv
<1>3. CASE ~(Skips(p) \/ (row.deleted /\ does.gone = "fails"))
  <2>1. /\ row' = IF ~applies THEN row ELSE
                     [ver     |-> NextVersion(p),
                      list    |-> IF does.clears THEN <<>> ELSE row.list,
                      deleted |-> CASE does.leaves = "same" -> row.deleted
                                    [] OTHER -> does.leaves = "deleted"]
        /\ commits' = commits + 1
        /\ excused' = IF applies /\ NextVersion(p) <= row.ver /\ does.adds = "read"
                         THEN excused \cup Sessions ELSE excused
        /\ proc' = [proc EXCEPT ![p] = rr]
    BY <1>3 DEF Commit
  <2>2. NextVersion(p) \in Nat /\ row.ver \in Nat /\ commits \in Nat /\ row \in Rows
    BY <1>1, NextVersionNat DEF Inv, Shapes, Rows
  <2>3. NextVersion(p) > row.ver \/ (NextVersion(p) <= row.ver /\ does.adds = "read")
    <3>1. CASE does.adds = "row"
      BY <2>2, <3>1 DEF NextVersion
    <3>2. CASE does.adds # "row"
      BY <2>2, <3>2, KindFacts, ProcFacts DEF Requests
    <3> QED
      BY <3>1, <3>2
  <2>4. /\ row' \in Rows
        /\ row'.list = row.list \/ row'.list = <<>>
        /\ applies => row'.ver = NextVersion(p)
        /\ ~applies => row' = row /\ row.deleted
    <3> DEFINE del == CASE does.leaves = "same" -> row.deleted
                        [] OTHER -> does.leaves = "deleted"
               l == IF does.clears THEN <<>> ELSE row.list
    <3>1. del \in BOOLEAN
      BY <2>2 DEF Rows
    <3>2. l \in Seq(Nat) /\ (l = row.list \/ l = <<>>)
      BY <2>2, EmptySeq DEF Rows
    <3>3. row' = IF ~applies THEN row ELSE [ver |-> NextVersion(p), list |-> l, deleted |-> del]
      BY <2>1
    <3> HIDE DEF del, l, applies
    <3>4. CASE applies
      BY <2>2, <3>1, <3>2, <3>3, <3>4 DEF Rows
    <3>5. CASE ~applies
      BY <2>2, <3>3, <3>5 DEF Rows, applies
    <3> QED
      BY <3>4, <3>5
  <2>5. m \in Nat /\ Sessions = 1..m
    BY SessionCount
  <2>6. PICK r \in Requests :
          /\ r = rr /\ r.pc = "invalidate" /\ r.op = "none" /\ r.does = Usual
          /\ r.list = Idle.list /\ r.ver = Idle.ver /\ r.at = Idle.at /\ r.mark = m
          /\ r.dead = FALSE
    <3> HIDE DEF m
    <3>1. /\ rr \in Requests /\ rr.pc = "invalidate" /\ rr.op = "none" /\ rr.does = Usual
          /\ rr.list = Idle.list /\ rr.ver = Idle.ver /\ rr.at = Idle.at /\ rr.mark = m
          /\ rr.dead = FALSE
      BY <2>5, IdleFacts DEF Requests
    <3> HIDE DEF rr
    <3> QED
      BY <3>1
  <2> HIDE DEF rr, m
  <2>7. /\ proc' \in [Procs -> Requests] /\ proc'[p] = r
        /\ \A q \in Procs : q # p => proc'[q] = proc[q]
    BY <2>1, <2>6 DEF Inv, Shapes
  <2>8. \A t \in 1..Len(tokens) : tokens[t] \in Pairs /\ tokens[t].sess \in Sessions
    BY ElementOfSeq DEF Inv, Shapes, Sessions
  <2>9. ASSUME NEW t \in 1..Len(tokens)
        PROVE  /\ tokens[t].at < commits'
               /\ tokens[t].sess \in excused' \/ tokens[t].ver <= row'.ver
               /\ Revoked(t)'
    <3>1. tokens[t].at < commits'
      BY <2>1, <2>2, <2>8 DEF Inv, TokensOK, Fresh, Pairs
    <3>2. tokens[t].sess \in excused \/ tokens[t].ver <= row.ver
      BY DEF Inv, TokensOK
    <3>3. CASE ~applies
      BY <1>1, <2>1, <2>4, <3>1, <3>2, <3>3 DEF Revoked
    <3>4. CASE applies /\ NextVersion(p) > row.ver
      <4>1. tokens[t].sess \in excused' \/ tokens[t].ver < row'.ver
        BY <2>1, <2>2, <2>4, <2>8, <3>2, <3>4 DEF Pairs
      <4> QED
        BY <1>1, <2>2, <2>4, <2>8, <3>1, <3>4, <4>1 DEF Revoked, Pairs
    <3>5. CASE applies /\ NextVersion(p) <= row.ver /\ does.adds = "read"
      BY <1>1, <2>1, <2>8, <3>1, <3>5 DEF Revoked
    <3> QED
      BY <2>3, <3>3, <3>4, <3>5
  <2>10. excused \subseteq excused' /\ commits' \in Nat /\ commits < commits'
    BY <2>1, <2>2
  <2> HIDE DEF does, applies
  <2>11. \A s \in Requests : RequestOK(s) => RequestOK(s)'
    BY <1>1, <2>2, <2>10, Kept DEF Inv, Shapes
  <2>12. RequestOK(r)'
    <3>1. RequestOK(Idle)'
      BY <2>11, IdleOK, IdleFacts
    <3>2. Sessions' = 1..m
      BY <1>1, <2>5 DEF Sessions
    <3> QED
      BY <2>6, <3>1, <3>2 DEF RequestOK, Presented
  <2>13. RequestsOK'
    BY <2>7, <2>11, <2>12, ProcFacts DEF RequestsOK
  <2>14. Shapes'
    BY <1>1, <2>4, <2>7, <2>10 DEF Inv, Shapes
  <2>15. Len(<<>>) = 0 /\ DOMAIN <<>> = {} /\ 0 <= MaxActive
    BY SessionAssumption
  <2>16. Elements(row'.list) \subseteq Elements(row.list) /\ Listed(row.list)'
    BY <1>1, <2>4, <2>15 DEF Inv, RowOK, Listed, Elements
  <2>17. RowOK' /\ TokensOK' /\ SessionsOK' /\ SpentOK'
    <3>1. RowOK'
      BY <2>2, <2>10, <2>16 DEF RowOK, Fresh
    <3>2. TokensOK'
      BY <1>1, <2>8, <2>9, <2>10 DEF TokensOK, Fresh, Pairs
    <3> QED
      BY <1>1, <2>16, <3>1, <3>2 DEF Inv, SessionsOK, Sessions, SpentOK
  <2>18. FlightsOK'
    BY <1>1, <2>7, OthersWait
  <2>19. RevokedOK'
    BY <1>1, <2>9 DEF RevokedOK
  <2>20. CacheOK'
    BY <1>1, <2>9, <2>10 DEF Inv, CacheOK, Tells
  <2>21. NoSessionLost' /\ RotatedOnce'
    <3>1. DOMAIN tokens = 1..Len(tokens)
      BY DEF Inv, Shapes
    <3> QED
      BY <1>1, <2>8, <2>9, <2>10, <3>1 DEF Inv, NoSessionLost, RotatedOnce, Pairs
  <2> QED
    BY <2>13, <2>14, <2>17, <2>18, <2>19, <2>20, <2>21 DEF Inv
<1> QED
  BY <1>2, <1>3

-----------------------------------------------------------------------------
\* Issuing tokens.

LEMMA IssueFacts ==
  ASSUME Inv, NEW e \in Pairs, tokens' = Append(tokens, e), Len(tokens) < MaxTokens
  PROVE  /\ tokens' \in Seq(Pairs) /\ Len(tokens') = NewToken /\ Len(tokens') <= MaxTokens
         /\ Len(tokens) \in Nat /\ NewToken = Len(tokens) + 1
         /\ \A t \in 1..Len(tokens) : tokens'[t] = tokens[t] /\ tokens[t] \in Pairs
         /\ tokens'[NewToken] = e
         /\ Sessions' = Sessions \cup {e.sess}
         /\ DOMAIN tokens = 1..Len(tokens) /\ DOMAIN tokens' = 1..NewToken
<1>1. Len(tokens) \in Nat /\ tokens \in Seq(Pairs) /\ DOMAIN tokens = 1..Len(tokens)
  BY LenProperties DEF Inv, Shapes
<1>2. /\ tokens' \in Seq(Pairs) /\ Len(tokens') = Len(tokens) + 1
      /\ \A t \in 1..Len(tokens) : tokens'[t] = tokens[t]
      /\ tokens'[Len(tokens) + 1] = e
  BY <1>1, AppendProperties
<1>3. DOMAIN tokens' = 1..(Len(tokens) + 1)
  BY <1>2, LenProperties
<1>4. \A t \in 1..Len(tokens) : tokens[t] \in Pairs
  BY <1>1, ElementOfSeq
<1>5. Sessions' = Sessions \cup {e.sess}
  BY <1>1, <1>2, <1>3 DEF Sessions
<1> QED
  BY <1>1, <1>2, <1>3, <1>4, <1>5, SessionAssumption DEF NewToken

\* A list of different tokens, of those up to n.
Distinct(l) == \A i, j \in 1..Len(l) : l[i] = l[j] => i = j

\* addRefreshToken keeps within the limit and takes nothing but the new token in.
LEMMA AddFacts ==
  ASSUME NEW l \in Seq(Nat), Distinct(l), Len(l) <= MaxActive, NEW n \in Nat,
         \A j \in 1..Len(l) : l[j] # n
  PROVE  /\ Add(l, n) \in Seq(Nat) /\ Len(Add(l, n)) <= MaxActive /\ Distinct(Add(l, n))
         /\ Elements(Add(l, n)) \subseteq Elements(l) \cup {n}
         /\ n \in Elements(Add(l, n))
<1> DEFINE low == Len(l) - MaxActive + 2
           kept == IF Len(l) >= MaxActive THEN SubSeq(l, low, Len(l)) ELSE l
<1>1. Len(l) \in Nat /\ MaxActive \in Nat /\ MaxActive >= 1
  BY LenProperties, SessionAssumption
<1>2. Len(l) \in Nat /\ DOMAIN l = 1..Len(l) /\ \A j \in 1..Len(l) : l[j] \in Nat
  BY LenProperties, ElementOfSeq
<1>3. PICK d \in Nat :
        /\ kept \in Seq(Nat) /\ Len(kept) < MaxActive /\ Len(kept) + d <= Len(l)
        /\ \A j \in 1..Len(kept) : kept[j] = l[j + d]
  <2>1. CASE Len(l) >= MaxActive
    <3>1. Len(l) = MaxActive /\ low = 2
      BY <1>1, <2>1
    <3>2. /\ SubSeq(l, 2, Len(l)) \in Seq(Nat)
          /\ Len(SubSeq(l, 2, Len(l))) = Len(l) - 1
          /\ \A j \in 1..(Len(l) - 1) : SubSeq(l, 2, Len(l))[j] = l[j + 1]
      <4>1. \A j \in 2..Len(l) : l[j] \in Nat
        BY <1>2
      <4>2. /\ SubSeq(l, 2, Len(l)) \in Seq(Nat)
            /\ Len(SubSeq(l, 2, Len(l))) = IF 2 <= Len(l) THEN Len(l) - 2 + 1 ELSE 0
            /\ \A j \in 1..(Len(l) - 2 + 1) : SubSeq(l, 2, Len(l))[j] = l[2 + j - 1]
        BY <1>2, <4>1, SubSeqProperties
      <4>3. Len(l) >= 1
        BY <1>1, <3>1
      <4> QED
        BY <1>2, <4>2, <4>3
    <3>3. kept = SubSeq(l, 2, Len(l))
      BY <2>1, <3>1
    <3> HIDE DEF kept
    <3>4. Len(kept) < MaxActive /\ Len(kept) + 1 <= Len(l)
      BY <1>1, <3>1, <3>2, <3>3
    <3>5. \A j \in 1..Len(kept) : kept[j] = l[j + 1]
      BY <1>2, <3>2, <3>3
    <3> WITNESS 1 \in Nat
    <3> QED
      BY <3>2, <3>3, <3>4, <3>5
  <2>2. CASE Len(l) < MaxActive
    <3>1. kept = l
      BY <1>1, <2>2
    <3> HIDE DEF kept
    <3>2. \A j \in 1..Len(kept) : kept[j] = l[j + 0]
      BY <1>2, <3>1
    <3> WITNESS 0 \in Nat
    <3> QED
      BY <1>2, <2>2, <3>1, <3>2
  <2>3. Len(l) >= MaxActive \/ Len(l) < MaxActive
    BY <1>1
  <2> HIDE DEF kept
  <2> QED
    BY <2>1, <2>2, <2>3
<1>4. Add(l, n) = Append(kept, n)
  BY DEF Add
<1> HIDE DEF kept
<1>5. PICK a \in Seq(Nat) : a = Add(l, n)
  BY <1>3, <1>4, AppendProperties
<1>6. /\ Len(kept) \in Nat /\ Len(a) = Len(kept) + 1 /\ DOMAIN a = 1..(Len(kept) + 1)
      /\ \A j \in 1..Len(kept) : a[j] = l[j + d]
      /\ a[Len(kept) + 1] = n
  <2>1. Len(kept) \in Nat
    BY <1>3, LenProperties
  <2>2. /\ Len(a) = Len(kept) + 1 /\ a[Len(kept) + 1] = n
        /\ \A j \in 1..Len(kept) : a[j] = kept[j]
    BY <1>3, <1>4, <1>5, AppendProperties
  <2> QED
    BY <1>3, <1>5, <2>1, <2>2, LenProperties
<1>7. \A j \in 1..Len(kept) : j + d \in 1..Len(l)
  BY <1>2, <1>3, <1>6
<1>8. Distinct(a)
  <2>1. \A i, j \in 1..Len(kept) : a[i] = a[j] => i = j
    BY <1>3, <1>6, <1>7 DEF Distinct
  <2>2. \A j \in 1..Len(kept) : a[j] # n
    BY <1>6, <1>7
  <2>3. \A j \in 1..Len(a) : j \in 1..Len(kept) \/ j = Len(kept) + 1
    BY <1>6
  <2> QED
    BY <1>6, <2>1, <2>2, <2>3 DEF Distinct
<1>9. Elements(a) \subseteq Elements(l) \cup {n} /\ n \in Elements(a)
  <2>1. \A j \in DOMAIN a : a[j] = n \/ \E i \in DOMAIN l : a[j] = l[i]
    <3>1. ASSUME NEW j \in 1..Len(kept) PROVE \E i \in DOMAIN l : a[j] = l[i]
      <4>1. j + d \in DOMAIN l /\ a[j] = l[j + d]
        BY <1>2, <1>6, <1>7
      <4> QED
        BY <4>1
    <3>2. \A j \in DOMAIN a : j \in 1..Len(kept) \/ j = Len(kept) + 1
      BY <1>6
    <3> QED
      BY <1>6, <3>1, <3>2
  <2>2. Len(kept) + 1 \in DOMAIN a
    BY <1>6
  <2> QED
    BY <1>6, <2>1, <2>2 DEF Elements
<1>10. Len(a) <= MaxActive
  BY <1>1, <1>3, <1>6
<1> QED
  BY <1>5, <1>8, <1>9, <1>10

\* The parts of the invariant that an issued token touches.
LEMMA Issued ==
  ASSUME Inv, NEW p \in Procs, NEW e \in Pairs, tokens' = Append(tokens, e),
         Len(tokens) < MaxTokens, proc[p].pc # "wait", Finish(p), cache'["token"] = None,
         e.at <= commits, e.at = commits => e.ver = row.ver,
         e.ver <= row.ver \/ e.sess \in excused',
         row'.ver = row.ver, row'.deleted = row.deleted,
         UNCHANGED <<flight, commits, dead>>, excused \subseteq excused',
         \/ e.sess = Cardinality(Sessions) + 1
         \/ \E u \in 1..Len(tokens) : /\ e.sess = tokens[u].sess
                                      /\ e.ver = tokens[u].ver \/ e.sess \in excused'
  PROVE  RequestsOK' /\ TokensOK' /\ SessionsOK' /\ FlightsOK' /\ RevokedOK' /\ CacheOK'
<1>1. PICK n \in Nat :
      /\ tokens' \in Seq(Pairs) /\ Len(tokens') = n /\ Len(tokens) \in Nat
      /\ n = Len(tokens) + 1
      /\ \A t \in 1..Len(tokens) : tokens'[t] = tokens[t] /\ tokens[t] \in Pairs
      /\ tokens'[n] = e
      /\ Sessions' = Sessions \cup {e.sess}
      /\ DOMAIN tokens = 1..Len(tokens)
  <2>1. NewToken \in Nat
    BY IssueFacts
  <2> QED
    BY <2>1, IssueFacts
<1>2. /\ proc' \in [Procs -> Requests] /\ proc'[p] = Idle
      /\ \A q \in Procs : q # p => proc'[q] = proc[q]
  BY FinishFacts
<1>3. Cardinality(Sessions) \in Nat /\ Sessions = 1..Cardinality(Sessions)
  BY SessionCount
<1>4. \A t \in 1..n : t \in 1..Len(tokens) \/ t = n
  BY <1>1
<1>5. \A u \in 1..Len(tokens) : tokens[u].sess \in Sessions
  BY <1>1 DEF Sessions
<1>6. RequestsOK'
  <2>1. \A r \in Requests : RequestOK(r) => RequestOK(r)'
    BY <1>1, Kept DEF Inv, Shapes
  <2> QED
    BY <1>2, <2>1, IdleOK, IdleFacts, ProcFacts DEF RequestsOK
<1>7. TokensOK'
  BY <1>1, <1>4 DEF Inv, TokensOK, Fresh
<1>8. SessionsOK'
  <2>1. Sessions' = Sessions \/ Sessions' = 1..(Cardinality(Sessions) + 1)
    BY <1>1, <1>3, <1>5
  <2> QED
    BY <1>1, <1>3, <2>1 DEF Inv, SessionsOK
<1>9. FlightsOK'
  BY <1>2, OthersWait
<1>10. \A t \in 1..Len(tokens) : Revoked(t) => Revoked(t)'
  BY <1>1 DEF Revoked
<1>11. ASSUME NEW S \in SUBSET Sessions,
              \A t \in 1..Len(tokens) : tokens[t].sess \in S => Revoked(t)
       PROVE  \A t \in 1..n : tokens'[t].sess \in S => Revoked(t)'
  <2>1. \A t \in 1..Len(tokens) : tokens'[t].sess \in S => Revoked(t)'
    BY <1>1, <1>10, <1>11
  <2>2. e.sess \in S => Revoked(n)'
    <3>1. CASE e.sess = Cardinality(Sessions) + 1
      BY <1>3, <3>1
    <3>2. CASE \E u \in 1..Len(tokens) : /\ e.sess = tokens[u].sess
                                         /\ e.ver = tokens[u].ver \/ e.sess \in excused'
      BY <1>1, <1>11, <3>2 DEF Revoked
    <3> QED
      BY <3>1, <3>2
  <2> QED
    BY <1>1, <1>4, <2>1, <2>2
<1>12. RevokedOK'
  <2>1. \A t \in 1..n : tokens'[t].sess \in dead => Revoked(t)'
    BY <1>11 DEF Inv, SessionsOK, RevokedOK
  <2>2. ASSUME NEW q \in Procs, proc'[q].pc = "invalidate"
        PROVE  \A t \in 1..n : tokens'[t].sess \in 1..proc[q].mark => Revoked(t)'
    <3>1. q # p /\ proc'[q] = proc[q]
      BY <1>2, <2>2, IdleFacts
    <3>2. 1..proc[q].mark \subseteq Sessions
      BY ProcFacts DEF RequestOK
    <3> QED
      BY <1>11, <2>2, <3>1, <3>2 DEF Inv, RevokedOK
  <2>3. \A q \in Procs : proc'[q].pc = "invalidate" => proc'[q] = proc[q]
    BY <1>2, IdleFacts
  <2> QED
    BY <1>1, <2>1, <2>2, <2>3 DEF RevokedOK
<1>13. CacheOK'
  BY DEF CacheOK
<1> QED
  BY <1>6, <1>7, <1>8, <1>9, <1>12, <1>13

LEMMA RotateInv == ASSUME Inv, NEW p \in Procs, Rotate(p) PROVE Inv'
<1> DEFINE old == proc[p].tok
           first == CHOOSE i \in DOMAIN proc[p].list :
                      proc[p].list[i] = old /\ \A j \in 1..(i - 1) : proc[p].list[j] # old
           stale == proc[p].ver # tokens[old].ver \/ proc[p].ver > row.ver
           e == [ver |-> proc[p].ver, sess |-> tokens[old].sess, at |-> proc[p].at]
           list == [proc[p].list EXCEPT ![first] = NewToken]
<1>1. /\ proc[p].op = "refresh" /\ proc[p].pc = "rotate" /\ row.list = proc[p].list
      /\ Len(tokens) < MaxTokens /\ Finish(p)
      /\ row' = [row EXCEPT !.list = list]
      /\ tokens' = Append(tokens, e)
      /\ spent' = [spent EXCEPT ![old] = @ + 1]
      /\ excused' = IF stale THEN excused \cup {tokens[old].sess} ELSE excused
      /\ UNCHANGED <<flight, ops, commits, dead, revived, lost>>
      /\ Drop({"id", "token"})
  BY DEF Rotate, Exchange, At, Issue
<1>2. /\ proc[p] \in Requests /\ RequestOK(proc[p]) /\ old \in 1..Len(tokens)
      /\ old \in Elements(row.list) /\ Fresh(proc[p].ver, proc[p].at)
  BY <1>1, ProcFacts DEF RequestOK, Presented
<1>3. /\ tokens[old] \in Pairs /\ Len(tokens) \in Nat /\ NewToken = Len(tokens) + 1
      /\ row \in Rows /\ row.list \in Seq(Nat) /\ DOMAIN row.list = 1..Len(row.list)
      /\ NewToken \in Nat /\ MaxTokens \in Nat
  BY <1>2, ElementOfSeq, LenProperties, SessionAssumption DEF Inv, Shapes, Rows, NewToken
<1>4. Listed(row.list) /\ Distinct(row.list) /\ \A j \in 1..Len(row.list) : row.list[j] # NewToken
  BY <1>3 DEF Inv, RowOK, Listed, Distinct
<1>5. first \in 1..Len(row.list) /\ row.list[first] = old
  <2>1. PICK i \in 1..Len(row.list) : row.list[i] = old
    BY <1>2, <1>3 DEF Elements
  <2>2. \A j \in 1..(i - 1) : row.list[j] # old
    BY <1>3, <1>4, <2>1, LenProperties DEF Distinct
  <2> QED
    BY <1>1, <1>3, <2>1, <2>2
<1>6. e \in Pairs /\ e.ver = proc[p].ver /\ e.sess = tokens[old].sess /\ e.at = proc[p].at
  BY <1>2, <1>3 DEF Pairs, Requests
<1> HIDE DEF e, first
<1>7. /\ list \in Seq(Nat) /\ Len(list) = Len(row.list) /\ Distinct(list)
      /\ Elements(list) = (Elements(row.list) \ {old}) \cup {NewToken}
  <2>1. /\ list \in Seq(Nat) /\ Len(list) = Len(row.list)
        /\ \A j \in 1..Len(row.list) :
             list[j] = IF j = first THEN NewToken ELSE row.list[j]
    BY <1>1, <1>3, <1>5, ExceptSeq
  <2> HIDE DEF list
  <2>2. /\ Distinct(list)
        /\ Elements(list) = (Elements(row.list) \ {row.list[first]}) \cup {NewToken}
    <3>1. /\ row.list \in Seq(Nat) /\ Distinct(row.list) /\ first \in 1..Len(row.list)
          /\ NewToken \in Nat /\ \A j \in 1..Len(row.list) : row.list[j] # NewToken
      BY <1>3, <1>4, <1>5
    <3>2. DOMAIN list = 1..Len(row.list) /\ DOMAIN row.list = 1..Len(row.list)
      BY <2>1, <3>1, LenProperties
    <3>3. Distinct(list)
      BY <2>1, <3>1 DEF Distinct
    <3>4. Elements(list) = (Elements(row.list) \ {row.list[first]}) \cup {NewToken}
      <4>1. \A x \in Elements(row.list) : x # row.list[first] => x \in Elements(list)
        BY <2>1, <3>2 DEF Elements
      <4>2. NewToken \in Elements(list)
        BY <2>1, <3>1, <3>2 DEF Elements
      <4>3. \A x \in Elements(list) :
              x = NewToken \/ (x \in Elements(row.list) /\ x # row.list[first])
        <5>1. \A j \in DOMAIN list :
                list[j] = NewToken \/ (j \in DOMAIN row.list /\ list[j] = row.list[j] /\ j # first)
          BY <2>1, <3>2
        <5>2. \A j \in DOMAIN row.list : j # first => row.list[j] # row.list[first]
          BY <3>1, <3>2 DEF Distinct
        <5> QED
          BY <5>1, <5>2 DEF Elements
      <4>4. NewToken \notin Elements(row.list)
        BY <3>1, <3>2 DEF Elements
      <4> QED
        BY <4>1, <4>2, <4>3, <4>4
    <3> QED
      BY <3>3, <3>4
  <2> QED
    BY <1>5, <2>1, <2>2
<1> HIDE DEF list
<1>8. row' \in Rows /\ row'.list = list /\ row'.ver = row.ver /\ row'.deleted = row.deleted
  BY <1>1, <1>3, <1>7 DEF Rows
<1>9. /\ cache' \in [Keys -> Views \cup {None}] /\ cache'["token"] = None
  BY <1>1 DEF Drop, Keys, Inv, Shapes
<1>10. excused \subseteq excused' /\ (stale => e.sess \in excused')
  BY <1>1, <1>6
<1>11. /\ e.ver <= row.ver \/ e.sess \in excused'
       /\ e.ver = tokens[old].ver \/ e.sess \in excused'
  BY <1>2, <1>3, <1>6, <1>10 DEF Requests, Rows
<1>12. e.at <= commits /\ (e.at = commits => e.ver = row.ver)
  BY <1>2, <1>6 DEF Fresh
<1> HIDE DEF stale, old
<1>13. RequestsOK' /\ TokensOK' /\ SessionsOK' /\ FlightsOK' /\ RevokedOK' /\ CacheOK'
  BY <1>1, <1>2, <1>6, <1>8, <1>9, <1>10, <1>11, <1>12, Issued
<1>14. /\ tokens' \in Seq(Pairs) /\ Len(tokens') = NewToken /\ Len(tokens') <= MaxTokens
       /\ \A t \in 1..Len(tokens) : tokens'[t] = tokens[t] /\ tokens[t] \in Pairs
       /\ tokens'[NewToken] = e
       /\ DOMAIN tokens = 1..Len(tokens) /\ DOMAIN tokens' = 1..NewToken
  BY <1>1, <1>6, IssueFacts
<1>15. /\ spent' \in [1..MaxTokens -> Nat] /\ spent'[old] = spent[old] + 1 /\ spent[old] \in Nat
       /\ \A t \in 1..MaxTokens : t # old => spent'[t] = spent[t]
       /\ old \in 1..MaxTokens
  <2>1. old \in 1..MaxTokens
    BY <1>1, <1>2, <1>3
  <2> QED
    BY <1>1, <2>1 DEF Inv, Shapes
<1>16. Shapes'
  BY <1>1, <1>8, <1>9, <1>14, <1>15, FinishFacts DEF Inv, Shapes
<1>17. RowOK'
  <2>1. DOMAIN list = 1..Len(list)
    BY <1>7, LenProperties
  <2>2. \A i \in 1..Len(list) : list[i] \in 1..NewToken
    <3>1. \A x \in Elements(row.list) : x \in 1..NewToken
      BY <1>3, <1>4 DEF Elements, Listed
    <3>2. \A i \in 1..Len(list) : list[i] \in Elements(list)
      BY <2>1 DEF Elements
    <3> QED
      BY <1>3, <1>7, <3>1, <3>2
  <2> QED
    BY <1>1, <1>4, <1>7, <1>8, <1>14, <2>2 DEF Inv, RowOK, Listed, Fresh, Distinct
<1>18. SpentOK' /\ RotatedOnce'
  <2>1. spent[old] > 0 => old \in revived
    BY <1>2, <1>15 DEF Inv, SpentOK
  <2>2. \A t \in 1..MaxTokens : t # old /\ spent[t] > 0 =>
          t \in 1..Len(tokens) /\ (t \in Elements(list) => t \in revived)
    BY <1>3, <1>7 DEF Inv, SpentOK
  <2>3. old # NewToken /\ old \notin Elements(list) /\ 1..Len(tokens) \subseteq 1..NewToken
    BY <1>2, <1>3, <1>7
  <2>4. SpentOK'
    BY <1>1, <1>2, <1>8, <1>14, <1>15, <2>2, <2>3 DEF SpentOK
  <2>5. \A t \in 1..NewToken : t \in 1..MaxTokens
    BY <1>3, <1>14
  <2>6. \A t \in 1..MaxTokens : spent[t] > 1 => t \in revived
    <3>1. \A t \in 1..MaxTokens : spent[t] \in Nat /\ (spent[t] > 0 => t \in DOMAIN tokens)
      BY <1>14 DEF Inv, SpentOK, Shapes
    <3> QED
      BY <3>1 DEF Inv, RotatedOnce
  <2>7. RotatedOnce'
    BY <1>1, <1>14, <1>15, <2>1, <2>5, <2>6 DEF RotatedOnce
  <2> QED
    BY <2>4, <2>7
<1>19. NoSessionLost'
  <2>1. ASSUME NEW t \in 1..Len(tokens)
        PROVE  \/ t \in Elements(list)
               \/ spent'[t] > 0 \/ t \in lost \/ commits > tokens'[t].at \/ row.deleted
    <3>1. CASE t = old
      BY <1>15, <3>1
    <3>2. CASE t # old
      <4>1. t \in 1..MaxTokens
        BY <1>1, <1>3
      <4> QED
        BY <1>7, <1>14, <1>15, <3>2, <4>1 DEF Inv, NoSessionLost
    <3> QED
      BY <3>1, <3>2
  <2>2. NewToken \in Elements(list)
    BY <1>7
  <2>3. \A t \in 1..NewToken : t \in 1..Len(tokens) \/ t = NewToken
    BY <1>3
  <2> QED
    BY <1>1, <1>8, <1>14, <2>1, <2>2, <2>3 DEF NoSessionLost
<1> QED
  BY <1>13, <1>16, <1>17, <1>18, <1>19 DEF Inv

LEMMA SignInWritesInv == ASSUME Inv, NEW p \in Procs, SignInWrites(p) PROVE Inv'
<1> DEFINE sess == Cardinality(Sessions) + 1
           e == [ver |-> proc[p].ver, sess |-> sess, at |-> proc[p].at]
           list == Add(proc[p].list, NewToken)
<1>1. /\ proc[p].op = "signin" /\ proc[p].pc = "got" /\ Len(tokens) < MaxTokens /\ Finish(p)
      /\ row' = IF row.deleted THEN row ELSE [row EXCEPT !.list = list]
      /\ tokens' = Append(tokens, e)
      /\ revived' = revived \cup (Elements(proc[p].list) \ Elements(row.list))
      /\ lost' = lost \cup (Elements(row.list) \ Elements(list))
      /\ excused' = IF proc[p].ver > row.ver THEN excused \cup {sess} ELSE excused
      /\ UNCHANGED <<flight, ops, commits, dead, spent>>
      /\ Drop(Keys)
  BY DEF SignInWrites, At, Issue
<1>2. proc[p] \in Requests /\ Listed(proc[p].list) /\ Fresh(proc[p].ver, proc[p].at)
  BY ProcFacts DEF RequestOK
<1>3. /\ Len(tokens) \in Nat /\ NewToken = Len(tokens) + 1 /\ NewToken \in Nat
      /\ row \in Rows /\ row.ver \in Nat /\ row.list \in Seq(Nat)
      /\ proc[p].list \in Seq(Nat) /\ proc[p].ver \in Nat /\ proc[p].at \in Nat
      /\ sess \in Nat
  BY <1>2, LenProperties, SessionCount DEF Inv, Shapes, Rows, Requests, NewToken
<1>4. e \in Pairs /\ e.ver = proc[p].ver /\ e.sess = sess /\ e.at = proc[p].at
  <2> HIDE DEF sess
  <2> QED
    BY <1>3 DEF Pairs
<1> HIDE DEF e
<1>5. /\ list \in Seq(Nat) /\ Len(list) <= MaxActive /\ Distinct(list)
      /\ Elements(list) \subseteq Elements(proc[p].list) \cup {NewToken}
      /\ NewToken \in Elements(list)
  <2>1. Distinct(proc[p].list) /\ Len(proc[p].list) <= MaxActive
    BY <1>2 DEF Listed, Distinct
  <2>2. \A j \in 1..Len(proc[p].list) : proc[p].list[j] # NewToken
    BY <1>2, <1>3 DEF Listed
  <2> HIDE DEF list
  <2> QED
    BY <1>3, <2>1, <2>2, AddFacts DEF list
<1> HIDE DEF list
<1>6. /\ row' \in Rows /\ row'.ver = row.ver /\ row'.deleted = row.deleted
      /\ row'.list = row.list \/ row'.list = list
      /\ ~row.deleted => row'.list = list
  BY <1>1, <1>3, <1>5 DEF Rows
<1>7. cache' \in [Keys -> Views \cup {None}] /\ cache'["token"] = None
  BY <1>1 DEF Drop, Keys, Inv, Shapes
<1>8. /\ excused \subseteq excused' /\ (e.ver <= row.ver \/ e.sess \in excused')
      /\ e.at <= commits /\ (e.at = commits => e.ver = row.ver)
  BY <1>1, <1>2, <1>3, <1>4 DEF Fresh
<1>9. RequestsOK' /\ TokensOK' /\ SessionsOK' /\ FlightsOK' /\ RevokedOK' /\ CacheOK'
  BY <1>1, <1>4, <1>6, <1>7, <1>8, Issued
<1>10. /\ tokens' \in Seq(Pairs) /\ Len(tokens') = NewToken /\ Len(tokens') <= MaxTokens
       /\ \A t \in 1..Len(tokens) : tokens'[t] = tokens[t] /\ tokens[t] \in Pairs
       /\ DOMAIN tokens = 1..Len(tokens) /\ DOMAIN tokens' = 1..NewToken
  BY <1>1, <1>4, IssueFacts
<1>11. Shapes'
  BY <1>1, <1>6, <1>7, <1>10, FinishFacts DEF Inv, Shapes
<1>12. \A x \in Elements(list) : x \in 1..NewToken
  <2>1. DOMAIN proc[p].list = 1..Len(proc[p].list)
    BY <1>3, LenProperties
  <2>2. \A x \in Elements(proc[p].list) : x \in 1..Len(tokens)
    BY <1>2, <2>1 DEF Elements, Listed
  <2>3. NewToken \in 1..NewToken /\ \A x \in 1..Len(tokens) : x \in 1..NewToken
    BY <1>3
  <2> QED
    BY <1>5, <2>2, <2>3
<1>13. RowOK'
  <2>1. DOMAIN list = 1..Len(list)
    BY <1>5, LenProperties
  <2>2. \A i \in 1..Len(list) : list[i] \in 1..NewToken
    BY <1>12, <2>1 DEF Elements
  <2>3. \A i \in 1..Len(row.list) : row.list[i] \in 1..NewToken
    BY <1>3 DEF Inv, RowOK, Listed
  <2>4. Listed(row.list)'
    <3>1. CASE row'.list = row.list
      BY <1>10, <2>3, <3>1 DEF Inv, RowOK, Listed
    <3>2. CASE row'.list = list
      BY <1>5, <1>10, <2>2, <3>2 DEF Listed, Distinct
    <3> QED
      BY <1>6, <3>1, <3>2
  <2> QED
    BY <1>1, <1>6, <2>4 DEF Inv, RowOK, Fresh
<1>14. SpentOK' /\ RotatedOnce'
  <2>1. \A t \in 1..MaxTokens : spent[t] \in Nat /\ (spent[t] > 0 => t \in 1..Len(tokens))
    BY DEF Inv, SpentOK, Shapes
  <2>2. ASSUME NEW t \in 1..MaxTokens, spent[t] > 0, t \in Elements(row'.list) PROVE t \in revived'
    <3>1. t # NewToken
      BY <1>3, <2>1, <2>2
    <3>2. CASE t \in Elements(row.list)
      BY <1>1, <2>2, <3>2 DEF Inv, SpentOK
    <3>3. CASE t \notin Elements(row.list)
      <4>1. t \in Elements(proc[p].list)
        BY <1>5, <1>6, <2>2, <3>1, <3>3
      <4> QED
        BY <1>1, <3>3, <4>1
    <3> QED
      BY <3>2, <3>3
  <2>3. SpentOK'
    <3>1. 1..Len(tokens) \subseteq 1..NewToken
      BY <1>3
    <3> QED
      BY <1>1, <1>10, <2>1, <2>2, <3>1 DEF SpentOK
  <2>4. \A t \in 1..NewToken : t \in 1..MaxTokens
    BY <1>3, <1>10, SessionAssumption
  <2>5. RotatedOnce'
    BY <1>1, <1>10, <2>1, <2>4 DEF Inv, RotatedOnce
  <2> QED
    BY <2>3, <2>5
<1>15. NoSessionLost'
  <2>1. CASE row.deleted
    BY <1>6, <2>1 DEF NoSessionLost
  <2>2. CASE ~row.deleted
    <3>1. \A t \in 1..NewToken : t \in 1..Len(tokens) \/ t = NewToken
      BY <1>3
    <3> QED
      BY <1>1, <1>5, <1>6, <1>10, <2>2, <3>1 DEF Inv, NoSessionLost
  <2> QED
    BY <2>1, <2>2
<1> QED
  BY <1>9, <1>11, <1>13, <1>14, <1>15 DEF Inv

-----------------------------------------------------------------------------
\* The theorems.

\* Every step of the server keeps the invariant: each request handler, the calls that
\* fill the cache, and the eviction of an entry (authService.go, userService.go).
THEOREM Invariance == Spec => []Inv
<1>1. ASSUME Inv, [Next]_vars PROVE Inv'
  <2>1. CASE UNCHANGED vars
    <3>1. cache' = cache /\ flight' = flight /\ proc' = proc /\ UNCHANGED <<row, tokens, history>>
      BY <2>1 DEF vars, state
    <3>2. FlightsOK' /\ CacheOK'
      BY <1>1, <3>1 DEF Inv, FlightsOK, KeyOf, CacheOK, Tells, history
    <3> QED
      BY <1>1, <3>1, <3>2, Quiet DEF Inv, Shapes, RequestsOK
  <2>2. ASSUME NEW p \in Procs, Handle(p) PROVE Inv'
    BY <1>1, <2>2, LookupInv, DecideInv, AnswerInv, ReadForRefreshInv, RotateInv, RotateFailsInv,
       AuthenticateInv, SignInWritesInv, ReadRowInv, CommitInv, InvalidateInv DEF Handle
  <2>3. ASSUME NEW p \in Procs,
               SignIn(p) \/ Revoke(p) \/ \E t \in DOMAIN tokens : Present(p, t)
        PROVE  Inv'
    BY <1>1, <2>3, SignInInv, RevokeInv, PresentInv
  <2>4. ASSUME NEW k \in Calls, FlightReads(k) \/ FlightFails(k) \/ FlightStores(k) PROVE Inv'
    BY <1>1, <2>4, FlightReadsInv, FlightFailsInv, FlightStoresInv
  <2>5. ASSUME NEW k \in Keys, Evict(k) PROVE Inv'
    BY <1>1, <2>5, EvictInv
  <2> QED
    BY <1>1, <2>1, <2>2, <2>3, <2>4, <2>5 DEF Next
<1> QED
  BY InitInv, <1>1, PTL DEF Spec

\* The entries of a list of different tokens are as many as its places.
LEMMA DistinctCount ==
  ASSUME NEW l \in Seq(Nat), Distinct(l)
  PROVE  Cardinality(Elements(l)) = Len(l)
<1>1. Len(l) \in Nat /\ DOMAIN l = 1..Len(l)
  BY LenProperties
<1> DEFINE f == [i \in 1..Len(l) |-> l[i]]
<1>2. f \in Bijection(1..Len(l), Elements(l))
  <2>1. f \in [1..Len(l) -> Elements(l)]
    BY <1>1 DEF Elements
  <2>2. \A i, j \in 1..Len(l) : f[i] = f[j] => i = j
    BY DEF Distinct
  <2>3. \A x \in Elements(l) : \E i \in 1..Len(l) : f[i] = x
    BY <1>1 DEF Elements
  <2> HIDE DEF f
  <2> QED
    BY <2>1, <2>2, <2>3, Fun_IsBij
<1>3. ExistsBijection(1..Len(l), Elements(l))
  BY <1>2 DEF ExistsBijection
<1> QED
  BY <1>1, <1>3, FS_CountingElements

\* Every variable keeps its shape; the row never has more refresh tokens than the limit,
\* and none of them twice (addRefreshToken, authService.go).
THEOREM TypesHold == Spec => []TypeOK
<1>1. ASSUME Inv PROVE TypeOK
  <2>1. row.list \in Seq(Nat) /\ row.ver \in Nat /\ Distinct(row.list)
    BY <1>1 DEF Inv, Shapes, Rows, RowOK, Listed, Distinct
  <2>2. /\ DOMAIN row.list = 1..Len(row.list) /\ DOMAIN tokens = 1..Len(tokens)
    BY <1>1, <2>1, LenProperties DEF Inv, Shapes
  <2>3. Elements(row.list) \subseteq DOMAIN tokens /\ Len(row.list) <= MaxActive
    BY <1>1, <2>2 DEF Inv, RowOK, Listed, Elements
  <2>4. Cardinality(Elements(row.list)) = Len(row.list)
    BY <2>1, DistinctCount
  <2>5. \A k \in Keys : cache[k] # None => cache[k].ver \in Nat
    BY <1>1 DEF Inv, Shapes, Views
  <2>6. (\A k \in Calls : flight[k].waiting # {} <=> flight[k].running) /\ dead \subseteq Sessions
    BY <1>1 DEF Inv, FlightsOK, SessionsOK
  <2> QED
    BY <2>1, <2>3, <2>4, <2>5, <2>6 DEF TypeOK
<1> QED
  BY <1>1, Invariance, PTL

\* After a revocation has returned nobody gets past the version check with a token it
\* covered, but in the races named (jwtMiddleware.go:120-130, authService.go:475).
THEOREM RevokedStaysOut == Spec => []RevocationFinal
<1>1. ASSUME Inv PROVE RevocationFinal
  BY <1>1 DEF Inv, RequestsOK, RequestOK, RevocationFinal
<1> QED
  BY <1>1, Invariance, PTL

\* A refresh token is exchanged once, whatever the interleaving of refreshes, unless a
\* sign-in wrote it back (authService.go:229, 515).
THEOREM ExchangedOnce == Spec => []RotatedOnce
<1>1. Inv => RotatedOnce
  BY DEF Inv
<1> QED
  BY <1>1, Invariance, PTL

\* A refresh token leaves the list by its exchange, a revocation, or a sign-in that did
\* not know of it (authService.go:499-520).
THEOREM SessionsAreKept == Spec => []NoSessionLost
<1>1. Inv => NoSessionLost
  BY DEF Inv
<1> QED
  BY <1>1, Invariance, PTL

\* A token is refused only after a later revocation or for a version cached too late
\* (userRepository.go:547-575).
THEOREM NobodyThrownOut == Spec => []SignedInIsAdmitted
<1>1. ASSUME Inv PROVE SignedInIsAdmitted
  <2>1. ASSUME NEW p \in Procs, proc[p].pc = "refused"
        PROVE  commits > tokens[proc[p].tok].at \/ proc[p].got.late
    <3>1. /\ proc[p].tok \in 1..Len(tokens)
          /\ tokens[proc[p].tok].at < commits \/ proc[p].got.late
      BY <1>1, <2>1, ProcFacts DEF RequestOK
    <3>2. tokens[proc[p].tok] \in Pairs /\ commits \in Nat
      BY <1>1, <3>1, ElementOfSeq DEF Inv, Shapes
    <3> QED
      BY <3>1, <3>2 DEF Pairs
  <2> QED
    BY <2>1 DEF SignedInIsAdmitted
<1> QED
  BY <1>1, Invariance, PTL
=============================================================================
