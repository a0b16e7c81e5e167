------------------------- MODULE Organizations_proofs -------------------------
(***************************************************************************)
(* The safety of Organizations for any users, requests and faults: types,  *)
(* and what the users, their tokens and the trail keep as long as requests *)
(* do not cross.                                                           *)
(***************************************************************************)
EXTENDS OrganizationsHistory, FiniteSetTheorems, TLAPS

USE DEF Row, Serving, Idle, Ended, Members, Goto, GotoStep

LEMMA InitTypeOK == ASSUME Init PROVE TypeOK
BY OrganizationsAssumption DEF Init, TypeOK

\* An operation that only moves its request on keeps the types.
LEMMA MovesOn ==
    ASSUME TypeOK, NEW r \in Requests, NEW next \in {Idle, Ended} \union Serving,
           Goto(r, next), UNCHANGED <<users, refresh, trail, faults>>
    PROVE  TypeOK'
BY DEF TypeOK

LEMMA StepTypeOK == ASSUME TypeOK, [Next]_vars PROVE TypeOK'
<1> USE OrganizationsAssumption
<1>1. ASSUME NEW r \in Requests, Serve(r) PROVE TypeOK'
  <2>1. ASSUME NEW u \in Users, NEW admin \in BOOLEAN, InviteUser(r, u, admin) PROVE TypeOK'
    BY <2>1, MovesOn DEF InviteUser
  <2>2. CASE InsertUser(r)
    BY <2>2 DEF InsertUser, TypeOK
  <2>3. ASSUME NEW u \in Users, NEW admin \in BOOLEAN, UpdateUserRole(r, u, admin) PROVE TypeOK'
    <3>1. [users[u] EXCEPT !.admin = admin] \in Row
      BY <2>3 DEF UpdateUserRole, TypeOK
    <3> QED BY <2>3, <3>1, MovesOn DEF UpdateUserRole, Change
  <2>4. ASSUME NEW u \in Users, RevokeUser(r, u) PROVE TypeOK'
    <3>1. [users[u] EXCEPT !.active = FALSE] \in Row
      BY <2>4 DEF RevokeUser, TypeOK
    <3> QED BY <2>4, <3>1, MovesOn DEF RevokeUser, Change
  <2>5. CASE CountAdmins(r)
    BY <2>5 DEF CountAdmins, TypeOK
  <2>6. CASE Recheck(r)
    BY <2>6 DEF Recheck, TypeOK
  <2>7. CASE SaveUser(r)
    BY <2>7 DEF SaveUser, TypeOK
  <2>8. CASE RevokeTokens(r)
    BY <2>8 DEF RevokeTokens, TypeOK
  <2>9. CASE Audit(r)
    <3> DEFINE q == request[r]
               told == CASE q.op = "invite" -> q.next
                         [] q.op = "update" /\ trail[q.user] # None ->
                               [trail[q.user] EXCEPT !.admin = q.next.admin]
                         [] q.op = "revoke" /\ trail[q.user] # None ->
                               [trail[q.user] EXCEPT !.active = FALSE]
                         [] OTHER -> trail[q.user]
    <3>1. q \in Serving
      BY <2>9 DEF Audit, TypeOK
    <3>2. trail[q.user] \in Row \union {None}
      BY <3>1 DEF TypeOK
    <3>3. told \in Row \union {None}
      <4>1. CASE q.op = "invite"  BY <3>1, <4>1
      <4>2. CASE q.op = "update"  BY <3>1, <3>2, <4>2
      <4>3. CASE q.op = "revoke"  BY <3>1, <3>2, <4>3
      <4> QED BY <3>1, <4>1, <4>2, <4>3
    <3>4. trail' = [trail EXCEPT ![q.user] = told]
      BY <2>9 DEF Audit
    <3>5. trail' \in [Users -> Row \union {None}]
      <4> HIDE DEF told, q
      <4> QED BY <3>3, <3>4 DEF TypeOK
    <3> QED BY <2>9, <3>5 DEF Audit, TypeOK
  <2>10. CASE Fail(r)
    BY <2>10 DEF Fail, TypeOK
  <2> QED BY <1>1, <2>1, <2>2, <2>3, <2>4, <2>5, <2>6, <2>7, <2>8, <2>9, <2>10 DEF Serve
<1>2. ASSUME NEW u \in Users, LogIn(u) PROVE TypeOK'
  BY <1>2 DEF LogIn, TypeOK
<1>3. CASE UNCHANGED vars
  BY <1>3 DEF vars, TypeOK
<1> QED BY <1>1, <1>2, <1>3 DEF Next

\* Every reachable state is type-correct: whatever copies are saved back, only
\* rows of users take the place of rows, and only users hold refresh tokens.
THEOREM TypeCorrect == Spec => []TypeOK
BY InitTypeOK, StepTypeOK, PTL DEF Spec

-----------------------------------------------------------------------------
(* What a step leaves alone                                                *)

\* The history only grows, and tells of the requests that meet.
LEMMA HistoryGrows ==
    ASSUME [HistoryNext]_historyVars, HistoryTells
    PROVE  /\ ~overlapped' => ~overlapped
           /\ raced \subseteq raced' /\ cut \subseteq cut'
           /\ HistoryTells'
<1>1. CASE HistoryNext
  BY <1>1 DEF HistoryNext, HistoryTells
<1>2. CASE UNCHANGED historyVars
  BY <1>2 DEF historyVars, vars, HistoryTells, Changing, Telling, Holds
<1> QED BY <1>1, <1>2

\* A request that does not move keeps what is known of it, when nobody writes
\* the row it holds.
LEMMA Bystander ==
    ASSUME [HistoryNext]_historyVars, HistoryTells, NEW s \in Requests, RequestConsistent(s),
           request'[s] = request[s],
           Changing(s) \/ Telling(s) =>
               users'[request[s].user] = users[request[s].user] /\ request[s].user \in Members',
           Telling(s) /\ request[s].user \notin raced' =>
               trail'[request[s].user] = trail[request[s].user],
           Changing(s) /\ ~overlapped' => ActiveAdmins \subseteq ActiveAdmins'
    PROVE  RequestConsistent(s)'
<1> USE HistoryGrows DEF Changing, Telling
<1>1. StepOfOp(s)'
  BY DEF RequestConsistent, StepOfOp
<1>2. CopyIsFresh(s)'
  BY DEF RequestConsistent, CopyIsFresh, Edits
<1>3. CountStands(s)'
  BY DEF RequestConsistent, CountStands
<1>4. TrailWillMatch(s)'
  BY DEF RequestConsistent, TrailWillMatch, Tells
<1> QED BY <1>1, <1>2, <1>3, <1>4 DEF RequestConsistent

\* A step that writes nothing, of a request that holds no unfinished change or
\* that fails.
LEMMA WritesNothing ==
    ASSUME IInv, [HistoryNext]_historyVars, TypeOK', NEW r \in Requests,
           UNCHANGED <<users, refresh, trail>>,
           \A s \in Requests \ {r} : request'[s] = request[s],
           Telling(r) => request[r].user \in cut',
           RequestConsistent(r)'
    PROVE  IInv'
<1>1. Members' = Members /\ ActiveAdmins' = ActiveAdmins
  BY DEF Members, ActiveAdmins
<1>2. \A s \in Requests : RequestConsistent(s)'
  BY <1>1, Bystander DEF IInv, RequestConsistent, StepOfOp
<1>3. SerialLastAdminKept'
  BY <1>1, HistoryGrows DEF IInv, SerialLastAdminKept, LastAdminKept
<1>4. SerialRevokedHoldNoTokens'
  BY <1>1, HistoryGrows DEF IInv, SerialRevokedHoldNoTokens, Telling
<1>5. SerialTrailMatches'
  BY HistoryGrows DEF IInv, SerialTrailMatches, Telling
<1> QED BY <1>2, <1>3, <1>4, <1>5, HistoryGrows DEF IInv

-----------------------------------------------------------------------------
(* The steps of a request                                                  *)

LEMMA BeginsIInv ==
    ASSUME IInv, [HistoryNext]_historyVars, TypeOK', NEW r \in Requests, NEW u \in Users,
           \/ \E admin \in BOOLEAN : InviteUser(r, u, admin) \/ UpdateUserRole(r, u, admin)
           \/ RevokeUser(r, u)
    PROVE  IInv'
<1> USE DEF Changing, Telling, RequestConsistent, StepOfOp, CopyIsFresh, CountStands, TrailWillMatch
<1>1. TypeOK /\ request \in [Requests -> {Idle, Ended} \union Serving] /\ request[r].step = "idle"
  BY DEF IInv, TypeOK, InviteUser, UpdateUserRole, RevokeUser, Change
<1>2. ASSUME NEW admin \in BOOLEAN, InviteUser(r, u, admin) PROVE IInv'
  <2>1. UNCHANGED <<users, refresh, trail>> /\ (request'[r].step = "ended" \/
           /\ request'[r].step = "insert" /\ request'[r].op = "invite" /\ request'[r].next.active)
    BY <1>1, <1>2 DEF InviteUser
  <2>2. RequestConsistent(r)'
    BY <2>1
  <2> QED BY <1>1, <1>2, <2>1, <2>2, WritesNothing DEF InviteUser
<1>3. ASSUME NEW op \in {"update", "revoke"}, NEW next \in Row, Change(r, u, op, next, users[u].admin),
             \/ op = "update" /\ next = [users[u] EXCEPT !.admin = ~users[u].admin]
             \/ op = "revoke" /\ next = [users[u] EXCEPT !.active = FALSE]
      PROVE  IInv'
  <2>1. /\ UNCHANGED <<users, refresh, trail>>
        /\ request' = [request EXCEPT ![r] =
              [step |-> IF users[u].admin THEN "count" ELSE "save",
               op |-> op, user |-> u, next |-> next]]
    BY <1>3 DEF Change
  <2>2. /\ request'[r].step = (IF users[u].admin THEN "count" ELSE "save")
        /\ request'[r].op = op /\ request'[r].user = u /\ request'[r].next = next
    BY <1>1, <2>1
  <2>3. Edits(r, users[u])'
    BY <1>3, <2>1, <2>2 DEF Edits
  <2>4. u \in Members' /\ users'[u] = users[u]
    BY <1>3, <2>1 DEF Change
  <2>5. RequestConsistent(r)'
    <3>1. StepOfOp(r)'
      BY <1>3, <2>2, <2>4
    <3>2. CopyIsFresh(r)'
      BY <2>2, <2>3, <2>4
    <3>3. CountStands(r)' /\ TrailWillMatch(r)'
      BY <2>2, <2>4
    <3> QED BY <3>1, <3>2, <3>3
  <2> QED BY <1>1, <2>1, <2>5, WritesNothing
<1>4. ASSUME NEW admin \in BOOLEAN, UpdateUserRole(r, u, admin) PROVE IInv'
  <2>1. users[u] \in Row /\ admin = ~users[u].admin
    BY <1>1, <1>4 DEF UpdateUserRole, TypeOK
  <2> QED BY <1>3, <1>4, <2>1 DEF UpdateUserRole
<1>5. CASE RevokeUser(r, u)
  <2>1. users[u] \in Row
    BY <1>1, <1>5 DEF RevokeUser, TypeOK
  <2> QED BY <1>3, <1>5, <2>1 DEF RevokeUser
<1> QED BY <1>2, <1>4, <1>5

\* Of two active administrators, one is another than the one about to go.
LEMMA AnotherAdmin ==
    ASSUME NEW u, ~(Cardinality(ActiveAdmins) <= 1)
    PROVE  \E v \in ActiveAdmins : v # u
<1> SUFFICES ASSUME ActiveAdmins \subseteq {u} PROVE FALSE
  OBVIOUS
<1>1. IsFiniteSet({u}) /\ Cardinality({u}) = 1
  BY FS_Singleton
<1>2. Cardinality(ActiveAdmins) <= 1
  BY <1>1, FS_Subset
<1> QED BY <1>2

LEMMA ChecksIInv ==
    ASSUME IInv, [HistoryNext]_historyVars, TypeOK', NEW r \in Requests,
           CountAdmins(r) \/ Recheck(r) \/ Fail(r)
    PROVE  IInv'
<1> USE DEF Changing, Telling, RequestConsistent, StepOfOp, CopyIsFresh, CountStands, TrailWillMatch
<1>1. /\ request \in [Requests -> {Idle, Ended} \union Serving]
      /\ UNCHANGED <<users, refresh, trail>> /\ RequestConsistent(r)
  BY DEF IInv, TypeOK, CountAdmins, Recheck, Fail
<1>2. Members' = Members /\ ActiveAdmins' = ActiveAdmins
  BY <1>1 DEF Members, ActiveAdmins
<1>3. CASE CountAdmins(r)
  <2>1. request[r] \in Serving /\ request[r].step = "count"
    BY <1>1, <1>3 DEF CountAdmins
  <2>2. /\ request'[r].op = request[r].op /\ request'[r].user = request[r].user
        /\ request'[r].next = request[r].next
        /\ request'[r].step = IF Cardinality(ActiveAdmins) <= 1 THEN "recheck" ELSE "save"
    BY <1>1, <1>3, <2>1 DEF CountAdmins
  <2>3. StepOfOp(r)' /\ TrailWillMatch(r)'
    BY <1>1, <1>2, <2>1, <2>2
  <2>4. CopyIsFresh(r)'
    BY <1>1, <2>1, <2>2, HistoryGrows DEF Edits, IInv
  <2>5. CountStands(r)'
    BY <1>1, <1>2, <2>1, <2>2, HistoryGrows, AnotherAdmin DEF IInv
  <2> QED BY <1>1, <1>3, <2>1, <2>3, <2>4, <2>5, WritesNothing DEF CountAdmins
<1>4. CASE Recheck(r)
  <2>1. request[r] \in Serving /\ request[r].step = "recheck"
    BY <1>1, <1>4 DEF Recheck
  <2>2. CASE users[request[r].user].admin
    <3>1. request'[r].step = "ended"
      BY <1>1, <1>4, <2>2 DEF Recheck
    <3> QED BY <1>1, <1>4, <2>1, <3>1, WritesNothing DEF Recheck
  <2>3. CASE ~users[request[r].user].admin
    <3>1. /\ request'[r].op = request[r].op /\ request'[r].user = request[r].user
          /\ request'[r].next = request[r].next /\ request'[r].step = "save"
      BY <1>1, <1>4, <2>1, <2>3 DEF Recheck
    <3>2. StepOfOp(r)' /\ TrailWillMatch(r)' /\ CountStands(r)'
      BY <1>1, <1>2, <2>1, <2>3, <3>1
    <3>3. CopyIsFresh(r)'
      BY <1>1, <2>1, <3>1, HistoryGrows DEF Edits, IInv
    <3> QED BY <1>1, <1>4, <2>1, <3>2, <3>3, WritesNothing DEF Recheck
  <2> QED BY <2>2, <2>3
<1>5. CASE Fail(r)
  <2>1. request'[r].step = "ended" /\ request[r] # Ended /\ request'[r] = Ended /\ faults' > faults
    BY <1>1, <1>5 DEF Fail, IInv, TypeOK
  <2>2. request[r].user \in cut'
    <3>1. HistoryNext
      BY <2>1 DEF historyVars, vars
    <3> QED BY <2>1, <3>1 DEF HistoryNext
  <2> QED BY <1>1, <1>5, <2>1, <2>2, WritesNothing DEF Fail
<1> QED BY <1>3, <1>4, <1>5

LEMMA InsertIInv ==
    ASSUME IInv, [HistoryNext]_historyVars, TypeOK', NEW r \in Requests, InsertUser(r)
    PROVE  IInv'
<1> DEFINE u == request[r].user
<1> USE DEF Changing, Telling
<1>1. /\ request \in [Requests -> {Idle, Ended} \union Serving] /\ users \in [Users -> Row \union {None}]
      /\ request[r] \in Serving /\ request[r].step = "insert" /\ u \in Users
      /\ \A s \in Requests : RequestConsistent(s)
      /\ request[r].op = "invite" /\ request[r].next \in Row /\ request[r].next.active
      /\ refresh \subseteq Members /\ UNCHANGED <<refresh, trail>>
  BY DEF IInv, TypeOK, InsertUser, RequestConsistent, StepOfOp
<1>2. CASE u \in Members
  <2>1. UNCHANGED users /\ request' = [request EXCEPT ![r] = Ended]
    BY <1>2 DEF InsertUser
  <2>2. RequestConsistent(r)'
    BY <1>1, <2>1 DEF RequestConsistent, StepOfOp, CopyIsFresh, CountStands, TrailWillMatch
  <2> QED BY <1>1, <2>1, <2>2, WritesNothing
<1>3. CASE u \notin Members
  <2>1. /\ users' = [users EXCEPT ![u] = request[r].next]
        /\ request' = [request EXCEPT ![r].step = "audit"]
    BY <1>3 DEF InsertUser
  <2>2. /\ users'[u] = request[r].next /\ \A v \in Users \ {u} : users'[v] = users[v]
        /\ Members' = Members \union {u} /\ ActiveAdmins \subseteq ActiveAdmins'
    BY <1>1, <1>3, <2>1, OrganizationsAssumption DEF ActiveAdmins
  <2>3. /\ request'[r].step = "audit" /\ request'[r].op = "invite" /\ request'[r].user = u
        /\ request'[r].next = request[r].next
        /\ \A s \in Requests \ {r} : request'[s] = request[s]
    BY <1>1, <2>1
  <2>4. RequestConsistent(r)'
    BY <2>2, <2>3
       DEF RequestConsistent, StepOfOp, CopyIsFresh, CountStands, TrailWillMatch, Tells
  <2>5. ASSUME NEW s \in Requests \ {r} PROVE RequestConsistent(s)'
    <3>1. Changing(s) \/ Telling(s) => request[s].user \in Members
      BY <1>1 DEF RequestConsistent, StepOfOp
    <3>2. Changing(s) \/ Telling(s) =>
             users'[request[s].user] = users[request[s].user] /\ request[s].user \in Members'
      BY <1>3, <2>2, <3>1
    <3> QED BY <1>1, <2>2, <2>3, <3>2, Bystander DEF IInv
  <2>6. SerialLastAdminKept'
    BY <2>2, HistoryGrows DEF IInv, SerialLastAdminKept, LastAdminKept
  <2>7. SerialRevokedHoldNoTokens'
    <3> SUFFICES ASSUME NEW v \in Members', v \notin raced' \union cut'
                 PROVE  \/ users'[v].active \/ v \notin refresh
                        \/ \E s \in Requests : request'[s].step = "tokens" /\ request'[s].user = v
      BY <1>1 DEF SerialRevokedHoldNoTokens
    <3>1. CASE v = u
      BY <1>1, <2>2, <3>1
    <3>2. CASE v # u
      <4>1. v \in Members /\ v \notin raced \union cut /\ users'[v] = users[v]
        BY <2>2, <3>2, HistoryGrows DEF IInv
      <4>2. \/ users[v].active \/ v \notin refresh
            \/ \E s \in Requests : request[s].step = "tokens" /\ request[s].user = v
        BY <4>1 DEF IInv, SerialRevokedHoldNoTokens
      <4>3. ASSUME NEW s \in Requests, request[s].step = "tokens" PROVE request'[s] = request[s]
        BY <1>1, <2>3, <4>3
      <4> QED BY <4>1, <4>2, <4>3
    <3> QED BY <3>1, <3>2
  <2>8. SerialTrailMatches'
    <3> SUFFICES ASSUME NEW v \in Users, v \notin raced' \union cut'
                 PROVE  \/ trail[v] = users'[v]
                        \/ \E s \in Requests : Telling(s)' /\ request'[s].user = v
      BY <1>1 DEF SerialTrailMatches
    <3>1. CASE v = u
      BY <2>3, <3>1
    <3>2. CASE v # u
      <4>1. \/ trail[v] = users[v]
            \/ \E s \in Requests : Telling(s) /\ request[s].user = v
        BY HistoryGrows DEF IInv, SerialTrailMatches
      <4>2. ASSUME NEW s \in Requests, Telling(s) PROVE request'[s] = request[s]
        BY <1>1, <2>3, <4>2
      <4> QED BY <2>2, <3>2, <4>1, <4>2
    <3> QED BY <3>1, <3>2
  <2> QED BY <2>3, <2>4, <2>5, <2>6, <2>7, <2>8, HistoryGrows DEF IInv
<1> QED BY <1>2, <1>3

LEMMA SaveIInv ==
    ASSUME IInv, [HistoryNext]_historyVars, TypeOK', NEW r \in Requests, SaveUser(r)
    PROVE  IInv'
<1> DEFINE u == request[r].user
           row == users[u]
           next == request[r].next
<1> USE DEF Changing, Telling
<1>1. /\ request \in [Requests -> {Idle, Ended} \union Serving] /\ users \in [Users -> Row \union {None}]
      /\ request[r] \in Serving /\ request[r].step = "save" /\ u \in Members /\ row \in Row /\ u \in Users
      /\ next \in Row /\ request[r].op \in {"update", "revoke"}
      /\ \A s \in Requests : RequestConsistent(s)
      /\ UNCHANGED <<refresh, trail>>
  BY DEF IInv, TypeOK, SaveUser, RequestConsistent, StepOfOp
<1>2. /\ users' = [users EXCEPT ![u] = next]
      /\ request' = [request EXCEPT ![r].step = IF request[r].op = "revoke" THEN "tokens" ELSE "audit"]
  BY DEF SaveUser
<1>3. /\ users'[u] = next /\ \A v \in Users \ {u} : users'[v] = users[v]
      /\ Members' = Members
  BY <1>1, <1>2, OrganizationsAssumption
<1>4. /\ request'[r].step = (IF request[r].op = "revoke" THEN "tokens" ELSE "audit")
      /\ request'[r].op = request[r].op /\ request'[r].user = u /\ request'[r].next = next
      /\ \A s \in Requests \ {r} : request'[s] = request[s]
  BY <1>1, <1>2
<1>5. ~overlapped \/ u \notin raced => Edits(r, row)
  BY <1>1 DEF RequestConsistent, CopyIsFresh
\* Nobody else holds the row, if nobody raced for it.
<1>6. ASSUME NEW s \in Requests \ {r}, Changing(s) \/ Telling(s), request[s].user = u
      PROVE  u \in raced
  BY <1>1, <1>6 DEF IInv, HistoryTells, Holds
<1>7. RequestConsistent(r)'
  <2>1. StepOfOp(r)' /\ CopyIsFresh(r)' /\ CountStands(r)'
    BY <1>1, <1>3, <1>4 DEF StepOfOp, CopyIsFresh, CountStands
  <2>2. ASSUME u \notin raced' \union cut' PROVE Tells(r, trail[u], next)
    <3>1. u \notin raced \union cut
      BY <2>2, HistoryGrows DEF IInv
    <3>2. trail[u] = row
      BY <1>1, <1>6, <3>1 DEF IInv, SerialTrailMatches
    <3> QED BY <1>1, <1>5, <3>1, <3>2, OrganizationsAssumption DEF Edits, Tells
  <2>3. TrailWillMatch(r)'
    BY <1>1, <1>3, <1>4, <2>2 DEF TrailWillMatch, Tells
  <2> QED BY <2>1, <2>3 DEF RequestConsistent
<1>8. ASSUME NEW s \in Requests \ {r} PROVE RequestConsistent(s)'
  <2>1. CASE (Changing(s) \/ Telling(s)) /\ request[s].user = u
    <3>1. u \in raced' /\ request'[s] = request[s]
      BY <1>4, <1>6, <2>1, HistoryGrows DEF IInv
    <3>2. Changing(s) => overlapped'
      BY <1>1, HistoryGrows DEF IInv, HistoryTells
    <3> QED BY <1>1, <1>3, <2>1, <3>1, <3>2
            DEF RequestConsistent, StepOfOp, CopyIsFresh, CountStands, TrailWillMatch
  <2>2. CASE ~((Changing(s) \/ Telling(s)) /\ request[s].user = u)
    <3>1. Changing(s) \/ Telling(s) => request[s].user \in Members
      BY <1>1 DEF RequestConsistent, StepOfOp
    <3>2. Changing(s) => overlapped'
      BY <1>1, HistoryGrows DEF IInv, HistoryTells
    <3> QED BY <1>1, <1>3, <1>4, <2>2, <3>1, <3>2, Bystander DEF IInv
  <2> QED BY <2>1, <2>2
<1>9. SerialLastAdminKept'
  <2> SUFFICES ASSUME ~overlapped' PROVE ActiveAdmins' # {}
    BY DEF SerialLastAdminKept, LastAdminKept
  <2>1. ~overlapped /\ Edits(r, row) /\ ActiveAdmins # {}
        /\ (row.admin => \E v \in ActiveAdmins : v # u)
    BY <1>1, <1>5, HistoryGrows
       DEF IInv, SerialLastAdminKept, LastAdminKept, RequestConsistent, CountStands
  <2>2. \A v \in ActiveAdmins : v # u => v \in ActiveAdmins'
    BY <1>1, <1>3 DEF ActiveAdmins
  <2>3. CASE row.admin
    BY <2>1, <2>2, <2>3
  <2>4. CASE ~row.admin
    BY <2>1, <2>2, <2>4 DEF ActiveAdmins
  <2> QED BY <2>3, <2>4
<1>10. SerialRevokedHoldNoTokens'
  <2> SUFFICES ASSUME NEW v \in Members, v \notin raced' \union cut'
               PROVE  \/ users'[v].active \/ v \notin refresh
                      \/ \E s \in Requests : request'[s].step = "tokens" /\ request'[s].user = v
    BY <1>1, <1>3 DEF SerialRevokedHoldNoTokens
  <2>1. v \notin raced \union cut
    BY HistoryGrows DEF IInv
  <2>2. \/ users[v].active \/ v \notin refresh
        \/ \E s \in Requests : request[s].step = "tokens" /\ request[s].user = v
    BY <2>1 DEF IInv, SerialRevokedHoldNoTokens
  <2>3. \A s \in Requests : request[s].step = "tokens" => s # r
    BY <1>1
  <2>4. CASE v = u /\ request[r].op = "revoke"
    BY <1>4, <2>4
  <2>5. CASE v = u /\ request[r].op = "update"
    <3>1. users'[v].active = users[v].active
      BY <1>1, <1>3, <1>5, <2>1, <2>5 DEF Edits
    <3>2. users[v].active \/ v \notin refresh
      BY <1>6, <2>1, <2>2, <2>3, <2>5
    <3> QED BY <3>1, <3>2
  <2>6. CASE v # u
    BY <1>3, <1>4, <2>2, <2>3, <2>6
  <2> QED BY <1>1, <2>4, <2>5, <2>6
<1>11. SerialTrailMatches'
  <2> SUFFICES ASSUME NEW v \in Users, v \notin raced' \union cut'
               PROVE  \/ trail[v] = users'[v]
                      \/ \E s \in Requests : Telling(s)' /\ request'[s].user = v
    BY <1>1 DEF SerialTrailMatches
  <2>1. CASE v = u
    BY <1>4, <2>1
  <2>2. CASE v # u
    <3>1. \/ trail[v] = users[v]
          \/ \E s \in Requests : Telling(s) /\ request[s].user = v
      BY HistoryGrows DEF IInv, SerialTrailMatches
    <3>2. \A s \in Requests : Telling(s) => s # r
      BY <1>1
    <3> QED BY <1>3, <1>4, <2>2, <3>1, <3>2
  <2> QED BY <2>1, <2>2
<1> QED BY <1>7, <1>8, <1>9, <1>10, <1>11, HistoryGrows DEF IInv

LEMMA TokensIInv ==
    ASSUME IInv, [HistoryNext]_historyVars, TypeOK', NEW r \in Requests, RevokeTokens(r)
    PROVE  IInv'
<1> DEFINE u == request[r].user
<1> USE DEF Changing, Telling
<1>1. /\ request \in [Requests -> {Idle, Ended} \union Serving]
      /\ request[r] \in Serving /\ request[r].step = "tokens" /\ request[r].op = "revoke"
      /\ \A s \in Requests : RequestConsistent(s)
      /\ UNCHANGED <<users, trail>> /\ refresh' = refresh \ {u}
      /\ request' = [request EXCEPT ![r].step = "audit"]
  BY DEF IInv, TypeOK, RevokeTokens, RequestConsistent, StepOfOp
<1>2. /\ Members' = Members /\ ActiveAdmins' = ActiveAdmins
  BY <1>1 DEF ActiveAdmins
<1>3. /\ request'[r].step = "audit" /\ request'[r].op = request[r].op /\ request'[r].user = u
      /\ request'[r].next = request[r].next
      /\ \A s \in Requests \ {r} : request'[s] = request[s]
  BY <1>1
<1>4. RequestConsistent(r)'
  BY <1>1, <1>2, <1>3, HistoryGrows
     DEF IInv, RequestConsistent, StepOfOp, CopyIsFresh, CountStands, TrailWillMatch, Tells
<1>5. \A s \in Requests \ {r} : RequestConsistent(s)'
  BY <1>1, <1>2, <1>3, Bystander DEF IInv, RequestConsistent, StepOfOp
<1>6. SerialLastAdminKept'
  BY <1>2, HistoryGrows DEF IInv, SerialLastAdminKept, LastAdminKept
<1>7. SerialRevokedHoldNoTokens'
  BY <1>1, <1>2, <1>3, HistoryGrows DEF IInv, SerialRevokedHoldNoTokens
<1>8. SerialTrailMatches'
  BY <1>1, <1>3, HistoryGrows DEF IInv, SerialTrailMatches
<1> QED BY <1>4, <1>5, <1>6, <1>7, <1>8, HistoryGrows DEF IInv

LEMMA AuditIInv ==
    ASSUME IInv, [HistoryNext]_historyVars, TypeOK', NEW r \in Requests, Audit(r)
    PROVE  IInv'
<1> DEFINE u == request[r].user
           told == CASE request[r].op = "invite" -> request[r].next
                     [] request[r].op = "update" /\ trail[u] # None ->
                           [trail[u] EXCEPT !.admin = request[r].next.admin]
                     [] request[r].op = "revoke" /\ trail[u] # None ->
                           [trail[u] EXCEPT !.active = FALSE]
                     [] OTHER -> trail[u]
<1> USE DEF Changing, Telling
<1>1. /\ request \in [Requests -> {Idle, Ended} \union Serving]
      /\ request[r] \in Serving /\ request[r].step = "audit" /\ u \in Users
      /\ trail \in [Users -> Row \union {None}]
      /\ \A s \in Requests : RequestConsistent(s)
      /\ UNCHANGED <<users, refresh>>
      /\ request' = [request EXCEPT ![r] = Ended]
  BY DEF IInv, TypeOK, Audit
<1>2. trail' = [trail EXCEPT ![u] = told]
  BY DEF Audit
<1>3. /\ Members' = Members /\ ActiveAdmins' = ActiveAdmins
      /\ request'[r].step = "ended" /\ \A s \in Requests \ {r} : request'[s] = request[s]
  BY <1>1 DEF ActiveAdmins
<1>4. trail'[u] = told /\ \A v \in Users \ {u} : trail'[v] = trail[v]
  <2> HIDE DEF told, u
  <2> QED BY <1>1, <1>2
<1>5. RequestConsistent(r)'
  BY <1>3 DEF RequestConsistent, StepOfOp, CopyIsFresh, CountStands, TrailWillMatch
<1>6. ASSUME NEW s \in Requests \ {r} PROVE RequestConsistent(s)'
  <2>1. Changing(s) \/ Telling(s) => request[s].user \in Members
    BY <1>1 DEF RequestConsistent, StepOfOp
  <2>2. Telling(s) /\ request[s].user \notin raced' => trail'[request[s].user] = trail[request[s].user]
    <3>1. ASSUME Telling(s), request[s].user = u PROVE u \in raced
      BY <1>1, <3>1 DEF IInv, HistoryTells, Holds
    <3> HIDE DEF u, told
    <3> QED BY <1>4, <2>1, <3>1, HistoryGrows DEF IInv
  <2> HIDE DEF u, told
  <2> QED BY <1>1, <1>3, <2>1, <2>2, Bystander DEF IInv
<1>7. SerialLastAdminKept'
  BY <1>3, HistoryGrows DEF IInv, SerialLastAdminKept, LastAdminKept
<1>8. SerialRevokedHoldNoTokens'
  BY <1>1, <1>3, HistoryGrows DEF IInv, SerialRevokedHoldNoTokens
<1>9. SerialTrailMatches'
  <2> SUFFICES ASSUME NEW v \in Users, v \notin raced' \union cut'
               PROVE  \/ trail'[v] = users[v]
                      \/ \E s \in Requests : Telling(s)' /\ request'[s].user = v
    BY <1>1 DEF SerialTrailMatches
  <2>1. v \notin raced \union cut
    BY HistoryGrows DEF IInv
  <2>2. CASE v = u
    <3>1. Tells(r, trail[u], users[u])
      BY <1>1, <2>1, <2>2 DEF RequestConsistent, TrailWillMatch
    <3>2. told = users[u]
      <4>1. CASE request[r].op = "invite"
        BY <3>1, <4>1 DEF Tells
      <4>2. CASE request[r].op = "update"
        BY <3>1, <4>2 DEF Tells
      <4>3. CASE request[r].op = "revoke"
        BY <3>1, <4>3 DEF Tells
      <4> QED BY <1>1, <4>1, <4>2, <4>3
    <3> QED BY <1>4, <2>2, <3>2
  <2>3. CASE v # u
    <3>1. \/ trail[v] = users[v]
          \/ \E s \in Requests : Telling(s) /\ request[s].user = v
      BY <2>1 DEF IInv, SerialTrailMatches
    <3> HIDE DEF told
    <3> QED BY <1>3, <1>4, <2>3, <3>1
  <2> QED BY <2>2, <2>3
<1> QED BY <1>5, <1>6, <1>7, <1>8, <1>9, HistoryGrows DEF IInv

LEMMA StepIInv == ASSUME IInv, [HistoryNext]_historyVars PROVE IInv'
<1>0. [Next]_vars /\ TypeOK'
  <2>1. [Next]_vars
    BY DEF HistoryNext, historyVars
  <2> QED BY <2>1, StepTypeOK DEF IInv
<1>1. ASSUME NEW r \in Requests, Serve(r) PROVE IInv'
  BY <1>0, <1>1, BeginsIInv, ChecksIInv, InsertIInv, SaveIInv, TokensIInv, AuditIInv DEF Serve
<1>2. ASSUME NEW u \in Users, LogIn(u) PROVE IInv'
  <2>1. /\ users[u].active /\ refresh' = refresh \union {u} /\ UNCHANGED <<users, trail, request>>
        /\ Members' = Members /\ ActiveAdmins' = ActiveAdmins
    BY <1>2 DEF LogIn, ActiveAdmins
  <2>2. \A s \in Requests : RequestConsistent(s)'
    BY <2>1, Bystander DEF IInv, RequestConsistent, StepOfOp
  <2>3. SerialLastAdminKept' /\ SerialTrailMatches'
    BY <2>1, HistoryGrows DEF IInv, SerialLastAdminKept, LastAdminKept, SerialTrailMatches, Telling
  <2>4. SerialRevokedHoldNoTokens'
    BY <2>1, HistoryGrows DEF IInv, SerialRevokedHoldNoTokens
  <2> QED BY <1>0, <2>2, <2>3, <2>4, HistoryGrows DEF IInv
<1>3. CASE UNCHANGED vars
  <2>1. UNCHANGED <<users, trail, request, refresh>> /\ Members' = Members /\ ActiveAdmins' = ActiveAdmins
    BY <1>3 DEF vars, ActiveAdmins
  <2>2. \A s \in Requests : RequestConsistent(s)'
    BY <2>1, Bystander DEF IInv, RequestConsistent, StepOfOp
  <2>3. SerialLastAdminKept' /\ SerialTrailMatches' /\ SerialRevokedHoldNoTokens'
    BY <2>1, HistoryGrows DEF IInv, SerialLastAdminKept, LastAdminKept, SerialTrailMatches, Telling,
       SerialRevokedHoldNoTokens
  <2> QED BY <1>0, <2>2, <2>3, HistoryGrows DEF IInv
<1> QED BY <1>0, <1>1, <1>2, <1>3 DEF Next

LEMMA InitIInv == ASSUME HistoryInit PROVE IInv
<1>1. TypeOK /\ Init
  BY InitTypeOK DEF HistoryInit
<1>2. \A r \in Requests : request[r].step = "idle"
  BY <1>1 DEF Init
<1>3. HistoryTells /\ \A r \in Requests : RequestConsistent(r)
  BY <1>2 DEF HistoryTells, Changing, Telling, Holds, RequestConsistent, StepOfOp, CopyIsFresh,
     CountStands, TrailWillMatch
<1>4. SerialLastAdminKept
  <2>1. PICK f \in Founders : f \in Users
    BY OrganizationsAssumption
  <2>2. users[f] = [admin |-> TRUE, active |-> TRUE]
    BY <1>1, <2>1 DEF Init
  <2>3. users[f] \in Row /\ users[f].admin /\ users[f].active
    BY <2>2
  <2>4. f \in ActiveAdmins
    <3>1. users[f] # None
      BY <2>3, OrganizationsAssumption
    <3> QED BY <2>1, <2>3, <3>1 DEF ActiveAdmins
  <2> QED BY <2>4 DEF SerialLastAdminKept, LastAdminKept
<1>5. SerialRevokedHoldNoTokens /\ SerialTrailMatches
  BY <1>1 DEF Init, SerialRevokedHoldNoTokens, SerialTrailMatches
<1> QED BY <1>1, <1>3, <1>4, <1>5 DEF IInv

-----------------------------------------------------------------------------
(* What holds in every reachable state                                     *)

\* The inductive invariant: a copy nobody races for is the row, edited; the
\* count an administrator's change rests on still stands when it is saved; and
\* the audit row to come closes the gap between trail and row.
THEOREM Invariance == HistorySpec => []IInv
<1>1. HistoryInit => IInv
  BY InitIInv
<1>2. IInv /\ [HistoryNext]_historyVars => IInv'
  BY StepIInv
<1> QED BY <1>1, <1>2, PTL DEF HistorySpec

\* Unless the count of one change came between the count and the save of
\* another, the organization keeps an active administrator.
THEOREM LastAdminIsKept == HistorySpec => []SerialLastAdminKept
<1>1. IInv => SerialLastAdminKept
  BY DEF IInv
<1> QED BY <1>1, Invariance, PTL

\* A revoked user whose row nobody raced for holds no refresh token, however
\* log-ins fall between the two writes of the revocation.
THEOREM RevokedHoldNoTokens == HistorySpec => []SerialRevokedHoldNoTokens
<1>1. IInv => SerialRevokedHoldNoTokens
  BY DEF IInv
<1> QED BY <1>1, Invariance, PTL

\* audit_log tells the row of every user nobody raced for.
THEOREM TrailMatches == HistorySpec => []SerialTrailMatches
<1>1. IInv => SerialTrailMatches
  BY DEF IInv
<1> QED BY <1>1, Invariance, PTL
=============================================================================
