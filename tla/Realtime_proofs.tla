--------------------------- MODULE Realtime_proofs ---------------------------
(***************************************************************************)
(* RoomsConsistent of Realtime and ListenersMissNothing of its history,    *)
(* for any sockets, organizations, tokens, requested rooms, messages and   *)
(* bounds.  Then, for any services, requests and times, AnswersConsistent  *)
(* of Health and AlertsTellTheCache of its history, and, for any rules,    *)
(* scopes, requests and bundles, RulesConsistent of RuleBook,              *)
(* SerialRulesAgree and SerialOverwritesRecorded of its history.           *)
(***************************************************************************)
EXTENDS RealtimeHistory, HealthHistory, RuleBookHistory, FiniteSetTheorems, TLAPS

\* TypeOK bounds the joins; that they are finitely many is part of the induction.
FInv == IInv /\ IsFiniteSet(joins)

Join == [socket : Sockets, org : Orgs, step : Scoped, room : Scoped \X (Orgs \union {None})]

Item == [message : published, step : {"waiting", "routed"}, delivery : 1..MaxDeliver]

LEMMA TypeOKDef ==
    TypeOK <=> /\ socket \in [Sockets -> Tokens \union {New, Closed}]
               /\ rooms \in [Sockets -> SUBSET Joinable]
               /\ joins \subseteq Join /\ Cardinality(joins) <= MaxJoins
               /\ inbox \subseteq Item /\ published \subseteq Messages
               /\ received \in [Sockets -> SUBSET (Event \X Joinable)]
BY DEF TypeOK, Join, Item

\* A socket without a token is not taken for one with a token.
LEMMA StatesDiffer == New \notin Tokens /\ Closed \notin Tokens /\ New # Closed
<1>1. \A t \in Tokens : "user" \in DOMAIN t
  BY RealtimeAssumption DEF Token
<1>2. "user" \notin DOMAIN New /\ "user" \notin DOMAIN Closed
  BY DEF New, Closed
<1>3. New.state # Closed.state
  BY DEF New, Closed
<1> QED BY <1>1, <1>2, <1>3

LEMMA InitFInv == ASSUME Init PROVE FInv
<1>1. IsFiniteSet(joins) /\ Cardinality(joins) = 0
  BY FS_EmptySet DEF Init
<1>2. TypeOK
  BY <1>1, RealtimeAssumption, TypeOKDef DEF Init
<1> QED BY <1>1, <1>2 DEF Init, FInv, IInv, RoomsConsistent, RoomsAreAuthorized, JoinsCarryTheToken

LEMMA RemoveJoin ==
    ASSUME FInv, NEW j \in joins
    PROVE  /\ joins \ {j} \subseteq Join /\ IsFiniteSet(joins \ {j})
           /\ Cardinality(joins \ {j}) = Cardinality(joins) - 1
           /\ Cardinality(joins) - 1 <= MaxJoins
<1>1. IsFiniteSet(joins) /\ joins \subseteq Join /\ Cardinality(joins) <= MaxJoins
  BY TypeOKDef DEF FInv, IInv, RoomsConsistent
<1>2. Cardinality(joins) \in Nat
  BY <1>1, FS_CardinalityType
<1>3. IsFiniteSet(joins \ {j}) /\ Cardinality(joins \ {j}) = Cardinality(joins) - 1
  BY <1>1, FS_RemoveElement
<1>4. Cardinality(joins) - 1 <= MaxJoins
  BY <1>1, <1>2, RealtimeAssumption
<1> QED BY <1>1, <1>3, <1>4

LEMMA AddJoin ==
    ASSUME IsFiniteSet(joins), NEW S, S = joins, NEW j
    PROVE  IsFiniteSet(S \union {j}) /\ Cardinality(S \union {j}) <= Cardinality(S) + 1
<1>1. IsFiniteSet(S) /\ Cardinality(S) \in Nat
  BY FS_CardinalityType
<1>2. /\ IsFiniteSet(S \union {j})
      /\ Cardinality(S \union {j}) = IF j \in S THEN Cardinality(S) ELSE Cardinality(S) + 1
  BY <1>1, FS_AddElement
<1> QED BY <1>1, <1>2

-----------------------------------------------------------------------------
(* The invariant by the part of the state it is about                      *)

Gateway ==
    /\ socket \in [Sockets -> Tokens \union {New, Closed}]
    /\ rooms \in [Sockets -> SUBSET Joinable]
    /\ received \in [Sockets -> SUBSET (Event \X Joinable)]
    /\ RoomsAreAuthorized

Bounded == joins \subseteq Join /\ Cardinality(joins) <= MaxJoins /\ IsFiniteSet(joins)

Bridge == inbox \subseteq Item /\ published \subseteq Messages

LEMMA Parts == FInv <=> Gateway /\ Bounded /\ Bridge /\ JoinsCarryTheToken
BY TypeOKDef DEF FInv, IInv, RoomsConsistent, Gateway, Bounded, Bridge

LEMMA PartsAfter ==
    ASSUME Gateway', Bounded', Bridge', JoinsCarryTheToken' PROVE FInv'
BY DEF FInv, IInv, RoomsConsistent, TypeOK, Gateway, Bounded, Bridge, Join, Item

\* Sockets that stay as they are or close, and joins that stay or go, keep
\* the token of their socket.
LEMMA Carries ==
    ASSUME FInv, joins' \subseteq joins,
           \A s \in Sockets : socket'[s] \in {socket[s], Closed}
    PROVE  JoinsCarryTheToken'
<1>1. \A j \in joins' : j \in joins /\ j.socket \in Sockets
  BY Parts DEF Bounded, Join
<1>2. \A j \in joins' : socket[j.socket] # New /\ (j.socket \in Open => j.org = socket[j.socket].org)
  BY <1>1, Parts DEF JoinsCarryTheToken
<1>3. ASSUME NEW j \in joins'
      PROVE  socket'[j.socket] # New /\ (socket'[j.socket] \in Tokens => j.org = socket'[j.socket].org)
  BY <1>1, <1>2, <1>3, StatesDiffer DEF Open
<1> QED BY <1>3 DEF JoinsCarryTheToken, Open

LEMMA CloseKeeps ==
    ASSUME Gateway, NEW s \in Sockets, Close(s)
    PROVE  Gateway' /\ \A p \in Sockets : socket'[p] \in {socket[p], Closed}
<1>1. /\ socket' \in [Sockets -> Tokens \union {New, Closed}]
      /\ rooms' \in [Sockets -> SUBSET Joinable]
      /\ received' \in [Sockets -> SUBSET (Event \X Joinable)]
  BY DEF Gateway, Close
<1>2. \A p \in Sockets : IF p = s THEN socket'[p] = Closed /\ rooms'[p] = {}
                        ELSE socket'[p] = socket[p] /\ rooms'[p] = rooms[p]
  BY DEF Gateway, Close
<1>3. RoomsAreAuthorized'
  BY <1>2 DEF Gateway, RoomsAreAuthorized, Open
<1> QED BY <1>1, <1>2, <1>3 DEF Gateway

LEMMA EnterKeeps ==
    ASSUME Gateway, NEW s \in Sockets, NEW room \in Joinable, Enter(s, room),
           s \in Open =>
              /\ room[1] = "user" => room[2] = socket[s].user
              /\ room[1] \in Scoped => room[2] = socket[s].org
              /\ room = AdminHealth => socket[s].admin
    PROVE  Gateway' /\ socket' = socket
<1>1. rooms' \in [Sockets -> SUBSET Joinable]
  BY DEF Gateway, Enter
<1>2. \A p \in Sockets : rooms'[p] = IF p = s /\ s \in Open THEN rooms[p] \union {room}
                                                          ELSE rooms[p]
  BY DEF Gateway, Enter
<1>3. RoomsAreAuthorized'
  <2> SUFFICES ASSUME NEW p \in Sockets, NEW q \in rooms'[p]
               PROVE  /\ p \in Open
                      /\ q[1] = "user" => q[2] = socket[p].user
                      /\ q[1] \in Scoped => q[2] = socket[p].org
                      /\ q = AdminHealth => socket[p].admin
    BY DEF RoomsAreAuthorized, Open, Enter
  <2>1. CASE q \in rooms[p]
    BY <2>1 DEF Gateway, RoomsAreAuthorized
  <2>2. CASE q \notin rooms[p]
    <3>1. p = s /\ s \in Open /\ q = room
      BY <1>2, <2>2
    <3> QED BY <3>1
  <2> QED BY <2>1, <2>2
<1> QED BY <1>1, <1>3 DEF Gateway, Enter

LEMMA DenyKeeps == ASSUME Gateway, Deny PROVE Gateway' /\ socket' = socket
BY DEF Gateway, Deny, RoomsAreAuthorized, Open

LEMMA BoundedWithout ==
    ASSUME FInv, NEW j \in joins, joins' = joins \ {j} PROVE Bounded' /\ joins' \subseteq joins
BY RemoveJoin DEF Bounded, Join

LEMMA SameBounded == ASSUME Bounded, UNCHANGED joins PROVE Bounded'
BY DEF Bounded, Join

LEMMA SameBridge == ASSUME Bridge, UNCHANGED <<inbox, published>> PROVE Bridge'
BY DEF Bridge, Item

-----------------------------------------------------------------------------
LEMMA ConnectionFInv ==
    ASSUME FInv, NEW s \in Sockets,
           (\E token \in Tokens : Connect(s, token)) \/ Refuse(s) \/ Disconnect(s)
    PROVE  FInv'
<1>0. Gateway /\ Bounded /\ Bridge /\ JoinsCarryTheToken
  BY Parts
<1>1. ASSUME NEW token \in Tokens, Connect(s, token) PROVE FInv'
  <2>1. /\ socket' = [socket EXCEPT ![s] = token] /\ socket[s] = New
        /\ rooms' = [rooms EXCEPT ![s] = {<<"user", token.user>>}]
        /\ UNCHANGED <<joins, inbox, published, received>>
    BY <1>1 DEF Connect
  <2>2. token.user \in Orgs
    BY RealtimeAssumption DEF Token
  <2>3. <<"user", token.user>> \in Joinable /\ <<"user", token.user>> # AdminHealth
    BY <2>2 DEF Joinable, AdminHealth
  <2>4. /\ socket' \in [Sockets -> Tokens \union {New, Closed}]
        /\ rooms' \in [Sockets -> SUBSET Joinable]
    BY <1>0, <2>1, <2>3 DEF Gateway
  <2>5. \A p \in Sockets : IF p = s THEN socket'[p] = token /\ rooms'[p] = {<<"user", token.user>>}
                          ELSE socket'[p] = socket[p] /\ rooms'[p] = rooms[p]
    BY <1>0, <2>1 DEF Gateway
  <2>6. RoomsAreAuthorized'
    BY <1>0, <2>3, <2>5 DEF Gateway, RoomsAreAuthorized, Open, Scoped
  <2>7. \A j \in joins : j.socket \in Sockets /\ j.socket # s
    BY <1>0, <2>1 DEF Bounded, Join, JoinsCarryTheToken
  <2>8. JoinsCarryTheToken'
    BY <1>0, <2>1, <2>5, <2>7 DEF JoinsCarryTheToken, Open
  <2>9. Gateway'
    BY <1>0, <2>1, <2>4, <2>6 DEF Gateway
  <2> QED BY <1>0, <2>1, <2>8, <2>9, SameBounded, SameBridge, PartsAfter
<1>2. ASSUME Refuse(s) PROVE FInv'
  <2>1. /\ socket' = [socket EXCEPT ![s] = Closed] /\ socket[s] = New
        /\ UNCHANGED <<rooms, joins, inbox, published, received>>
    BY <1>2 DEF Refuse
  <2>2. \A p \in Sockets : socket'[p] = IF p = s THEN Closed ELSE socket[p]
    BY <1>0, <2>1 DEF Gateway
  <2>3. socket' \in [Sockets -> Tokens \union {New, Closed}]
    BY <1>0, <2>1 DEF Gateway
  <2>4. RoomsAreAuthorized'
    BY <1>0, <2>1, <2>2, StatesDiffer DEF Gateway, RoomsAreAuthorized, Open
  <2>5. Gateway'
    BY <1>0, <2>1, <2>3, <2>4 DEF Gateway
  <2> QED BY <1>0, <2>1, <2>2, <2>5, Carries, SameBounded, SameBridge, PartsAfter
<1>3. ASSUME Disconnect(s) PROVE FInv'
  BY <1>0, <1>3, CloseKeeps, Carries, SameBounded, SameBridge, PartsAfter DEF Disconnect
<1> QED BY <1>1, <1>2, <1>3

LEMMA RoomFInv ==
    ASSUME FInv, NEW s \in Sockets, NEW room \in Requested,
           JoinAtOnce(s, room) \/ JoinRoom(s, room) \/ LeaveRoom(s, room)
    PROVE  FInv'
<1>0. Gateway /\ Bounded /\ Bridge /\ JoinsCarryTheToken
  BY Parts
<1>1. ASSUME JoinAtOnce(s, room) PROVE FInv'
  <2>1. s \in Open /\ UNCHANGED <<joins, inbox, published>>
    BY <1>1 DEF JoinAtOnce
  <2>2. socket[s].user \in Orgs
    BY <2>1, RealtimeAssumption DEF Open, Token
  <2>3. \/ Deny \/ Close(s)
        \/ Enter(s, room) /\ room = <<"user", socket[s].user>>
        \/ Enter(s, room) /\ room = AdminHealth /\ socket[s].admin
    BY <1>1 DEF JoinAtOnce
  <2>4. Gateway' /\ \A p \in Sockets : socket'[p] \in {socket[p], Closed}
    <3>1. CASE Deny
      BY <1>0, <3>1, DenyKeeps
    <3>2. CASE Close(s)
      BY <1>0, <3>2, CloseKeeps
    <3>3. CASE Enter(s, room) /\ room = <<"user", socket[s].user>>
      <4>1. room \in Joinable /\ room # AdminHealth /\ room[1] \notin Scoped
        BY <2>2, <3>3 DEF Joinable, AdminHealth, Scoped
      <4> QED BY <1>0, <3>3, <4>1, EnterKeeps
    <3>4. CASE Enter(s, room) /\ room = AdminHealth /\ socket[s].admin
      <4>1. room \in Joinable /\ room[1] # "user" /\ room[1] \notin Scoped
        BY <3>4 DEF Joinable, AdminHealth, Scoped
      <4> QED BY <1>0, <3>4, <4>1, EnterKeeps
    <3> QED BY <2>3, <3>1, <3>2, <3>3, <3>4
  <2> QED BY <1>0, <2>1, <2>4, Carries, SameBounded, SameBridge, PartsAfter
<1>2. ASSUME JoinRoom(s, room) PROVE FInv'
  <2> DEFINE j == [socket |-> s, org |-> socket[s].org, step |-> room[1], room |-> room]
  <2>1. /\ s \in Open /\ socket[s].org # None /\ room \in Scoped \X (Orgs \union {None})
        /\ Cardinality(joins) < MaxJoins /\ joins' = joins \union {j}
        /\ UNCHANGED <<socket, rooms, inbox, published, received>>
    BY <1>2 DEF JoinRoom
  <2>2. socket[s].org \in Orgs
    BY <2>1, RealtimeAssumption DEF Open, Token
  <2>3. j \in Join
    BY <2>1, <2>2 DEF Join
  <2>4. j.socket = s /\ j.org = socket[s].org
    OBVIOUS
  <2>5. socket[s] # New
    BY <2>1, StatesDiffer DEF Open
  <2> HIDE DEF j
  <2>6. JoinsCarryTheToken'
    BY <1>0, <2>1, <2>4, <2>5 DEF JoinsCarryTheToken, Open
  <2>7. IsFiniteSet(joins') /\ Cardinality(joins') <= Cardinality(joins) + 1
    BY <1>0, <2>1, AddJoin DEF Bounded
  <2>8. Cardinality(joins') \in Nat /\ Cardinality(joins) \in Nat
    BY <1>0, <2>7, FS_CardinalityType DEF Bounded
  <2>9. Cardinality(joins') <= MaxJoins
    BY <2>1, <2>7, <2>8, RealtimeAssumption
  <2>10. Bounded'
    BY <1>0, <2>1, <2>3, <2>7, <2>9 DEF Bounded, Join
  <2>11. Gateway'
    BY <1>0, <2>1, DenyKeeps DEF Deny
  <2> QED BY <1>0, <2>1, <2>6, <2>10, <2>11, SameBridge, PartsAfter
<1>3. ASSUME LeaveRoom(s, room) PROVE FInv'
  <2>1. /\ rooms' = [rooms EXCEPT ![s] = @ \ {room}]
        /\ UNCHANGED <<socket, joins, inbox, published, received>>
    BY <1>3 DEF LeaveRoom
  <2>2. rooms' \in [Sockets -> SUBSET Joinable] /\ \A p \in Sockets : rooms'[p] \subseteq rooms[p]
    BY <1>0, <2>1 DEF Gateway
  <2>3. Gateway'
    BY <1>0, <2>1, <2>2 DEF Gateway, RoomsAreAuthorized, Open
  <2> QED BY <1>0, <2>1, <2>3, Carries, SameBounded, SameBridge, PartsAfter
<1> QED BY <1>1, <1>2, <1>3

LEMMA QueryFInv ==
    ASSUME FInv, NEW j \in joins, FindPipeline(j) \/ FindSession(j) \/ FindWorkflow(j) \/ QueryFails(j)
    PROVE  FInv'
<1>0. Gateway /\ Bounded /\ Bridge /\ JoinsCarryTheToken /\ j \in Join
  BY Parts DEF Bounded
<1>1. ASSUME NEW next \in Scoped, FindRow(j, next) PROVE FInv'
  <2> DEFINE k == [j EXCEPT !.step = next]
  <2>1. Deny /\ UNCHANGED <<inbox, published>>
        /\ joins' = (joins \ {j}) \union (IF j.room[2] # None THEN {k} ELSE {})
    BY <1>1 DEF FindRow
  <2>2. k \in Join /\ k.socket = j.socket /\ k.org = j.org
    BY <1>0 DEF Join
  <2>3. Gateway' /\ socket' = socket
    BY <1>0, <2>1, DenyKeeps
  <2> HIDE DEF k
  <2>4. JoinsCarryTheToken'
    BY <1>0, <2>1, <2>2, <2>3 DEF JoinsCarryTheToken, Open
  <2>5. CASE joins' = joins \ {j}
    BY <1>0, <2>1, <2>3, <2>4, <2>5, BoundedWithout, SameBridge, PartsAfter
  <2>6. CASE joins' = (joins \ {j}) \union {k}
    <3> DEFINE S == joins \ {j}
    <3>1. /\ S \subseteq Join /\ IsFiniteSet(S) /\ Cardinality(S) = Cardinality(joins) - 1
      BY RemoveJoin
    <3>2. /\ IsFiniteSet(S \union {k})
          /\ Cardinality(S \union {k}) = IF k \in S THEN Cardinality(S) ELSE Cardinality(S) + 1
      BY <3>1, FS_AddElement
    <3>3. Cardinality(S) \in Nat /\ Cardinality(joins) \in Nat /\ Cardinality(joins) <= MaxJoins
      BY <1>0, <3>1, FS_CardinalityType DEF Bounded
    <3>4. Cardinality(S \union {k}) <= MaxJoins
      BY <3>1, <3>2, <3>3, RealtimeAssumption
    <3>5. joins' = S \union {k}
      BY <2>6
    <3> HIDE DEF S
    <3>6. Bounded'
      BY <2>2, <3>1, <3>2, <3>4, <3>5 DEF Bounded, Join
    <3> QED BY <1>0, <2>1, <2>3, <2>4, <3>6, SameBridge, PartsAfter
  <2> QED BY <2>1, <2>5, <2>6
<1>2. CASE FindPipeline(j)
  BY <1>1, <1>2 DEF FindPipeline, Scoped
<1>3. CASE FindSession(j)
  BY <1>1, <1>3 DEF FindSession, Scoped
<1>4. ASSUME FindWorkflow(j) PROVE FInv'
  <2>1. joins' = joins \ {j} /\ UNCHANGED <<inbox, published>>
        /\ IF j.room[2] = j.org THEN Enter(j.socket, j.room) ELSE Close(j.socket)
    BY <1>4 DEF FindWorkflow
  <2>2. /\ j.socket \in Sockets /\ j.org \in Orgs
        /\ j.room \in Scoped \X (Orgs \union {None}) /\ j.room[1] \in Scoped
        /\ j.socket \in Open => j.org = socket[j.socket].org
    BY <1>0 DEF Join, JoinsCarryTheToken
  <2>3. Gateway' /\ \A p \in Sockets : socket'[p] \in {socket[p], Closed}
    <3>1. CASE j.room[2] = j.org
      <4>1. j.room = <<j.room[1], j.org>> /\ j.room \in Joinable
        BY <2>2, <3>1 DEF Joinable
      <4>2. j.room[1] # "user" /\ j.room # AdminHealth
        BY <2>2, <4>1 DEF Scoped, AdminHealth
      <4> QED BY <1>0, <2>1, <2>2, <3>1, <4>1, <4>2, EnterKeeps
    <3>2. CASE j.room[2] # j.org
      BY <1>0, <2>1, <2>2, <3>2, CloseKeeps
    <3> QED BY <3>1, <3>2
  <2>4. Bounded' /\ joins' \subseteq joins
    BY <2>1, BoundedWithout
  <2> QED BY <1>0, <2>1, <2>3, <2>4, Carries, SameBridge, PartsAfter
<1>5. ASSUME QueryFails(j) PROVE FInv'
  <2>1. Deny /\ joins' = joins \ {j} /\ UNCHANGED <<inbox, published>>
    BY <1>5 DEF QueryFails
  <2>2. Gateway' /\ socket' = socket
    BY <1>0, <2>1, DenyKeeps
  <2> QED BY <1>0, <2>1, <2>2, BoundedWithout, Carries, SameBridge, PartsAfter
<1> QED BY <1>2, <1>3, <1>4, <1>5

-----------------------------------------------------------------------------
(* Messages                                                                *)

\* What is sent is an event for a room of some client.
LEMMA EmitKeeps ==
    ASSUME Gateway, NEW sent, EmitAll(sent), UNCHANGED <<socket, rooms>>,
           \A e \in sent : e[1] \in Event /\ e = <<e[1], e[2]>>
    PROVE  Gateway' /\ socket' = socket
<1>1. ASSUME NEW s \in Sockets, NEW e \in sent, e[2] \in rooms[s] PROVE e \in Event \X Joinable
  <2>1. e[2] \in Joinable
    BY <1>1 DEF Gateway
  <2> QED BY <1>1, <2>1
<1>2. \A s \in Sockets : received[s] \subseteq Event \X Joinable
  BY DEF Gateway
<1>3. \A s \in Sockets :
          received[s] \union {e \in sent : e[2] \in rooms[s]} \in SUBSET (Event \X Joinable)
  BY <1>1, <1>2
<1>4. received' \in [Sockets -> SUBSET (Event \X Joinable)]
  BY <1>3 DEF EmitAll
<1> QED BY <1>4 DEF Gateway, RoomsAreAuthorized, Open

LEMMA RoutesAreEvents ==
    ASSUME NEW m \in Message
    PROVE  \A e \in Routes(m) : e[1] \in Event /\ e = <<e[1], e[2]>>
<1>1. \A e \in AiProgress(m) : e[1] \in Event /\ e = <<e[1], e[2]>>
  BY DEF AiProgress, Event
<1>2. \A e \in WorkflowUpdated(m) \union SessionFinalized(m) \union DocumentReady(m)
                \union SystemHealth \union NeedsReconciliation(m) :
          e[1] \in Event /\ e = <<e[1], e[2]>>
  BY DEF WorkflowUpdated, SessionFinalized, DocumentReady, SystemHealth, NeedsReconciliation, Event
<1>3. m.event \in {"progress", "progress-log", "updated", "finalized", "document", "ping", "reconcile"}
  BY DEF Message, Progress
<1>4. Routes(m) \in {AiProgress(m), WorkflowUpdated(m), SessionFinalized(m), DocumentReady(m),
                     SystemHealth, NeedsReconciliation(m)}
  BY <1>3 DEF Routes
<1> QED BY <1>1, <1>2, <1>4

LEMMA PublishFInv ==
    ASSUME FInv, NEW m \in Messages, Publish(m) \/ EmitToSession(m) PROVE FInv'
<1>0. Gateway /\ Bounded /\ Bridge /\ m \in Message
  BY Parts, RealtimeAssumption
<1>1. CASE Publish(m)
  <2>1. /\ published' = published \union {m} /\ UNCHANGED <<socket, rooms, joins, received>>
        /\ inbox' = inbox \union {[message |-> m, step |-> "waiting", delivery |-> 1]}
    BY <1>1 DEF Publish
  <2>2. Bridge'
    BY <1>0, <2>1, RealtimeAssumption DEF Bridge, Item
  <2>3. Gateway'
    BY <1>0, <2>1, DenyKeeps DEF Deny
  <2> QED BY <1>0, <2>1, <2>2, <2>3, Carries, SameBounded, PartsAfter
<1>2. CASE EmitToSession(m)
  <2>1. published' = published \union {m} /\ UNCHANGED <<socket, rooms, joins, inbox>>
        /\ EmitAll(Routes(m))
    BY <1>2 DEF EmitToSession
  <2>2. Bridge'
    BY <1>0, <2>1 DEF Bridge, Item
  <2>3. Gateway'
    BY <1>0, <2>1, RoutesAreEvents, EmitKeeps
  <2> QED BY <1>0, <2>1, <2>2, <2>3, Carries, SameBounded, PartsAfter
<1> QED BY <1>1, <1>2

\* What is delivered again is the same message, one delivery on.
LEMMA Again ==
    ASSUME Bridge, NEW i \in inbox
    PROVE  /\ Redelivered(i) \subseteq Item
           /\ \A k \in Redelivered(i) :
                 k.message = i.message /\ k.delivery = i.delivery + 1
           /\ i.delivery \in 1..MaxDeliver
           /\ i.delivery < MaxDeliver => Redelivered(i) # {}
<1>1. i \in Item /\ i.delivery \in 1..MaxDeliver /\ MaxDeliver \in Nat
  BY RealtimeAssumption DEF Bridge, Item
<1>2. CASE i.delivery < MaxDeliver
  <2> DEFINE k == [i EXCEPT !.step = "waiting", !.delivery = @ + 1]
  <2>1. Redelivered(i) = {k}
    BY <1>2 DEF Redelivered
  <2>2. i.delivery + 1 \in 1..MaxDeliver
    BY <1>1, <1>2
  <2>3. k \in Item /\ k.message = i.message /\ k.delivery = i.delivery + 1
    BY <1>1, <2>2 DEF Item
  <2> HIDE DEF k
  <2> QED BY <1>1, <2>1, <2>3
<1>3. CASE ~(i.delivery < MaxDeliver)
  BY <1>1, <1>3 DEF Redelivered
<1> QED BY <1>2, <1>3

LEMMA ForwardFInv ==
    ASSUME FInv, NEW i \in inbox,
           \/ LookUpDocument(i) \/ LookUpFails(i)
           \/ \E acknowledged \in BOOLEAN : Forward(i, acknowledged)
    PROVE  FInv'
<1>0. Gateway /\ Bounded /\ Bridge
  BY Parts
<1>1. /\ i \in Item /\ i.message \in Message
      /\ Redelivered(i) \subseteq Item /\ [i EXCEPT !.step = "routed"] \in Item
  BY <1>0, Again, RealtimeAssumption DEF Bridge, Item
<1>2. CASE LookUpDocument(i) \/ LookUpFails(i)
  <2>1. UNCHANGED <<socket, rooms, joins, published, received>> /\ inbox' \subseteq Item
    BY <1>0, <1>1, <1>2 DEF LookUpDocument, LookUpFails, Bridge
  <2>2. Bridge'
    BY <1>0, <2>1 DEF Bridge, Item
  <2>3. Gateway'
    BY <1>0, <2>1, DenyKeeps DEF Deny
  <2> QED BY <1>0, <2>1, <2>2, <2>3, Carries, SameBounded, PartsAfter
<1>3. ASSUME NEW acknowledged \in BOOLEAN, Forward(i, acknowledged) PROVE FInv'
  <2>1. UNCHANGED <<socket, rooms, joins, published>> /\ EmitAll(Heard(i.message))
    BY <1>3 DEF Forward
  <2>2. inbox' \subseteq Item
    BY <1>0, <1>1, <1>3 DEF Forward, Bridge
  <2>3. Bridge'
    BY <1>0, <2>1, <2>2 DEF Bridge, Item
  <2>4. \A e \in Heard(i.message) : e[1] \in Event /\ e = <<e[1], e[2]>>
    BY <1>1, RoutesAreEvents DEF Heard
  <2>5. Gateway'
    BY <1>0, <2>1, <2>4, EmitKeeps
  <2> QED BY <1>0, <2>1, <2>3, <2>5, Carries, SameBounded, PartsAfter
<1> QED BY <1>2, <1>3

LEMMA CrashFInv == ASSUME FInv, Crash PROVE FInv'
<1>0. Gateway /\ Bridge
  BY Parts
<1>1. /\ socket' = [s \in Sockets |-> IF s \in Open THEN Closed ELSE socket[s]]
      /\ rooms' = [s \in Sockets |-> {}] /\ received' = [s \in Sockets |-> {}]
      /\ joins' = {} /\ UNCHANGED published
  BY DEF Crash
<1>2. Gateway' /\ \A s \in Sockets : socket'[s] \in {socket[s], Closed}
  BY <1>0, <1>1 DEF Gateway, RoomsAreAuthorized
<1>3. Bounded'
  <2>1. IsFiniteSet({}) /\ Cardinality({}) = 0
    BY FS_EmptySet
  <2> QED BY <1>1, <2>1, RealtimeAssumption DEF Bounded
<1>4. PICK held \in SUBSET inbox :
          inbox' = (inbox \ held) \union UNION {Redelivered(i) : i \in held}
  BY DEF Crash
<1>5. Bridge'
  <2>1. \A i \in held : Redelivered(i) \subseteq Item
    BY <1>0, <1>4, Again
  <2>2. inbox' \subseteq Item
    BY <1>0, <1>4, <2>1 DEF Bridge
  <2> QED BY <1>0, <1>1, <2>2 DEF Bridge, Item
<1> QED BY <1>1, <1>2, <1>3, <1>5, Carries, PartsAfter

LEMMA StutterFInv == ASSUME FInv, UNCHANGED vars PROVE FInv'
<1>1. Gateway /\ Bounded /\ Bridge
  BY Parts
<1>2. Gateway'
  BY <1>1, DenyKeeps DEF vars, Deny
<1>3. Bounded' /\ Bridge' /\ UNCHANGED <<socket, joins>>
  BY <1>1, SameBounded, SameBridge DEF vars
<1> QED BY <1>2, <1>3, Carries, PartsAfter

-----------------------------------------------------------------------------
LEMMA FInvAfterNext == ASSUME FInv, Next PROVE FInv'
BY ConnectionFInv, RoomFInv, QueryFInv, PublishFInv, ForwardFInv, CrashFInv DEF Next

LEMMA PublishedAfter == ASSUME FInv' PROVE published' \subseteq Messages
BY DEF FInv, IInv, RoomsConsistent, TypeOK

LEMMA InboxAfter == ASSUME FInv' PROVE \A k \in inbox' : k.delivery \in Int
BY DEF FInv, IInv, RoomsConsistent, TypeOK

\* The inductive invariant: whoever is in a room may hear it, because a
\* handler still carries the organization its socket had when it asked, and
\* a socket that closed stays closed.
THEOREM Invariance == Spec => []FInv
<1>1. Init => FInv
  BY InitFInv
<1>2. FInv /\ [Next]_vars => FInv'
  BY FInvAfterNext, StutterFInv
<1> QED BY <1>1, <1>2, PTL DEF Spec

\* Clients hear only what their token permits, whatever joins, departures and
\* crashes overlap (RealtimeGateway.handleJoinRoom, handleLeaveRoom).
THEOREM ClientsStayAuthorized == Spec => []RoomsConsistent
<1>1. FInv => RoomsConsistent
  BY DEF FInv, IInv
<1> QED BY <1>1, Invariance, PTL
-----------------------------------------------------------------------------
(* Listeners                                                               *)

\* What every step does for those who listen: a client still in a room keeps
\* what it got, and a message that leaves the inbox, uses up a delivery or
\* never enters it, has been sent to everyone who stays in its rooms, unless
\* its lookup failed.
ReceivedStays == \A s \in Sockets : rooms'[s] # {} => received[s] \subseteq received'[s]

Sent(m, where) ==
    \A s \in Sockets : \A e \in Routes(m) : e[2] \in where[s] => e \in received'[s]

Staying == [s \in Sockets |-> rooms[s] \intersect rooms'[s]]

InboxDelivers ==
    \A i \in inbox :
        \/ Sent(i.message, Staying)
        \/ \E k \in inbox' : k.message = i.message /\ k.delivery <= i.delivery
        \/ LookUpFails(i)

NewsDelivers ==
    \A m \in published' \ published :
        Sent(m, rooms') \/ \E k \in inbox' : k.message = m /\ k.delivery = 1

Delivers == ReceivedStays /\ InboxDelivers /\ NewsDelivers

\* Messages that stay as they are need no delivery.
LEMMA Untouched ==
    ASSUME Bridge, inbox \subseteq inbox' PROVE InboxDelivers
<1>1. \A i \in inbox : i \in inbox' /\ i.delivery \in Int
  BY DEF Bridge, Item
<1> QED BY <1>1 DEF InboxDelivers

\* A step that publishes nothing and handles no message.
LEMMA QuietDelivers ==
    ASSUME FInv, ReceivedStays, UNCHANGED <<inbox, published>> PROVE Delivers
BY Parts, Untouched DEF Delivers, NewsDelivers

LEMMA CloseStays ==
    ASSUME Gateway, NEW s \in Sockets, Close(s) PROVE ReceivedStays
BY DEF Gateway, Close, ReceivedStays

LEMMA ConnectionDelivers ==
    ASSUME FInv, NEW s \in Sockets,
           (\E token \in Tokens : Connect(s, token)) \/ Refuse(s) \/ Disconnect(s)
    PROVE  Delivers
<1>1. CASE (\E token \in Tokens : Connect(s, token)) \/ Refuse(s)
  <2>1. UNCHANGED <<received, inbox, published>>
    BY <1>1 DEF Connect, Refuse
  <2> QED BY <2>1, QuietDelivers DEF ReceivedStays
<1>2. CASE Disconnect(s)
  BY <1>2, Parts, CloseStays, QuietDelivers DEF Disconnect
<1> QED BY <1>1, <1>2

LEMMA RoomDelivers ==
    ASSUME FInv, NEW s \in Sockets, NEW room \in Requested,
           JoinAtOnce(s, room) \/ JoinRoom(s, room) \/ LeaveRoom(s, room)
    PROVE  Delivers
<1>1. UNCHANGED <<inbox, published>> /\ (UNCHANGED received \/ Close(s))
  BY DEF JoinAtOnce, JoinRoom, LeaveRoom, Deny, Enter
<1>2. ReceivedStays
  BY <1>1, Parts, CloseStays DEF ReceivedStays
<1> QED BY <1>1, <1>2, QuietDelivers

LEMMA QueryDelivers ==
    ASSUME FInv, NEW j \in joins, FindPipeline(j) \/ FindSession(j) \/ FindWorkflow(j) \/ QueryFails(j)
    PROVE  Delivers
<1>1. j.socket \in Sockets
  BY Parts DEF Bounded, Join
<1>2. UNCHANGED <<inbox, published>> /\ (UNCHANGED received \/ Close(j.socket))
  BY DEF FindPipeline, FindSession, FindWorkflow, QueryFails, FindRow, Deny, Enter
<1>3. ReceivedStays
  BY <1>1, <1>2, Parts, CloseStays DEF ReceivedStays
<1> QED BY <1>2, <1>3, QuietDelivers

LEMMA EmitSends ==
    ASSUME NEW m, NEW sent, EmitAll(sent), UNCHANGED rooms,
           \A e \in Routes(m) : HasListeners(e[2]) => e \in sent
    PROVE  ReceivedStays /\ Sent(m, rooms)
<1>1. ReceivedStays
  BY DEF EmitAll, ReceivedStays
<1>2. ASSUME NEW s \in Sockets, NEW e \in Routes(m), e[2] \in rooms[s] PROVE e \in received'[s]
  <2>1. HasListeners(e[2])
    BY <1>2 DEF HasListeners
  <2> QED BY <1>2, <2>1 DEF EmitAll
<1> QED BY <1>1, <1>2 DEF Sent

LEMMA PublishDelivers ==
    ASSUME FInv, NEW m \in Messages, Publish(m) \/ EmitToSession(m) PROVE Delivers
<1>1. CASE Publish(m)
  <2>1. /\ UNCHANGED received /\ published' = published \union {m}
        /\ inbox' = inbox \union {[message |-> m, step |-> "waiting", delivery |-> 1]}
    BY <1>1 DEF Publish
  <2>2. ReceivedStays /\ InboxDelivers
    BY <2>1, Parts, Untouched DEF ReceivedStays
  <2>3. [message |-> m, step |-> "waiting", delivery |-> 1] \in inbox' /\ published' \ published \subseteq {m}
    BY <2>1
  <2>4. NewsDelivers
    BY <2>3 DEF NewsDelivers
  <2> QED BY <2>2, <2>4 DEF Delivers
<1>2. CASE EmitToSession(m)
  <2>1. UNCHANGED <<rooms, inbox>> /\ published' = published \union {m} /\ EmitAll(Routes(m))
    BY <1>2 DEF EmitToSession
  <2>2. ReceivedStays /\ Sent(m, rooms')
    BY <2>1, EmitSends
  <2>3. InboxDelivers
    BY <2>1, Parts, Untouched
  <2> QED BY <2>1, <2>2, <2>3 DEF Delivers, NewsDelivers
<1> QED BY <1>1, <1>2

\* Who stays in a room was in it.
LEMMA SentToStaying ==
    ASSUME NEW m, Sent(m, rooms) PROVE Sent(m, Staying)
BY DEF Sent, Staying

\* A document without a session stands for an event in a room nobody is in.
LEMMA NoRoomWithoutSession ==
    ASSUME Gateway, NEW m, m.event = "document", m.org = None PROVE Sent(m, rooms)
<1>1. Routes(m) = {<<"document.ready", <<"session", None>>>>}
  BY DEF Routes, DocumentReady
<1>2. <<"session", None>> \notin Joinable
  BY RealtimeAssumption DEF Joinable, Scoped, AdminHealth
<1>3. \A s \in Sockets : <<"session", None>> \notin rooms[s]
  BY <1>2 DEF Gateway
<1> QED BY <1>1, <1>3 DEF Sent

LEMMA ForwardDelivers ==
    ASSUME FInv, NEW i \in inbox,
           \/ LookUpDocument(i) \/ LookUpFails(i)
           \/ \E acknowledged \in BOOLEAN : Forward(i, acknowledged)
    PROVE  Delivers
<1>0. Gateway /\ Bridge /\ i \in Item
  BY Parts DEF Bridge
<1>1. \A k \in inbox : k.delivery \in Int
  BY <1>0 DEF Bridge, Item
<1>2. SUFFICES ASSUME UNCHANGED published, ReceivedStays, inbox \ {i} \subseteq inbox',
                      \/ Sent(i.message, rooms)
                      \/ \E k \in inbox' : k.message = i.message /\ k.delivery <= i.delivery
                      \/ LookUpFails(i)
               PROVE  Delivers
  <2>1. CASE LookUpDocument(i)
    <3>1. /\ i.message.event = "document" /\ UNCHANGED <<published, received>>
          /\ inbox' = (inbox \ {i}) \union
                (IF i.message.org = None THEN {} ELSE {[i EXCEPT !.step = "routed"]})
      BY <2>1 DEF LookUpDocument
    <3>2. ReceivedStays
      BY <3>1 DEF ReceivedStays
    <3>3. [i EXCEPT !.step = "routed"].message = i.message
          /\ [i EXCEPT !.step = "routed"].delivery <= i.delivery
      BY <1>0, <1>1 DEF Item
    <3>4. \/ Sent(i.message, rooms)
          \/ \E k \in inbox' : k.message = i.message /\ k.delivery <= i.delivery
      <4>1. CASE i.message.org = None
        BY <1>0, <3>1, <4>1, NoRoomWithoutSession
      <4>2. CASE i.message.org # None
        BY <3>1, <3>3, <4>2
      <4> QED BY <4>1, <4>2
    <3> QED BY <1>2, <3>1, <3>2, <3>4
  <2>2. CASE LookUpFails(i)
    <3>1. UNCHANGED <<published, received>> /\ inbox \ {i} \subseteq inbox'
      BY <2>2 DEF LookUpFails
    <3>2. ReceivedStays
      BY <3>1 DEF ReceivedStays
    <3> QED BY <1>2, <2>2, <3>1, <3>2
  <2>3. ASSUME NEW acknowledged \in BOOLEAN, Forward(i, acknowledged) PROVE Delivers
    <3>1. UNCHANGED <<rooms, published>> /\ EmitAll(Heard(i.message)) /\ inbox \ {i} \subseteq inbox'
      BY <2>3 DEF Forward
    <3>2. ReceivedStays /\ Sent(i.message, rooms)
      BY <3>1, EmitSends DEF Heard
    <3> QED BY <1>2, <3>1, <3>2
  <2> QED BY <2>1, <2>2, <2>3
<1>3. NewsDelivers
  BY <1>2 DEF NewsDelivers
<1>4. ASSUME NEW k \in inbox
      PROVE  \/ Sent(k.message, Staying)
             \/ \E l \in inbox' : l.message = k.message /\ l.delivery <= k.delivery
             \/ LookUpFails(k)
  <2>1. CASE k = i
    BY <1>2, <2>1, SentToStaying
  <2>2. CASE k # i
    BY <1>1, <1>2, <2>2
  <2> QED BY <2>1, <2>2
<1>5. InboxDelivers
  BY <1>4 DEF InboxDelivers
<1> QED BY <1>2, <1>3, <1>5 DEF Delivers

LEMMA CrashDelivers == ASSUME FInv, Crash PROVE Delivers
<1>1. rooms' = [s \in Sockets |-> {}] /\ UNCHANGED published
  BY DEF Crash
<1>2. \A s \in Sockets : Staying[s] = {}
  BY <1>1 DEF Staying
<1>3. \A i \in inbox : Sent(i.message, Staying)
  BY <1>2 DEF Sent
<1>4. ReceivedStays
  BY <1>1 DEF ReceivedStays
<1> QED BY <1>1, <1>3, <1>4 DEF Delivers, InboxDelivers, NewsDelivers

LEMMA StepDelivers == ASSUME FInv, Next PROVE Delivers
BY ConnectionDelivers, RoomDelivers, QueryDelivers, PublishDelivers, ForwardDelivers, CrashDelivers
   DEF Next

\* Whoever is told of stays in the room by definition, so that a step can only
\* break ListenersMissNothing by what it takes away or leaves unsent.
LEMMA ListenersKeep == ASSUME FInv, ListenersInv, HistoryNext PROVE ListenersInv'
<1>1. Delivers /\ watching' = {w \in watching \union Audience(published' \ published) :
                                 w[3][2] \in rooms'[w[1]]}
  BY StepDelivers DEF HistoryNext
<1>2. \A w \in Audience(published' \ published) :
          w[1] \in Sockets /\ w[2] \in published' \ published /\ w[3] \in Routes(w[2])
  BY DEF Audience
<1>a. failed \in [Messages -> Nat] /\ MaxDeliver \in Nat
  BY RealtimeAssumption DEF ListenersInv
<1>b. /\ failed' = [m \in Messages |->
                     IF \E i \in inbox : i.message = m /\ LookUpFails(i)
                     THEN failed[m] + 1 ELSE failed[m]]
      /\ published' \subseteq Messages
  <2>1. published' \subseteq Messages
    BY FInvAfterNext, Parts, PublishedAfter DEF HistoryNext
  <2> QED BY <2>1 DEF HistoryNext
<1>c. /\ failed' \in [Messages -> Nat]
      /\ \A m \in Messages : failed'[m] >= failed[m]
      /\ \A i \in inbox : i.message \in Messages /\ LookUpFails(i)
                             => failed'[i.message] = failed[i.message] + 1
  BY <1>a, <1>b
<1>3. \A w \in watching' : /\ w[1] \in Sockets /\ w[2] \in Messages
                            /\ w[3] \in Routes(w[2]) /\ w[3][2] \in rooms'[w[1]]
  BY <1>1, <1>2, <1>b DEF ListenersInv, ListenersListen
<1>4. ASSUME NEW w \in watching'
      PROVE  \/ w[3] \in received'[w[1]]
             \/ \E i \in inbox' : i.message = w[2] /\ i.delivery <= failed'[w[2]] + 1
             \/ failed'[w[2]] >= MaxDeliver
  <2>0. w[2] \in Messages /\ failed'[w[2]] \in Nat /\ failed[w[2]] \in Nat
        /\ failed'[w[2]] >= failed[w[2]]
    BY <1>3, <1>a, <1>c
  <2>1. CASE w \in watching
    <3>1. w[1] \in Sockets /\ w[3] \in Routes(w[2]) /\ w[3][2] \in rooms[w[1]]
      BY <2>1 DEF ListenersInv, ListenersListen
    <3>2. CASE w[3] \in received[w[1]]
      BY <1>1, <1>3, <3>2 DEF Delivers, ReceivedStays
    <3>3. ASSUME NEW i \in inbox, i.message = w[2], i.delivery <= failed[w[2]] + 1
          PROVE  \/ w[3] \in received'[w[1]]
                 \/ \E k \in inbox' : k.message = w[2] /\ k.delivery <= failed'[w[2]] + 1
                 \/ failed'[w[2]] >= MaxDeliver
      <4>1. Bridge /\ i.delivery \in 1..MaxDeliver
        BY Parts, Again
      <4>2. CASE Sent(i.message, Staying)
        BY <1>3, <3>1, <3>3, <4>2 DEF Sent, Staying
      <4>3. CASE \E k \in inbox' : k.message = i.message /\ k.delivery <= i.delivery
        <5>1. PICK k \in inbox' : k.message = i.message /\ k.delivery <= i.delivery
          BY <4>3
        <5>2. k.delivery \in Int
          BY FInvAfterNext, InboxAfter DEF HistoryNext
        <5> QED BY <2>0, <3>3, <4>1, <5>1, <5>2
      <4>4. CASE LookUpFails(i)
        <5>1. failed'[w[2]] = failed[w[2]] + 1
          BY <1>c, <2>0, <3>3, <4>4
        <5>2. Redelivered(i) \subseteq inbox'
          BY <4>4 DEF LookUpFails
        <5>3. CASE i.delivery < MaxDeliver
          <6>1. PICK k \in Redelivered(i) : k.message = i.message /\ k.delivery = i.delivery + 1
            BY <4>1, <5>3, Again
          <6> QED BY <2>0, <3>3, <4>1, <5>1, <5>2, <6>1
        <5>4. CASE i.delivery >= MaxDeliver
          BY <1>a, <2>0, <3>3, <4>1, <5>1, <5>4
        <5> QED BY <1>a, <4>1, <5>3, <5>4
      <4> QED BY <1>1, <4>2, <4>3, <4>4 DEF Delivers, InboxDelivers
    <3>4. CASE failed[w[2]] >= MaxDeliver
      BY <1>a, <2>0, <3>4
    <3> QED BY <2>1, <3>2, <3>3, <3>4 DEF ListenersInv, OnlyLookupsFail
  <2>2. CASE w \notin watching
    <3>1. w[2] \in published' \ published /\ w[1] \in Sockets /\ w[3] \in Routes(w[2])
      BY <1>1, <1>2, <2>2
    <3>2. CASE Sent(w[2], rooms')
      BY <1>3, <3>1, <3>2 DEF Sent
    <3>3. CASE \E k \in inbox' : k.message = w[2] /\ k.delivery = 1
      BY <2>0, <3>3
    <3> QED BY <1>1, <3>1, <3>2, <3>3 DEF Delivers, NewsDelivers
  <2> QED BY <2>1, <2>2
<1> QED BY <1>3, <1>4, <1>c DEF ListenersInv, ListenersListen, OnlyLookupsFail

\* A client that is in a room a message names, from its publication to its
\* settlement, has got the events, unless the lookup of the document failed on
\* every delivery (NatsWsBridgeService, which sends to a room only when
\* RealtimeGateway.hasListeners says somebody is in it, and nats.client.ts).
THEOREM ListenersAreServed == HistorySpec => []ListenersMissNothing
<1>1. HistoryInit => FInv /\ ListenersInv
  BY InitFInv DEF HistoryInit, ListenersInv, ListenersListen, OnlyLookupsFail
<1>2. ASSUME FInv, ListenersInv, [HistoryNext]_historyVars PROVE FInv' /\ ListenersInv'
  <2>1. CASE HistoryNext
    <3>1. FInv'
      BY <1>2, <2>1, FInvAfterNext DEF HistoryNext
    <3> QED BY <1>2, <2>1, <3>1, ListenersKeep
  <2>2. CASE UNCHANGED historyVars
    <3>1. UNCHANGED vars /\ UNCHANGED <<watching, failed>>
      BY <2>2 DEF historyVars
    <3>2. FInv'
      BY <1>2, <3>1, StutterFInv
    <3>3. UNCHANGED <<rooms, inbox, received, watching, failed>>
      BY <3>1 DEF vars
    <3> QED BY <1>2, <3>2, <3>3 DEF ListenersInv, ListenersListen, OnlyLookupsFail
  <2> QED BY <1>2, <2>1, <2>2
<1>3. ListenersInv => ListenersMissNothing
  BY DEF ListenersInv, OnlyLookupsFail, ListenersMissNothing
<1> QED BY <1>1, <1>2, <1>3, PTL DEF HistorySpec
-----------------------------------------------------------------------------
(* The health checks whose alerts the room admin-health hears              *)

LEMMA TimeType ==
    /\ TTL \in Nat \ {0} /\ MaxTime \in Nat
    /\ Time \subseteq Nat /\ 0 \in Time
BY HealthAssumption DEF Time

\* A result is a function from services to measurements.
LEMMA ResultType ==
    ASSUME NEW result, result \in Result
    PROVE  /\ DOMAIN result \subseteq Services
           /\ \A s \in DOMAIN result : /\ result[s].status \in Status
                                       /\ result[s].time \in Time
                                       /\ result[s] \in Measurement
           /\ result = [s \in DOMAIN result |-> result[s]]
<1>1. PICK S \in SUBSET Services : result \in [S -> Measurement]
  BY DEF Result
<1> QED BY <1>1 DEF Measurement

LEMMA ResultMade ==
    ASSUME NEW S \in SUBSET Services, NEW result, result \in [S -> Measurement]
    PROVE  result \in Result
BY DEF Result

LEMMA RequestType ==
    ASSUME HealthTypeOK, NEW r \in Calls
    PROVE  /\ call[r].step = "checking" =>
                 /\ call[r].since \in Time /\ call[r].measured \in Result
                 /\ call[r] \in [step : {"checking"}, since : Time, measured : Result]
           /\ call[r].step = "answered" =>
                 call[r].time \in Time /\ call[r].services \in Result /\ call[r].took \in Time
BY DEF HealthTypeOK, Asking, NotAsked

LEMMA AnswerType ==
    ASSUME NEW result \in Result, NEW took \in Time, now \in Time
    PROVE  Answer(result, took) \in Asking
<1>1. Aggregate(result) \in Status
  BY DEF Aggregate, Status
<1> QED BY <1>1 DEF Answer, Asking

LEMMA IndicatedType ==
    ASSUME NEW s \in Services
    PROVE  Indicated(s) \subseteq Status
<1>1. s \in {"postgres", "pgvector", "nats", "minio", "ollama", "fastapi", "elsa"}
  BY HealthAssumption
<1>2. Indicator[s] \subseteq {"up", "degraded", "down"}
  BY <1>1 DEF Indicator, CheckPostgres, CheckPgVector, CheckMinIO,
     CheckOllama, CheckFastAPI, CheckElsa, CheckNats, Reports
<1> QED BY <1>2 DEF Indicated, MapStatus, Status
\* A step of a request that leaves the cache alone.
LEMMA RequestTypeOK ==
    ASSUME HealthTypeOK, NEW r \in Calls, NEW next \in Asking,
           Goto(r, next), UNCHANGED <<cache, alerted, now>>
    PROVE  HealthTypeOK'
BY DEF HealthTypeOK, Goto

\* What a request that has moved, and the others, are doing.
LEMMA Gone ==
    ASSUME HealthTypeOK, NEW r \in Calls, NEW next, Goto(r, next)
    PROVE  call'[r] = next /\ \A q \in Calls : q # r => call'[q] = call[q]
BY DEF HealthTypeOK, Goto

\* An answer is as old as the invariant says if its result is.
LEMMA AnswerIsRecent ==
    ASSUME HealthInv, NEW r \in Calls, NEW result \in Result, NEW took \in Time,
           Goto(r, Answer(result, took)), now' = now,
           \A s \in DOMAIN result : now < result[s].time + TTL + took
    PROVE  /\ AnswersAreRecent' /\ ChecksInTime'
           /\ Answer(result, took) \in Asking
<1>0. HealthTypeOK /\ AnswersAreRecent /\ ChecksInTime /\ now \in Nat
      /\ now \in Time /\ took \in Nat
  BY TimeType DEF HealthInv, AnswersConsistent, HealthTypeOK
<1>1. /\ call'[r] = Answer(result, took)
      /\ \A q \in Calls : q # r => call'[q] = call[q]
  BY <1>0, Gone
<1>2. /\ call'[r].step = "answered" /\ call'[r].time = now
      /\ call'[r].services = result /\ call'[r].took = took
  BY <1>1 DEF Answer
<1>3. ASSUME NEW q \in Calls, call'[q].step = "answered",
             NEW s \in DOMAIN call'[q].services
      PROVE  call'[q].time - call'[q].services[s].time < TTL + call'[q].took
  <2>1. CASE q = r
    <3>1. result[s].time \in Nat /\ now < result[s].time + TTL + took
      BY <1>2, <1>3, <2>1, ResultType, TimeType
    <3> QED BY <1>0, <1>2, <2>1, <3>1, TimeType
  <2>2. CASE q # r
    BY <1>0, <1>1, <1>3, <2>2 DEF AnswersAreRecent, Answers
  <2> QED BY <2>1, <2>2
<1>4. AnswersAreRecent'
  BY <1>3 DEF AnswersAreRecent, Answers
<1>5. ChecksInTime'
  BY <1>0, <1>1, <1>2 DEF ChecksInTime
<1> QED BY <1>0, <1>4, <1>5, AnswerType

\* A request that is not answering changes what it does: no answer is new.
LEMMA NoNewAnswer ==
    ASSUME HealthInv, NEW r \in Calls, NEW next, next.step # "answered",
           Goto(r, next)
    PROVE  AnswersAreRecent'
<1>1. call'[r] = next /\ \A q \in Calls : q # r => call'[q] = call[q]
  BY Gone DEF HealthInv, AnswersConsistent
<1> QED BY <1>1 DEF HealthInv, AnswersConsistent, AnswersAreRecent, Answers

LEMMA InitHealthInv == ASSUME HealthInit PROVE HealthInv
<1>1. HealthTypeOK
  BY TimeType DEF HealthInit, HealthTypeOK, Asking
<1>2. AnswersAreRecent /\ ChecksInTime /\ CacheInTime
  BY DEF HealthInit, NotAsked, AnswersAreRecent, Answers, ChecksInTime,
     CacheInTime
<1> QED BY <1>1, <1>2 DEF HealthInv, AnswersConsistent

LEMMA HealthRequestStep ==
    ASSUME HealthInv, NEW r \in Calls,
           \/ AnswerFromCache(r) \/ StartCheck(r) \/ Leave(r)
           \/ \E s \in Services, status \in {"ok", "up", "degraded", "down"} :
                 Measure(r, s, status)
    PROVE  HealthInv'
<1>0. /\ HealthTypeOK /\ AnswersAreRecent /\ ChecksInTime /\ CacheInTime
      /\ now \in Nat /\ now \in Time /\ TTL \in Nat /\ TTL > 0
  BY TimeType DEF HealthInv, AnswersConsistent, HealthTypeOK
<1>1. UNCHANGED <<cache, alerted, now>>
  BY DEF AnswerFromCache, StartCheck, Leave, Measure
<1>2. CacheInTime'
  BY <1>0, <1>1 DEF CacheInTime
<1> SUFFICES HealthTypeOK' /\ AnswersAreRecent' /\ ChecksInTime'
  BY <1>2 DEF HealthInv, AnswersConsistent
<1>3. CASE AnswerFromCache(r)
  <2>1. /\ cache # NoResult /\ now - cache.at < TTL
        /\ Goto(r, Answer(cache.result, cache.took))
    BY <1>3 DEF AnswerFromCache, Fresh
  <2>2. cache.result \in Result /\ cache.at \in Nat /\ cache.took \in Time /\ cache.took \in Nat
    BY <1>0, <2>1, TimeType DEF HealthTypeOK
  <2>3. ASSUME NEW s \in DOMAIN cache.result
        PROVE  now < cache.result[s].time + TTL + cache.took
    <3>1. cache.at <= cache.result[s].time + cache.took /\ cache.result[s].time \in Nat
      BY <1>0, <2>1, <2>2, ResultType, TimeType DEF CacheInTime
    <3> QED BY <1>0, <2>1, <2>2, <3>1
  <2> QED BY <1>0, <1>1, <2>1, <2>2, <2>3, AnswerIsRecent, RequestTypeOK
<1>4. CASE StartCheck(r)
  <2> DEFINE next == [step |-> "checking", since |-> now, measured |-> [s \in {} |-> NoResult]]
  <2>1. Goto(r, next)
    BY <1>4 DEF StartCheck
  <2>2. [s \in {} |-> NoResult] \in Result
    <3>1. [s \in {} |-> NoResult] \in [{} -> Measurement]
      OBVIOUS
    <3> QED BY <3>1, ResultMade
  <2>3. next \in Asking /\ next.step # "answered"
    BY <1>0, <2>2 DEF Asking
  <2>4. ChecksInTime'
    <3>1. call'[r] = next /\ \A q \in Calls : q # r => call'[q] = call[q]
      BY <1>0, <2>1, Gone
    <3>2. DOMAIN call'[r].measured = {} /\ call'[r].since = now'
      BY <1>0, <1>1, <3>1
    <3> QED BY <1>0, <1>1, <3>1, <3>2 DEF ChecksInTime
  <2> QED BY <1>0, <1>1, <2>1, <2>3, <2>4, NoNewAnswer, RequestTypeOK
<1>5. CASE Leave(r)
  <2>1. Goto(r, NotAsked) /\ NotAsked \in Asking
        /\ NotAsked.step \notin {"checking", "answered"}
    BY <1>5 DEF Leave, NotAsked, Asking
  <2>2. ChecksInTime'
    <3>1. call'[r] = NotAsked /\ \A q \in Calls : q # r => call'[q] = call[q]
      BY <1>0, <2>1, Gone
    <3> QED BY <1>0, <1>1, <2>1, <3>1 DEF ChecksInTime
  <2> QED BY <1>0, <1>1, <2>1, <2>2, NoNewAnswer, RequestTypeOK
<1>6. ASSUME NEW s \in Services, NEW status, Measure(r, s, status)
      PROVE  HealthTypeOK' /\ AnswersAreRecent' /\ ChecksInTime'
  <2> DEFINE measured == call[r].measured
             new == [t \in DOMAIN measured \union {s} |->
                        IF t = s THEN [status |-> status, time |-> now] ELSE measured[t]]
             next == [call[r] EXCEPT !.measured = new]
  <2>1. Goto(r, next) /\ call[r].step = "checking" /\ status \in Status
    BY <1>6, IndicatedType DEF Measure
  <2>2. /\ call[r] \in [step : {"checking"}, since : Time, measured : Result]
        /\ measured \in Result
    BY <1>0, <2>1, RequestType
  <2>3. new \in Result
    <3>1. [status |-> status, time |-> now] \in Measurement
      BY <1>0, <2>1 DEF Measurement
    <3>2. /\ DOMAIN measured \subseteq Services
          /\ \A t \in DOMAIN measured : measured[t] \in Measurement
      BY <2>2, ResultType
    <3>3. new \in [DOMAIN measured \union {s} -> Measurement]
      BY <3>1, <3>2
    <3> QED BY <3>2, <3>3, ResultMade
  <2> HIDE DEF new
  <2>4. /\ next \in Asking /\ next.step = "checking" /\ next.measured = new
        /\ next.since = call[r].since /\ next.since \in Nat
    BY <2>2, <2>3, TimeType DEF Asking
  <2>5. ASSUME NEW t \in DOMAIN new PROVE next.since <= new[t].time
    <3>1. CASE t = s
      BY <1>0, <2>1, <2>2, <2>4, <3>1, TimeType DEF new, ChecksInTime
    <3>2. CASE t # s
      <4>1. t \in DOMAIN measured /\ new[t] = measured[t]
        BY <2>5, <3>2 DEF new
      <4> QED BY <1>0, <2>1, <2>4, <4>1 DEF ChecksInTime
    <3> QED BY <3>1, <3>2
  <2>6. ChecksInTime'
    <3>1. call'[r] = next /\ \A q \in Calls : q # r => call'[q] = call[q]
      BY <1>0, <2>1, Gone
    <3> HIDE DEF next
    <3> QED BY <1>0, <1>1, <2>1, <2>4, <2>5, <3>1 DEF ChecksInTime
  <2> HIDE DEF next
  <2>7. next.step # "answered"
    BY <2>4
  <2> QED BY <1>0, <1>1, <2>1, <2>4, <2>6, <2>7, NoNewAnswer, RequestTypeOK
<1> QED BY <1>3, <1>4, <1>5, <1>6
\* The end of a check: what it leaves in the cache was measured while it ran.
LEMMA FinishCheckStep ==
    ASSUME HealthInv, NEW r \in Calls, FinishCheck(r)
    PROVE  HealthInv'
<1> DEFINE result == call[r].measured
           took == now - call[r].since
<1>0. /\ HealthTypeOK /\ ChecksInTime
      /\ now \in Nat /\ now \in Time /\ TTL \in Nat /\ TTL > 0
  BY TimeType DEF HealthInv, AnswersConsistent, HealthTypeOK
<1>1. /\ call[r].step = "checking" /\ DOMAIN result = Services
      /\ cache' = [result |-> result, at |-> now, took |-> took] /\ now' = now
      /\ alerted' = [s \in Services |-> IF s \in Alerts(result) THEN result[s].status
                                        ELSE alerted[s]]
      /\ Goto(r, Answer(result, took))
  BY DEF FinishCheck
<1>2. result \in Result /\ call[r].since \in Nat /\ call[r].since <= now
  BY <1>0, <1>1, RequestType, TimeType DEF ChecksInTime
<1>2a. took \in Time /\ took \in Nat
  BY <1>0, <1>2, TimeType DEF Time
<1>3. ASSUME NEW s \in DOMAIN result
      PROVE  now <= result[s].time + took /\ result[s].time \in Nat
  BY <1>0, <1>1, <1>2, <1>3, ResultType, TimeType DEF ChecksInTime
<1> HIDE DEF took
<1>4. AnswersAreRecent' /\ ChecksInTime' /\ Answer(result, took) \in Asking
  <2>1. \A s \in DOMAIN result : now < result[s].time + TTL + took
    BY <1>0, <1>2a, <1>3
  <2> QED BY <1>1, <1>2, <1>2a, <2>1, AnswerIsRecent
<1>5. CacheInTime'
  <2>1. cache'.at = now /\ cache'.result = result /\ cache'.took = took
    BY <1>1
  <2> HIDE DEF result
  <2> QED BY <1>3, <2>1 DEF CacheInTime
<1>6. HealthTypeOK'
  <2>1. cache' \in [result : Result, at : Time, took : Time]
    BY <1>0, <1>1, <1>2, <1>2a
  <2>2. alerted' \in [Services -> (Status \ {"ok"}) \union {NoResult}]
    <3>1. \A s \in Alerts(result) : result[s].status \in Status \ {"ok"}
      BY <1>2, ResultType DEF Alerts
    <3> HIDE DEF result
    <3> QED BY <1>0, <1>1, <3>1 DEF HealthTypeOK
  <2>3. call' \in [Calls -> Asking]
    BY <1>0, <1>1, <1>4 DEF Goto, HealthTypeOK
  <2> QED BY <1>0, <1>1, <2>1, <2>2, <2>3 DEF HealthTypeOK
<1> QED BY <1>4, <1>5, <1>6 DEF HealthInv, AnswersConsistent

LEMMA HealthStep ==
    ASSUME HealthInv, [HealthNext]_healthVars
    PROVE  HealthInv'
<1>0. /\ HealthTypeOK /\ AnswersAreRecent /\ ChecksInTime /\ CacheInTime
      /\ now \in Nat /\ now \in Time /\ MaxTime \in Nat
  BY TimeType DEF HealthInv, AnswersConsistent, HealthTypeOK
<1>1. CASE HealthPing
  <2>1. \/ cache' = cache
        \/ cache' = [result |-> [s \in {} |-> NoResult], at |-> now, took |-> 0]
    BY <1>1 DEF HealthPing
  <2>2. [s \in {} |-> NoResult] \in Result
    <3>1. [s \in {} |-> NoResult] \in [{} -> Measurement]
      OBVIOUS
    <3> QED BY <3>1, ResultMade
  <2>3. UNCHANGED <<call, alerted, now>>
    BY <1>1 DEF HealthPing
  <2>4. HealthTypeOK'
    BY <1>0, <2>1, <2>2, <2>3, TimeType DEF HealthTypeOK
  <2>5. CacheInTime'
    BY <1>0, <2>1 DEF CacheInTime
  <2> QED BY <1>0, <2>3, <2>4, <2>5 DEF HealthInv, AnswersConsistent,
             AnswersAreRecent, Answers, ChecksInTime
<1>2. CASE Tick
  <2>1. now' = now + 1 /\ now < MaxTime /\ UNCHANGED <<cache, call, alerted>>
    BY <1>2 DEF Tick
  <2>2. HealthTypeOK'
    BY <1>0, <2>1 DEF HealthTypeOK, Time
  <2>3. ChecksInTime'
    <3> SUFFICES ASSUME NEW r \in Calls, call[r].step = "checking"
                 PROVE  /\ call[r].since <= now + 1
                        /\ \A s \in DOMAIN call[r].measured :
                              call[r].since <= call[r].measured[s].time
      BY <2>1 DEF ChecksInTime
    <3>1. call[r].since \in Nat
      BY <1>0, RequestType, TimeType
    <3> QED BY <1>0, <2>1, <3>1 DEF ChecksInTime
  <2>4. CacheInTime' /\ AnswersAreRecent'
    BY <1>0, <2>1 DEF CacheInTime, AnswersAreRecent, Answers
  <2> QED BY <2>2, <2>3, <2>4 DEF HealthInv, AnswersConsistent
<1>3. CASE HealthRestarts
  <2>1. /\ cache' = NoResult /\ now' = now /\ alerted' = [s \in Services |-> NoResult]
        /\ call' = [r \in Calls |-> NotAsked]
    BY <1>3 DEF HealthRestarts
  <2>2. HealthTypeOK'
    BY <1>0, <2>1 DEF HealthTypeOK, Asking
  <2>3. \A r \in Calls : call'[r].step \notin {"checking", "answered"}
    BY <2>1 DEF NotAsked
  <2> QED BY <2>1, <2>2, <2>3 DEF HealthInv, AnswersConsistent, AnswersAreRecent,
             Answers, ChecksInTime, CacheInTime
<1>4. CASE UNCHANGED healthVars
  <2>1. UNCHANGED <<cache, call, alerted, now>>
    BY <1>4 DEF healthVars
  <2> QED BY <1>0, <2>1 DEF HealthInv, AnswersConsistent, HealthTypeOK,
             AnswersAreRecent, Answers, ChecksInTime, CacheInTime
<1> QED BY <1>1, <1>2, <1>3, <1>4, HealthRequestStep, FinishCheckStep DEF HealthNext

\* A status in an answer of GET /health was measured less than the life of
\* the cache and the length of the check the answer comes from before, for any
\* services, requests, checks of any length that overlap, pings and restarts.
THEOREM AnswersStayRecent ==
    HealthSpec => []AnswersConsistent
<1>1. HealthInit => HealthInv
  BY InitHealthInv
<1>2. HealthInv /\ [HealthNext]_healthVars => HealthInv'
  BY HealthStep
<1>3. HealthInv => AnswersConsistent
  BY DEF HealthInv
<1> QED BY <1>1, <1>2, <1>3, PTL DEF HealthSpec

\* Two checks that overlap may each replace the cache: the alerts follow.
LEMMA AlertsStep ==
    ASSUME HealthInv, AlertsTellTheCache,
           [AlertsNext]_alertsVars
    PROVE  AlertsTellTheCache'
<1>0. HealthTypeOK
  BY DEF HealthInv, AnswersConsistent
<1> SUFFICES ASSUME NEW s \in Services, Cached(s)' \in {"degraded", "down"}
             PROVE  s \in silent' \/ alerted'[s] = Cached(s)'
  BY DEF AlertsTellTheCache
<1>1. CASE UNCHANGED alertsVars
  BY <1>1 DEF alertsVars, healthVars, Cached, AlertsTellTheCache
<1>2. CASE AlertsNext
  <2>0. /\ s \in silent' <=> cache = NoResult \/ (s \in silent /\ Cached(s)' = Cached(s))
        /\ HealthNext
    BY <1>2 DEF AlertsNext
  <2>1. CASE UNCHANGED <<cache, alerted>>
    <3>1. Cached(s)' = Cached(s)
      BY <2>1 DEF Cached
    <3> QED BY <2>0, <2>1, <3>1 DEF AlertsTellTheCache
  <2>2. ASSUME NEW r \in Calls, FinishCheck(r), cache # NoResult
        PROVE  s \in silent' \/ alerted'[s] = Cached(s)'
    <3> DEFINE result == call[r].measured
    <3>1. /\ DOMAIN result = Services
          /\ cache' = [result |-> result, at |-> now, took |-> now - call[r].since]
          /\ alerted'[s] = IF s \in Alerts(result) THEN result[s].status ELSE alerted[s]
      BY <2>2 DEF FinishCheck
    <3>2. Cached(s)' = result[s].status
      <4>1. cache'.result = result /\ s \in DOMAIN cache'.result
        BY <3>1
      <4>2. cache' # NoResult
        BY <4>1, <1>0, <2>2, HealthAssumption DEF Cached, Status
      <4> QED BY <4>1, <4>2 DEF Cached
    <3>3. CASE s \in Alerts(result)
      BY <3>1, <3>2, <3>3
    <3>4. CASE s \notin Alerts(result)
      <4>1. result[s].status = Previous(s)
        BY <2>2, <3>1, <3>2, <3>4 DEF Alerts
      <4>2. Cached(s) = Previous(s)
        BY <2>2 DEF Cached, Previous
      <4> QED BY <2>0, <3>1, <3>2, <3>4, <4>1, <4>2 DEF AlertsTellTheCache
    <3> QED BY <3>3, <3>4
  <2>3. CASE cache = NoResult
    BY <2>0, <2>3
  <2>4. CASE HealthPing /\ cache # NoResult
    BY <2>1, <2>4 DEF HealthPing
  <2>5. CASE HealthRestarts
    <3>1. Cached(s)' = NoResult
      BY <2>5 DEF HealthRestarts, Cached
    <3> QED BY <3>1, HealthAssumption DEF Status
  <2>6. ASSUME NEW r \in Calls,
               \/ AnswerFromCache(r) \/ StartCheck(r) \/ Leave(r)
               \/ \E t \in Services, status \in {"ok", "up", "degraded", "down"} :
                     Measure(r, t, status)
        PROVE  UNCHANGED <<cache, alerted>>
    BY <2>6 DEF AnswerFromCache, StartCheck, Leave, Measure
  <2>7. Tick => UNCHANGED <<cache, alerted>>
    BY DEF Tick
  <2> QED BY <2>0, <2>1, <2>2, <2>3, <2>4, <2>5, <2>6, <2>7 DEF HealthNext
<1> QED BY <1>1, <1>2

\* Whoever listens to the alerts of the room admin-health knows which services
\* the cached result has as degraded or down, but for the first result after a
\* start.
THEOREM AlertsTell ==
    AlertsSpec => []AlertsTellTheCache
<1>1. AlertsInit => HealthInv /\ AlertsTellTheCache
  <2>1. HealthInit => AlertsTellTheCache
    BY HealthAssumption DEF HealthInit, AlertsTellTheCache, Cached, Status
  <2> QED BY <2>1, InitHealthInv DEF AlertsInit
<1>2. HealthInv /\ AlertsTellTheCache /\ [AlertsNext]_alertsVars
      => HealthInv' /\ AlertsTellTheCache'
  <2>1. [AlertsNext]_alertsVars => [HealthNext]_healthVars
    BY DEF AlertsNext, alertsVars
  <2> QED BY <2>1, HealthStep, AlertsStep
<1> QED BY <1>1, <1>2, PTL DEF AlertsSpec

-----------------------------------------------------------------------------
(* The rules of an organization and the two caches made of them            *)

LEMMA RequestKinds ==
    ASSUME RulesTypeOK, NEW r \in Requests
    PROVE  /\ request[r].step = "snapshot" => request[r] \in Changing
           /\ request[r].step \in {"check", "save"} => request[r] \in Creating \union Changing
           /\ request[r].step = "audit" => request[r] \in Auditing
           /\ request[r].step = "simulate" => request[r] \in Simulating
           /\ request[r].step = "found" => request[r] \in Filling
           /\ request[r].step = "saveAll" => request[r] \in Importing
<1> DEFINE at == request[r]
<1>1. at \in {Idle, Ended} \union Serving
  BY DEF RulesTypeOK
<1>2. at \in {Idle, Ended} => at.step \in {"idle", "ended"}
  BY DEF Idle, Ended
<1>3. at = [step |-> "pool"] => at.step = "pool"
  OBVIOUS
<1>4. at \in Creating => at.step \in {"check", "save"}
  BY DEF Creating
<1>5. at \in Changing => at.step \in {"check", "snapshot", "save"}
  BY DEF Changing
<1>6. at \in Auditing => at.step = "audit"
  BY DEF Auditing
<1>7. at \in Simulating => at.step = "simulate"
  BY DEF Simulating
<1>8. at \in Filling => at.step = "found"
  BY DEF Filling
<1>9. at \in Importing => at.step = "saveAll"
  BY DEF Importing
<1> HIDE DEF at
<1> QED BY <1>1, <1>2, <1>3, <1>4, <1>5, <1>6, <1>7, <1>8, <1>9 DEF Serving, at

\* A request that moves leaves the others where they are.
LEMMA OneMoves ==
    ASSUME RulesTypeOK, NEW r \in Requests, NEW to, Goes(r, to)
    PROVE  /\ request'[r] = to
           /\ \A q \in Requests : q # r => request'[q] = request[q]
           /\ to \in {Idle, Ended} \union Serving =>
                 request' \in [Requests -> {Idle, Ended} \union Serving]
BY DEF RulesTypeOK, Goes

LEMMA EndedIsTyped == Ended \in {Idle, Ended} \union Serving
OBVIOUS

\* The items an import builds are rows, and its saved bundle too.
LEMMA BundleRows ==
    ASSUME NEW bundle \in Bundles
    PROVE  bundle \in Seq(Row)
<1> DEFINE Draft == [scope : Scopes, instruction : Instructions, active : BOOLEAN, version : {1}]
<1>1. PICK m \in 0..MaxBundle : bundle \in [1..m -> Draft]
  BY DEF Bundles, SeqOf
<1>2. Draft \subseteq Row
  BY DEF Row
<1>3. m \in Nat
  BY RBAssumption
<1> HIDE DEF Draft
<1>4. bundle \in [1..m -> Row]
  BY <1>1, <1>2
<1> QED BY <1>3, <1>4

LEMMA AfterPoolTypes ==
    ASSUME RulesTypeOK, NEW r \in Requests, NEW pool, AfterPool(r, pool)
    PROVE  request' \in [Requests -> {Idle, Ended} \union Serving]
<1>1. CASE Goes(r, Ended)
  BY <1>1, OneMoves, EndedIsTyped
<1>2. ASSUME NEW bundle \in Bundles, Goes(r, [step |-> "saveAll", bundle |-> bundle])
      PROVE  request' \in [Requests -> {Idle, Ended} \union Serving]
  <2>1. [step |-> "saveAll", bundle |-> bundle] \in Importing
    BY BundleRows DEF Importing
  <2> QED BY <1>2, <2>1, OneMoves DEF Serving
<1> QED BY <1>1, <1>2 DEF AfterPool

LEMMA TypeStep ==
    ASSUME RulesTypeOK, [RulesNext]_rulesVars
    PROVE  RulesTypeOK'
<1>1. ASSUME NEW r \in Requests, Create(r) PROVE RulesTypeOK'
  <2>1. PICK scope \in Scopes, instruction \in Instructions :
           Goes(r, [step |-> "check", rule |-> NoRule, copy |-> NoRule,
                    next |-> [scope |-> scope, instruction |-> instruction,
                              active |-> TRUE, version |-> 1]])
    BY <1>1 DEF Create, Begins
  <2>2. [step |-> "check", rule |-> NoRule, copy |-> NoRule,
         next |-> [scope |-> scope, instruction |-> instruction,
                   active |-> TRUE, version |-> 1]] \in Creating
    BY DEF Creating, Row
  <2> QED BY <1>1, <2>1, <2>2, OneMoves DEF Create, Tables, Caches, RulesTypeOK, Serving
<1>2. ASSUME NEW r \in Requests, Load(r) PROVE RulesTypeOK'
  <2>1. PICK id \in Existing :
           \/ LoadForUpdate(r, id) \/ LoadForActivate(r, id)
           \/ LoadForDeactivate(r, id) \/ LoadForDelete(r, id)
    BY <1>2 DEF Load
  <2>2. id \in Rules /\ rules[id] \in Row
    BY DEF Existing, RulesTypeOK, Table
  <2>3. ASSUME NEW first \in {"check", "snapshot"}, NEW instruction \in Instructions,
               NEW active \in BOOLEAN, Changes(r, id, first, instruction, active)
        PROVE  RulesTypeOK'
    <3> DEFINE next == [rules[id] EXCEPT !.instruction = instruction, !.active = active,
                                         !.version = @ + 1]
    <3>1. next \in Row
      <4>1. rules[id].version + 1 \in Nat \ {0}
        BY <2>2 DEF Row
      <4> QED BY <2>2, <4>1 DEF Row
    <3>2. Goes(r, [step |-> first, rule |-> id, copy |-> rules[id], next |-> next])
      BY <2>3 DEF Changes, Begins
    <3> HIDE DEF next
    <3>3. [step |-> first, rule |-> id, copy |-> rules[id], next |-> next] \in Changing
      BY <3>1, <2>2 DEF Changing
    <3> QED BY <2>3, <3>2, <3>3, OneMoves DEF Changes, Tables, Caches, RulesTypeOK, Serving
  <2>4. CASE LoadForUpdate(r, id)
    BY <2>4, <2>3 DEF LoadForUpdate
  <2>5. CASE LoadForActivate(r, id)
    BY <2>5, <2>3, <2>2 DEF LoadForActivate, Row
  <2>6. CASE LoadForDeactivate(r, id)
    BY <2>6, <2>3, <2>2 DEF LoadForDeactivate, Row
  <2>7. CASE LoadForDelete(r, id)
    <3>1. [step |-> "audit", rule |-> id] \in Auditing
      BY <2>2 DEF Auditing
    <3> QED BY <2>7, <3>1, OneMoves DEF LoadForDelete, Begins, Tables, Caches, RulesTypeOK, Serving
  <2> QED BY <2>1, <2>4, <2>5, <2>6, <2>7
<1>3. ASSUME NEW r \in Requests, Check(r) PROVE RulesTypeOK'
  <2> DEFINE at == request[r]
             to == IF \E row \in Rivals(at.next, at.rule) : Contradicts(at.next, row)
                     THEN Ended
                     ELSE [at EXCEPT !.step = IF at.rule = NoRule THEN "save" ELSE "snapshot"]
  <2>1. at \in Creating \union Changing /\ Goes(r, to)
    BY <1>3, RequestKinds DEF Check
  <2>2. [at EXCEPT !.step = IF at.rule = NoRule THEN "save" ELSE "snapshot"]
        \in Creating \union Changing
    BY <2>1, RBAssumption DEF Creating, Changing
  <2>3. to \in {Idle, Ended} \union Serving
    BY <2>2 DEF Serving
  <2> HIDE DEF to
  <2> QED BY <1>3, <2>1, <2>3, OneMoves DEF Check, Tables, Caches, RulesTypeOK
<1>4. ASSUME NEW r \in Requests, Snapshot(r) PROVE RulesTypeOK'
  <2>1. request[r] \in Changing
    BY <1>4, RequestKinds DEF Snapshot
  <2>2. Recorded(request[r].copy) \in Fact /\ request[r].rule \in Rules
    BY <2>1 DEF Changing, Recorded, Row, Fact
  <2>3. history' \in [Rules -> SUBSET Fact]
    BY <1>4, <2>2 DEF Snapshot, RulesTypeOK
  <2>4. [request[r] EXCEPT !.step = "save"] \in Changing
    BY <2>1 DEF Changing
  <2> QED BY <1>4, <2>3, <2>4, OneMoves DEF Snapshot, Caches, RulesTypeOK, Serving
<1>5. ASSUME NEW r \in Requests, Save(r) PROVE RulesTypeOK'
  <2>1. request[r].next \in Row
    BY <1>5, RequestKinds DEF Save, Creating, Changing
  <2>2. PICK id : /\ id \in Rules \/ id = request[r].rule
                  /\ rules' = [rules EXCEPT ![id] = request[r].next]
                  /\ Goes(r, [step |-> "audit", rule |-> id])
    BY <1>5 DEF Save
  <2>3. id \in Rules \union {NoRule}
    BY <1>5, <2>2, RequestKinds DEF Save, Creating, Changing
  <2>4. rules' \in Table
    BY <2>1, <2>2 DEF RulesTypeOK, Table
  <2>5. [step |-> "audit", rule |-> id] \in Auditing
    BY <2>3 DEF Auditing
  <2> QED BY <1>5, <2>2, <2>4, <2>5, OneMoves DEF Save, Caches, RulesTypeOK, Serving
<1>6. ASSUME NEW r \in Requests, Audit(r) PROVE RulesTypeOK'
  <2>1. simulationCache' \in Table /\ activeRuleCache' = NoCache
    BY <1>6 DEF Audit, RulesTypeOK, Table
  <2> QED BY <1>6, <2>1, OneMoves, EndedIsTyped DEF Audit, Tables, RulesTypeOK
<1>7. ASSUME NEW r \in Requests, NeedActiveRules(r) PROVE RulesTypeOK'
  BY <1>7, OneMoves DEF NeedActiveRules, Begins, Tables, Caches, RulesTypeOK, Serving
<1>8. ASSUME NEW r \in Requests, CacheHit(r) PROVE RulesTypeOK'
  BY <1>8, AfterPoolTypes DEF CacheHit, Tables, Caches, RulesTypeOK
<1>9. ASSUME NEW r \in Requests, QueryActive(r) PROVE RulesTypeOK'
  <2>1. ActiveRules \in Table
    BY DEF ActiveRules, RulesTypeOK, Table
  <2>2. [step |-> "found", found |-> ActiveRules] \in Filling
    BY <2>1 DEF Filling
  <2> QED BY <1>9, <2>2, OneMoves DEF QueryActive, Tables, Caches, RulesTypeOK, Serving
<1>10. ASSUME NEW r \in Requests, FillCache(r) PROVE RulesTypeOK'
  <2>1. request[r].found \in Table
    BY <1>10, RequestKinds DEF FillCache, Filling
  <2> QED BY <1>10, <2>1, AfterPoolTypes DEF FillCache, Tables, RulesTypeOK
<1>11. ASSUME NEW r \in Requests, SaveAll(r) PROVE RulesTypeOK'
  <2> DEFINE bundle == request[r].bundle
  <2>1. bundle \in Seq(Row)
    BY <1>11, RequestKinds DEF SaveAll, Importing
  <2>2. PICK ids \in Injection(DOMAIN bundle, Rules \ Existing) :
           rules' = [id \in Rules |->
                       IF \E i \in DOMAIN bundle : ids[i] = id
                       THEN bundle[CHOOSE i \in DOMAIN bundle : ids[i] = id]
                       ELSE rules[id]]
    BY <1>11 DEF SaveAll
  <2> HIDE DEF bundle
  <2>3. \A i \in DOMAIN bundle : bundle[i] \in Row
    BY <2>1
  <2>4. ASSUME NEW id \in Rules, \E i \in DOMAIN bundle : ids[i] = id
        PROVE  bundle[CHOOSE i \in DOMAIN bundle : ids[i] = id] \in Row
    BY <2>3, <2>4
  <2>5. rules' \in Table
    BY <2>2, <2>4 DEF RulesTypeOK, Table
  <2>6. [step |-> "audit", rule |-> NoRule] \in Auditing
    BY DEF Auditing
  <2> QED BY <1>11, <2>5, <2>6, OneMoves DEF SaveAll, Caches, RulesTypeOK, Serving
<1>12. ASSUME NEW r \in Requests, LoadForTest(r) PROVE RulesTypeOK'
  <2>1. PICK id \in Existing :
           Goes(r, [step |-> "simulate", rule |-> id, with |-> rules[id]])
    BY <1>12 DEF LoadForTest, Begins
  <2>2. [step |-> "simulate", rule |-> id, with |-> rules[id]] \in Simulating
    BY DEF Simulating, Existing, RulesTypeOK, Table
  <2> QED BY <1>12, <2>1, <2>2, OneMoves DEF LoadForTest, Tables, Caches, RulesTypeOK, Serving
<1>13. ASSUME NEW r \in Requests, Simulated(r) PROVE RulesTypeOK'
  <2>1. simulationCache' \in Table
    BY <1>13, RequestKinds DEF Simulated, Simulating, RulesTypeOK, Table
  <2> QED BY <1>13, <2>1, OneMoves, EndedIsTyped DEF Simulated, Tables, RulesTypeOK
<1>14. ASSUME NEW r \in Requests, Fails(r) PROVE RulesTypeOK'
  <2>1. faults' \in 0..MaxFaults
    BY <1>14, RBAssumption DEF Fails, RulesTypeOK
  <2> QED BY <1>14, <2>1, OneMoves, EndedIsTyped DEF Fails, Tables, Caches, RulesTypeOK
<1>15. CASE Expires
  <2>1. activeRuleCache' \in Table \union {NoCache} /\ simulationCache' \in Table
    BY <1>15 DEF Expires, RulesTypeOK, Table
  <2> QED BY <1>15, <2>1 DEF Expires, Tables, RulesTypeOK
<1>16. CASE ServiceDies
  <2>1. simulationCache' \in Table /\ activeRuleCache' = NoCache
    BY <1>16 DEF ServiceDies, Table
  <2>2. request' \in [Requests -> {Idle, Ended} \union Serving]
    BY <1>16, EndedIsTyped DEF ServiceDies, RulesTypeOK
  <2> QED BY <1>16, <2>1, <2>2 DEF ServiceDies, Tables, RulesTypeOK
<1>17. CASE UNCHANGED rulesVars
  BY <1>17 DEF rulesVars, RulesTypeOK
<1>18. \A r \in Requests : Serve(r) => RulesTypeOK'
  BY <1>1, <1>2, <1>3, <1>4, <1>5, <1>6, <1>7, <1>8, <1>9, <1>10, <1>11, <1>12, <1>13 DEF Serve
<1> QED BY <1>14, <1>15, <1>16, <1>17, <1>18 DEF RulesNext

LEMMA TypeInit == ASSUME RulesInit PROVE RulesTypeOK
<1>1. rules \in Table
  <2> DEFINE Draft == [scope : Scopes, instruction : Instructions, active : {TRUE}, version : {1}]
  <2>1. Draft \subseteq Row
    <3>1. {TRUE} \subseteq BOOLEAN /\ {1} \subseteq Nat \ {0}
      OBVIOUS
    <3>2. ASSUME NEW S, S \subseteq BOOLEAN, NEW V, V \subseteq Nat \ {0}
          PROVE  [scope : Scopes, instruction : Instructions, active : S, version : V] \subseteq Row
      BY <3>2 DEF Row
    <3> QED BY <3>1, <3>2
  <2>2. rules \in [Rules -> Draft \union {NoRule}]
    BY DEF RulesInit
  <2> HIDE DEF Draft
  <2> QED BY <2>1, <2>2 DEF Table
<1>2. simulationCache \in Table /\ faults \in 0..MaxFaults
  BY RBAssumption DEF RulesInit, Table
<1> QED BY <1>1, <1>2 DEF RulesInit, RulesTypeOK

\* A step of a request moves that request only.
LEMMA OthersStay ==
    ASSUME RulesTypeOK, NEW r \in Requests, Serve(r) \/ Fails(r)
    PROVE  \A q \in Requests : q # r => request'[q] = request[q]
<1>1. ASSUME NEW to, Goes(r, to) PROVE \A q \in Requests : q # r => request'[q] = request[q]
  BY <1>1, OneMoves
<1>2. \E to : Goes(r, to)
  <2>1. Create(r) \/ NeedActiveRules(r) \/ LoadForTest(r) => \E to : Goes(r, to)
    BY DEF Create, NeedActiveRules, LoadForTest, Begins
  <2>2. Load(r) => \E to : Goes(r, to)
    BY DEF Load, LoadForUpdate, LoadForActivate, LoadForDeactivate, LoadForDelete, Changes, Begins
  <2>3. Check(r) \/ Snapshot(r) \/ Save(r) \/ Audit(r) => \E to : Goes(r, to)
    BY DEF Check, Snapshot, Save, Audit
  <2>4. CacheHit(r) \/ FillCache(r) => \E to : Goes(r, to)
    BY DEF CacheHit, FillCache, AfterPool
  <2>5. QueryActive(r) \/ SaveAll(r) \/ Simulated(r) \/ Fails(r) => \E to : Goes(r, to)
    BY DEF QueryActive, SaveAll, Simulated, Fails
  <2> QED BY <2>1, <2>2, <2>3, <2>4, <2>5 DEF Serve
<1> QED BY <1>1, <1>2

-----------------------------------------------------------------------------
(* What the requests do to the tables and the caches.                      *)

\* Only a request that then has its invalidation before it changes a rule, and
\* of the rules that exist only the one it is about.
LEMMA WritesArePending ==
    ASSUME RulesTypeOK, RulesNext
    PROVE  rules' = rules
           \/ \E r \in Pending' : \A id \in Rules :
                 rules'[id] # rules[id] => rules[id] = NoRule \/ request'[r].rule = id
<1> DEFINE Written == \E r \in Pending' : \A id \in Rules :
                         rules'[id] # rules[id] => rules[id] = NoRule \/ request'[r].rule = id
<1>1. ASSUME NEW r \in Requests, Save(r) PROVE Written
  <2>1. PICK id : /\ rules' = [rules EXCEPT ![id] = request[r].next]
                  /\ Goes(r, [step |-> "audit", rule |-> id])
    BY <1>1 DEF Save
  <2>2. request'[r] = [step |-> "audit", rule |-> id]
    BY <2>1, OneMoves
  <2>3. r \in Pending' /\ request'[r].rule = id
    BY <2>2 DEF Pending
  <2>4. \A i \in Rules : rules'[i] # rules[i] => i = id
    BY <2>1 DEF RulesTypeOK, Table
  <2> QED BY <2>3, <2>4
<1>2. ASSUME NEW r \in Requests, SaveAll(r) PROVE Written
  <2>1. r \in Pending'
    <3>1. request'[r] = [step |-> "audit", rule |-> NoRule]
      BY <1>2, OneMoves DEF SaveAll
    <3> QED BY <3>1 DEF Pending
  <2> DEFINE bundle == request[r].bundle
  <2>2. PICK ids \in Injection(DOMAIN bundle, Rules \ Existing) :
           rules' = [id \in Rules |->
                       IF \E i \in DOMAIN bundle : ids[i] = id
                       THEN bundle[CHOOSE i \in DOMAIN bundle : ids[i] = id]
                       ELSE rules[id]]
    BY <1>2 DEF SaveAll
  <2> HIDE DEF bundle
  <2>3. \A i \in DOMAIN bundle : ids[i] \in Rules \ Existing
    BY <2>2 DEF Injection
  <2>4. ASSUME NEW id \in Rules, rules'[id] # rules[id] PROVE rules[id] = NoRule
    <3>1. PICK i \in DOMAIN bundle : ids[i] = id
      BY <2>2, <2>4
    <3> QED BY <3>1, <2>3 DEF Existing
  <2> QED BY <2>1, <2>4
<1>3. ASSUME NEW r \in Requests, Serve(r), ~Save(r), ~SaveAll(r) PROVE rules' = rules
  <2>1. Load(r) => rules' = rules
    BY DEF Load, LoadForUpdate, LoadForActivate, LoadForDeactivate, LoadForDelete, Changes, Tables
  <2>2. Create(r) \/ Check(r) \/ Snapshot(r) \/ Audit(r) \/ NeedActiveRules(r) => rules' = rules
    BY DEF Create, Check, Snapshot, Audit, NeedActiveRules, Tables
  <2>3. CacheHit(r) \/ QueryActive(r) \/ FillCache(r) \/ LoadForTest(r) \/ Simulated(r)
        => rules' = rules
    BY DEF CacheHit, QueryActive, FillCache, LoadForTest, Simulated, Tables
  <2> QED BY <1>3, <2>1, <2>2, <2>3 DEF Serve
<1>4. (\E r \in Requests : Fails(r)) \/ Expires \/ ServiceDies => rules' = rules
  BY DEF Fails, Expires, ServiceDies, Tables
<1> HIDE DEF Written
<1>5. Written \/ rules' = rules
  BY <1>1, <1>2, <1>3, <1>4 DEF RulesNext
<1> QED BY <1>5 DEF Written

\* A request that has stored a change leaves only by invalidating, or with a
\* failure, or with the process and its caches.
LEMMA PendingInvalidates ==
    ASSUME RulesTypeOK, RulesNext, NEW r \in Pending
    PROVE  \/ r \in Pending' /\ request'[r] = request[r]
           \/ r \in Cut
           \/ /\ activeRuleCache' = NoCache
              /\ \A id \in Rules : request[r].rule = id => simulationCache'[id] = NoRule
<1> DEFINE Invalidated == activeRuleCache' = NoCache
                          /\ \A id \in Rules : request[r].rule = id => simulationCache'[id] = NoRule
<1>1. r \in Requests /\ request[r].step = "audit"
  BY DEF Pending
<1>2. request[r] # Idle /\ request[r] # Ended
  BY <1>1 DEF Idle, Ended
<1>3. request'[r] = request[r] => r \in Pending'
  BY <1>1 DEF Pending
<1>4. Audit(r) => Invalidated
  BY DEF Audit
<1>5. Fails(r) => r \in Cut \/ request'[r] = request[r]
  <2>1. Fails(r) => faults' > faults
    BY DEF Fails, RulesTypeOK
  <2> QED BY <2>1 DEF Cut
<1>6. ServiceDies => Invalidated
  BY DEF ServiceDies
<1>7. Expires => request'[r] = request[r]
  BY DEF Expires
<1>8. ASSUME NEW q \in Requests, Serve(q) \/ Fails(q), q # r PROVE request'[r] = request[r]
  BY <1>1, <1>8, OthersStay
<1>9. Serve(r) => Audit(r)
  <2>1. ~Create(r) /\ ~NeedActiveRules(r) /\ ~LoadForTest(r)
    BY <1>2 DEF Create, NeedActiveRules, LoadForTest, Begins
  <2>2. ~Load(r)
    BY <1>2 DEF Load, LoadForUpdate, LoadForActivate, LoadForDeactivate, LoadForDelete,
                Changes, Begins
  <2>3. ~Check(r) /\ ~Snapshot(r) /\ ~Save(r) /\ ~CacheHit(r) /\ ~QueryActive(r)
        /\ ~FillCache(r) /\ ~SaveAll(r) /\ ~Simulated(r)
    BY <1>1 DEF Check, Snapshot, Save, CacheHit, QueryActive, FillCache, SaveAll, Simulated
  <2> QED BY <2>1, <2>2, <2>3 DEF Serve
<1> HIDE DEF Invalidated
<1>10. (r \in Pending' /\ request'[r] = request[r]) \/ r \in Cut \/ Invalidated
  BY <1>1, <1>3, <1>4, <1>5, <1>6, <1>7, <1>8, <1>9 DEF RulesNext
<1> QED BY <1>10 DEF Invalidated

LEMMA ExcusesCover ==
    ASSUME RulesTypeOK, StaleHasAReason, RulesHistoryNext
    PROVE  StaleHasAReason'
<1>1. RulesNext
  BY DEF RulesHistoryNext
<1>2. excused' = (activeRuleCache' # NoCache
                  /\ (excused \/ (StaleCache' /\ activeRuleCache' # activeRuleCache) \/ Cut # {}))
  BY DEF RulesHistoryNext
<1>3. \A id \in Rules : id \in excusedFor' <=>
         /\ simulationCache'[id] # NoRule
         /\ \/ id \in excusedFor
            \/ StaleSimulation(id)' /\ simulationCache'[id] # simulationCache[id]
            \/ \E r \in Cut : request[r].rule = id
  BY DEF RulesHistoryNext
<1>4. ASSUME StaleCache' PROVE Pending' # {} \/ excused'
  <2>1. activeRuleCache' # NoCache /\ activeRuleCache' # ActiveRules'
    BY <1>4 DEF StaleCache
  <2>2. CASE activeRuleCache' # activeRuleCache
    BY <1>2, <1>4, <2>1, <2>2, Zenon
  <2>3. CASE activeRuleCache' = activeRuleCache /\ StaleCache /\ excused
    BY <1>2, <2>1, <2>3, Zenon
  <2>4. CASE activeRuleCache' = activeRuleCache /\ StaleCache /\ Pending # {}
    <3>1. PICK r \in Pending : TRUE
      BY <2>4
    <3>2. r \in Pending' \/ r \in Cut
      BY <1>1, <2>1, <3>1, PendingInvalidates
    <3>3. r \in Cut => excused'
      BY <1>2, <2>1, Zenon
    <3> QED BY <3>2, <3>3
  <2>5. CASE activeRuleCache' = activeRuleCache /\ ~StaleCache
    <3>1. ActiveRules' # ActiveRules
      BY <2>1, <2>5 DEF StaleCache
    <3>2. rules' # rules
      BY <3>1 DEF ActiveRules, ActiveIds, Existing
    <3> QED BY <1>1, <3>2, WritesArePending
  <2> QED BY <2>2, <2>3, <2>4, <2>5 DEF StaleHasAReason
<1>5. ASSUME NEW id \in Rules, StaleSimulation(id)'
      PROVE  id \in excusedFor' \/ \E r \in Pending' : request'[r].rule = id
  <2>1. simulationCache'[id] # NoRule /\ simulationCache'[id] # rules'[id]
    BY <1>5 DEF StaleSimulation
  <2>2. CASE simulationCache'[id] # simulationCache[id]
    BY <1>3, <1>5, <2>1, <2>2
  <2>3. CASE simulationCache'[id] = simulationCache[id] /\ StaleSimulation(id) /\ id \in excusedFor
    BY <1>3, <2>1, <2>3
  <2>4. ASSUME NEW r \in Pending, request[r].rule = id
        PROVE  id \in excusedFor' \/ \E q \in Pending' : request'[q].rule = id
    BY <1>1, <1>3, <2>1, <2>4, PendingInvalidates
  <2>5. CASE simulationCache'[id] = simulationCache[id] /\ ~StaleSimulation(id)
    <3>1. rules[id] # NoRule /\ rules'[id] # rules[id]
      BY <2>1, <2>5 DEF StaleSimulation
    <3> QED BY <1>1, <3>1, WritesArePending
  <2> QED BY <2>2, <2>3, <2>4, <2>5 DEF StaleHasAReason
<1> QED BY <1>4, <1>5 DEF StaleHasAReason

-----------------------------------------------------------------------------
(* What holds as long as requests come one at a time.                      *)

LEMMA Alones ==
    ASSUME RulesHistoryNext, ~overlapped', overlapped \in BOOLEAN
    PROVE  ~overlapped /\ Alone'
<1>1. overlapped' = (overlapped \/ \E r, s \in Requests : r # s /\ {r, s} \subseteq InFlight')
  BY DEF RulesHistoryNext
<1>2. ~overlapped /\ ~\E r, s \in Requests : r # s /\ {r, s} \subseteq InFlight'
  BY <1>1, Zenon
<1>3. InFlight' \subseteq Requests
  BY DEF InFlight
<1> QED BY <1>2, <1>3 DEF Alone

\* A request that only starts changes nothing; so when another one is on its
\* way alone, nothing changes but what that one does.
LEMMA StartsChangeNothing ==
    ASSUME NEW r \in Requests, Serve(r), r \notin InFlight
    PROVE  UNCHANGED <<rules, history, activeRuleCache, simulationCache, faults>>
<1>1. request[r] \in {Idle, Ended}
  BY DEF InFlight
<1>2. request[r].step \in {"idle", "ended"}
  BY <1>1 DEF Idle, Ended
<1>3. ~Check(r) /\ ~Snapshot(r) /\ ~Save(r) /\ ~Audit(r) /\ ~CacheHit(r) /\ ~QueryActive(r)
      /\ ~FillCache(r) /\ ~SaveAll(r) /\ ~Simulated(r)
  BY <1>2 DEF Check, Snapshot, Save, Audit, CacheHit, QueryActive, FillCache, SaveAll, Simulated
<1>4. Create(r) \/ NeedActiveRules(r) \/ LoadForTest(r)
      => UNCHANGED <<rules, history, activeRuleCache, simulationCache, faults>>
  BY DEF Create, NeedActiveRules, LoadForTest, Tables, Caches
<1>5. Load(r) => UNCHANGED <<rules, history, activeRuleCache, simulationCache, faults>>
  BY DEF Load, LoadForUpdate, LoadForActivate, LoadForDeactivate, LoadForDelete, Changes,
         Tables, Caches
<1> QED BY <1>3, <1>4, <1>5 DEF Serve

\* What a request that loads a rule comes to hold.
LEMMA Loaded ==
    ASSUME RulesTypeOK, NEW r \in Requests, Load(r), request'[r].step # "audit"
    PROVE  \E id \in Existing, first \in {"check", "snapshot"}, next \in Row :
              /\ request'[r] = [step |-> first, rule |-> id, copy |-> rules[id], next |-> next]
              /\ first = "snapshot" => ~next.active
<1>1. PICK id \in Existing :
         \/ LoadForUpdate(r, id) \/ LoadForActivate(r, id)
         \/ LoadForDeactivate(r, id) \/ LoadForDelete(r, id)
  BY DEF Load
<1>2. rules[id] \in Row
  BY DEF Existing, RulesTypeOK, Table
<1>3. ASSUME NEW first \in {"check", "snapshot"}, NEW instruction \in Instructions,
             NEW active \in BOOLEAN, first = "snapshot" => ~active,
             Changes(r, id, first, instruction, active)
      PROVE  \E next \in Row :
                /\ request'[r] = [step |-> first, rule |-> id, copy |-> rules[id], next |-> next]
                /\ first = "snapshot" => ~next.active
  <2> DEFINE next == [rules[id] EXCEPT !.instruction = instruction, !.active = active,
                                       !.version = @ + 1]
  <2>1. next \in Row
    <3>1. rules[id].version + 1 \in Nat \ {0}
      BY <1>2 DEF Row
    <3> QED BY <1>2, <3>1 DEF Row
  <2>2. next.active = active
    BY <1>2 DEF Row
  <2>3. Goes(r, [step |-> first, rule |-> id, copy |-> rules[id], next |-> next])
    BY <1>3 DEF Changes, Begins
  <2> HIDE DEF next
  <2>4. request'[r] = [step |-> first, rule |-> id, copy |-> rules[id], next |-> next]
    BY <2>3, OneMoves
  <2> QED BY <2>1, <2>2, <2>4, <1>3
<1>4. LoadForUpdate(r, id) =>
         \E first \in {"check", "snapshot"}, instruction \in Instructions, active \in BOOLEAN :
            (first = "snapshot" => ~active) /\ Changes(r, id, first, instruction, active)
  BY DEF LoadForUpdate
<1>5. LoadForActivate(r, id) =>
         \E first \in {"check", "snapshot"}, instruction \in Instructions, active \in BOOLEAN :
            (first = "snapshot" => ~active) /\ Changes(r, id, first, instruction, active)
  BY <1>2 DEF LoadForActivate, Row
<1>6. LoadForDeactivate(r, id) =>
         \E first \in {"check", "snapshot"}, instruction \in Instructions, active \in BOOLEAN :
            (first = "snapshot" => ~active) /\ Changes(r, id, first, instruction, active)
  BY <1>2 DEF LoadForDeactivate, Row
<1>7. ~LoadForDelete(r, id)
  <2>1. ASSUME LoadForDelete(r, id) PROVE FALSE
    <3>1. request'[r] = [step |-> "audit", rule |-> id]
      BY <2>1, OneMoves DEF LoadForDelete, Begins
    <3> QED BY <3>1
  <2> QED BY <2>1
<1> QED BY <1>1, <1>3, <1>4, <1>5, <1>6, <1>7

\* How a request gets to a step, by step.
LEMMA Arrivals ==
    ASSUME RulesTypeOK, NEW r \in Requests, Serve(r)
    PROVE  /\ Create(r) => request'[r].rule = NoRule
           /\ request'[r].step = "check" => Load(r) \/ Create(r)
           /\ request'[r].step = "snapshot" => Load(r) \/ Check(r)
           /\ request'[r].step = "save" => Check(r) \/ Snapshot(r)
           /\ request'[r].step = "found" => QueryActive(r)
           /\ request'[r].step = "saveAll" => CacheHit(r) \/ FillCache(r)
<1> DEFINE to == request'[r]
<1>1. Create(r) => to.step = "check" /\ to.rule = NoRule
  <2>1. ASSUME NEW scope, NEW instruction,
               Begins(r, [step |-> "check", rule |-> NoRule, copy |-> NoRule,
                          next |-> [scope |-> scope, instruction |-> instruction,
                                    active |-> TRUE, version |-> 1]])
        PROVE  to.step = "check" /\ to.rule = NoRule
    <3>1. to = [step |-> "check", rule |-> NoRule, copy |-> NoRule,
                next |-> [scope |-> scope, instruction |-> instruction,
                          active |-> TRUE, version |-> 1]]
      BY <2>1, OneMoves DEF Begins
    <3> QED BY <3>1
  <2> QED BY <2>1 DEF Create
<1>2. Load(r) => to.step \in {"audit", "check", "snapshot"}
  <2>1. ASSUME Load(r), to.step # "audit" PROVE to.step \in {"check", "snapshot"}
    <3>1. PICK id \in Existing, first \in {"check", "snapshot"}, next \in Row :
             to = [step |-> first, rule |-> id, copy |-> rules[id], next |-> next]
      BY <2>1, Loaded
    <3> QED BY <3>1
  <2> QED BY <2>1
<1>3. Check(r) => to = Ended \/ to.step \in {"save", "snapshot"}
  <2>1. ASSUME Check(r) PROVE to = Ended \/ to.step \in {"save", "snapshot"}
    <3>1. request[r] \in Creating \union Changing
      BY <2>1, RequestKinds DEF Check
    <3>2. to = Ended
          \/ to = [request[r] EXCEPT !.step = IF request[r].rule = NoRule THEN "save" ELSE "snapshot"]
      BY <2>1, OneMoves DEF Check
    <3> QED BY <3>1, <3>2 DEF Creating, Changing
  <2> QED BY <2>1
<1>4. Snapshot(r) => to.step = "save"
  <2>1. ASSUME Snapshot(r) PROVE to.step = "save"
    <3>1. request[r] \in Changing
      BY <2>1, RequestKinds DEF Snapshot
    <3>2. to = [request[r] EXCEPT !.step = "save"]
      BY <2>1, OneMoves DEF Snapshot
    <3> QED BY <3>1, <3>2 DEF Changing
  <2> QED BY <2>1
<1>5. Save(r) => to.step = "audit"
  <2>1. ASSUME NEW id, Goes(r, [step |-> "audit", rule |-> id]) PROVE to.step = "audit"
    <3>1. to = [step |-> "audit", rule |-> id]
      BY <2>1, OneMoves
    <3> QED BY <3>1
  <2> QED BY <2>1 DEF Save
<1>6. SaveAll(r) => to.step = "audit"
  <2>1. SaveAll(r) => to = [step |-> "audit", rule |-> NoRule]
    BY OneMoves DEF SaveAll
  <2> QED BY <2>1
<1>7. Audit(r) \/ Simulated(r) => to.step = "ended"
  <2>1. Audit(r) \/ Simulated(r) => to = Ended
    BY OneMoves DEF Audit, Simulated
  <2> QED BY <2>1 DEF Ended
<1>8. NeedActiveRules(r) => to.step = "pool"
  <2>1. NeedActiveRules(r) => to = [step |-> "pool"]
    BY OneMoves DEF NeedActiveRules, Begins
  <2> QED BY <2>1
<1>9. QueryActive(r) => to.step = "found"
  <2>1. QueryActive(r) => to = [step |-> "found", found |-> ActiveRules]
    BY OneMoves DEF QueryActive
  <2> QED BY <2>1
<1>10. CacheHit(r) \/ FillCache(r) => to.step \in {"ended", "saveAll"}
  <2>1. ASSUME NEW pool, AfterPool(r, pool) PROVE to.step \in {"ended", "saveAll"}
    <3>1. to = Ended \/ \E bundle : to = [step |-> "saveAll", bundle |-> bundle]
      BY <2>1, OneMoves DEF AfterPool
    <3>2. \A bundle : [step |-> "saveAll", bundle |-> bundle].step = "saveAll"
      OBVIOUS
    <3>3. Ended.step = "ended"
      BY DEF Ended
    <3> QED BY <3>1, <3>2, <3>3
  <2> QED BY <2>1 DEF CacheHit, FillCache
<1>11. LoadForTest(r) => to.step = "simulate"
  <2>1. ASSUME NEW id, Begins(r, [step |-> "simulate", rule |-> id, with |-> rules[id]])
        PROVE  to.step = "simulate"
    <3>1. to = [step |-> "simulate", rule |-> id, with |-> rules[id]]
      BY <2>1, OneMoves DEF Begins
    <3> QED BY <3>1
  <2> QED BY <2>1 DEF LoadForTest
<1>12. Ended.step = "ended"
  BY DEF Ended
<1> HIDE DEF to
<1>13. to.step = "found" => QueryActive(r)
  BY <1>1, <1>2, <1>3, <1>4, <1>5, <1>6, <1>7, <1>8, <1>9, <1>10, <1>11, <1>12 DEF Serve
<1>14. to.step = "saveAll" => CacheHit(r) \/ FillCache(r)
  BY <1>1, <1>2, <1>3, <1>4, <1>5, <1>6, <1>7, <1>8, <1>9, <1>10, <1>11, <1>12 DEF Serve
<1>15. to.step = "save" => Check(r) \/ Snapshot(r)
  BY <1>1, <1>2, <1>3, <1>4, <1>5, <1>6, <1>7, <1>8, <1>9, <1>10, <1>11, <1>12 DEF Serve
<1>16. to.step = "snapshot" => Load(r) \/ Check(r)
  BY <1>1, <1>2, <1>3, <1>4, <1>5, <1>6, <1>7, <1>8, <1>9, <1>10, <1>11, <1>12 DEF Serve
<1>17. to.step = "check" => Load(r) \/ Create(r)
  BY <1>1, <1>2, <1>3, <1>4, <1>5, <1>6, <1>7, <1>8, <1>9, <1>10, <1>11, <1>12 DEF Serve
<1> QED BY <1>1, <1>13, <1>14, <1>15, <1>16, <1>17 DEF to

\* Which steps change what.
LEMMA FaultsStay == ASSUME NEW r \in Requests, Serve(r) PROVE faults' = faults
BY DEF Serve, Create, Load, LoadForUpdate, LoadForActivate, LoadForDeactivate, LoadForDelete,
       Changes, Check, Snapshot, Save, Audit, NeedActiveRules, CacheHit, QueryActive, FillCache,
       SaveAll, LoadForTest, Simulated

LEMMA RulesChange ==
    ASSUME NEW r \in Requests, Serve(r), rules' # rules
    PROVE  Save(r) \/ SaveAll(r)
BY DEF Serve, Create, Load, LoadForUpdate, LoadForActivate, LoadForDeactivate, LoadForDelete,
       Changes, Check, Snapshot, Audit, NeedActiveRules, CacheHit, QueryActive, FillCache,
       LoadForTest, Simulated, Tables

LEMMA CacheChanges ==
    ASSUME NEW r \in Requests, Serve(r), activeRuleCache' # activeRuleCache, activeRuleCache' # NoCache
    PROVE  FillCache(r)
BY DEF Serve, Create, Load, LoadForUpdate, LoadForActivate, LoadForDeactivate, LoadForDelete,
       Changes, Check, Snapshot, Save, Audit, NeedActiveRules, CacheHit, QueryActive,
       SaveAll, LoadForTest, Simulated, Caches

LEMMA CopiesStayCurrent ==
    ASSUME RulesInv, RulesHistoryNext
    PROVE  SerialCopies'
<1> SUFFICES ASSUME ~overlapped' PROVE SerialCopies'
  BY DEF SerialCopies
<1>0. RulesTypeOK /\ RulesNext /\ overlapped \in BOOLEAN
  BY DEF RulesInv, RulesConsistent, RulesHistoryNext
<1>1. ~overlapped /\ Alone'
  BY <1>0, Alones
<1>2. Alone /\ \A r \in Requests : CopyIsCurrent(r)
  BY <1>1 DEF RulesInv, SerialCopies
<1> SUFFICES ASSUME NEW r \in Requests, request'[r].step \in {"check", "snapshot", "save"},
                    request'[r].rule # NoRule
             PROVE  /\ request'[r].copy = rules'[request'[r].rule]
                    /\ request'[r].step = "save" =>
                          Recorded(request'[r].copy) \in history'[request'[r].rule]
  BY <1>1 DEF SerialCopies, CopyIsCurrent, Recorded
<1>3. CASE UNCHANGED <<rules, history>> /\ request'[r] = request[r]
  BY <1>2, <1>3 DEF CopyIsCurrent
<1>4. ASSUME NEW q \in Requests, Serve(q), q # r
      PROVE  UNCHANGED <<rules, history>> /\ request'[r] = request[r]
  <2>1. request'[r] = request[r]
    BY <1>0, <1>4, OthersStay
  <2>2. r \in InFlight
    BY <2>1 DEF InFlight, Idle, Ended
  <2>3. q \notin InFlight
    BY <1>2, <1>4, <2>2 DEF Alone
  <2> QED BY <1>4, <2>1, <2>3, StartsChangeNothing
<1>5. ASSUME NEW q \in Requests, Fails(q) PROVE UNCHANGED <<rules, history>> /\ request'[r] = request[r]
  <2>1. q # r
    <3>1. request'[q] = Ended
      BY <1>0, <1>5, OneMoves DEF Fails
    <3> QED BY <3>1 DEF Ended
  <2> QED BY <1>0, <1>5, <2>1, OthersStay DEF Fails, Tables
<1>6. Expires \/ ServiceDies => UNCHANGED <<rules, history>> /\ request'[r] = request[r]
  <2>1. ServiceDies => request'[r] = Ended \/ request'[r] = request[r]
    BY DEF ServiceDies
  <2>2. request'[r] # Ended
    BY DEF Ended
  <2> QED BY <2>1, <2>2 DEF Expires, ServiceDies, Tables
<1>7. ASSUME Serve(r), Load(r) PROVE /\ request'[r].copy = rules'[request'[r].rule]
                                     /\ request'[r].step # "save"
  <2>0. request'[r].step # "audit"
    OBVIOUS
  <2>1. PICK id \in Existing, first \in {"check", "snapshot"}, next \in Row :
           /\ request'[r] = [step |-> first, rule |-> id, copy |-> rules[id], next |-> next]
           /\ first = "snapshot" => ~next.active
    BY <1>0, <1>7, <2>0, Loaded
  <2>2. rules' = rules
    BY <1>7 DEF Load, LoadForUpdate, LoadForActivate, LoadForDeactivate, LoadForDelete, Changes,
                Tables
  <2> QED BY <2>1, <2>2
<1>8. ASSUME Serve(r), Check(r) PROVE /\ request'[r].copy = rules'[request'[r].rule]
                                      /\ request'[r].step # "save"
  <2>1. request[r] \in Creating \union Changing /\ request[r].step = "check"
    BY <1>0, <1>8, RequestKinds DEF Check
  <2>2. request'[r] = Ended
        \/ request'[r] = [request[r] EXCEPT !.step =
                             IF request[r].rule = NoRule THEN "save" ELSE "snapshot"]
    BY <1>0, <1>8, OneMoves DEF Check
  <2>3. request'[r] # Ended
    BY DEF Ended
  <2>4. /\ request'[r].rule = request[r].rule /\ request'[r].copy = request[r].copy
        /\ request'[r].step = IF request[r].rule = NoRule THEN "save" ELSE "snapshot"
    BY <2>1, <2>2, <2>3 DEF Creating, Changing
  <2>5. rules' = rules
    BY <1>8 DEF Check, Tables
  <2> QED BY <1>2, <2>1, <2>4, <2>5 DEF CopyIsCurrent
<1>9. ASSUME Snapshot(r) PROVE /\ request'[r].copy = rules'[request'[r].rule]
                               /\ Recorded(request'[r].copy) \in history'[request'[r].rule]
  <2>1. request[r] \in Changing /\ request[r].step = "snapshot"
    BY <1>0, <1>9, RequestKinds DEF Snapshot
  <2>2. request'[r] = [request[r] EXCEPT !.step = "save"]
    BY <1>0, <1>9, OneMoves DEF Snapshot
  <2>3. /\ request'[r].rule = request[r].rule /\ request'[r].copy = request[r].copy
        /\ request[r].rule \in Rules
    BY <2>1, <2>2 DEF Changing
  <2>4. rules' = rules
        /\ history' = [history EXCEPT ![request[r].rule] = @ \union {Recorded(request[r].copy)}]
    BY <1>9 DEF Snapshot
  <2>5. Recorded(request[r].copy) \in history'[request[r].rule]
    BY <1>0, <2>3, <2>4 DEF RulesTypeOK
  <2>6. request[r].copy = rules[request[r].rule]
    BY <1>2, <2>1, <2>3, RBAssumption DEF CopyIsCurrent
  <2> QED BY <2>3, <2>4, <2>5, <2>6
<1>10. CASE Serve(r)
  <2>1. Load(r) \/ Check(r) \/ Snapshot(r)
    BY <1>0, <1>10, Arrivals
  <2> QED BY <1>7, <1>8, <1>9, <1>10, <2>1
<1> QED BY <1>0, <1>3, <1>4, <1>5, <1>6, <1>10 DEF RulesNext

\* The rows a query of the active rules finds.
LEMMA PoolOfActive ==
    ASSUME RulesTypeOK
    PROVE  Pool(ActiveRules) = {rules[id] : id \in ActiveIds}
<1>1. \A id \in Rules : ActiveRules[id] # NoRule <=> id \in ActiveIds
  BY DEF ActiveRules, ActiveIds, Existing
<1>2. \A id \in ActiveIds : id \in Rules /\ ActiveRules[id] = rules[id]
  BY DEF ActiveRules, ActiveIds, Existing
<1>3. Pool(ActiveRules) = {ActiveRules[id] : id \in ActiveIds}
  BY <1>1, <1>2 DEF Pool
<1> QED BY <1>2, <1>3

\* Agreement, rule by rule.
LEMMA AgreeDef ==
    ASSUME RulesTypeOK
    PROVE  ActiveRulesAgree <=>
              \A i, j \in ActiveIds : rules[i].scope = rules[j].scope => ~Contradicts(rules[i], rules[j])
<1>1. \A i \in ActiveIds : rules[i].active
  BY DEF ActiveIds
<1> QED BY <1>1, PoolOfActive DEF ActiveRulesAgree, Agree

\* The same of the next state.
LEMMA AgreedThen ==
    ASSUME RulesTypeOK',
           \A i, j \in ActiveIds' :
              rules'[i].scope = rules'[j].scope => ~Contradicts(rules'[i], rules'[j])
    PROVE  ActiveRulesAgree'
<1>1. \A row \in Pool(ActiveRules)' : \E id \in ActiveIds' : row = rules'[id]
  BY DEF Pool, ActiveRules, ActiveIds, Existing
<1>2. \A a, b \in Pool(ActiveRules)' : a.scope = b.scope => ~Contradicts(a, b)
  BY <1>1
<1> QED BY <1>2 DEF ActiveRulesAgree, Agree

\* A rule that no rival contradicts may take its place.
LEMMA SaveAgrees ==
    ASSUME RulesTypeOK, RulesTypeOK', ActiveRulesAgree, NEW r \in Requests, Save(r),
           \A row \in Rivals(request[r].next, request[r].rule) :
              ~Contradicts(request[r].next, row)
    PROVE  ActiveRulesAgree'
<1> DEFINE next == request[r].next
<1>1. PICK id : /\ rules' = [rules EXCEPT ![id] = next]
                /\ id \in IF request[r].rule = NoRule THEN Rules \ Existing ELSE {request[r].rule}
  BY DEF Save
<1>2. next \in Row
  BY RequestKinds DEF Save, Creating, Changing
<1>3. /\ \A j \in ActiveIds' : j # id => j \in ActiveIds /\ rules'[j] = rules[j]
      /\ id \in ActiveIds' => rules'[id] = next
  BY <1>1 DEF RulesTypeOK, Table, ActiveIds, Existing
<1>4. \A j \in ActiveIds : j # id => j # request[r].rule
  BY <1>1, RBAssumption DEF ActiveIds, Existing
<1>5. \A j \in ActiveIds : j # id /\ rules[j].scope = next.scope => ~Contradicts(next, rules[j])
  BY <1>4 DEF Rivals
<1> HIDE DEF next
<1>6. ~Contradicts(next, next)
  BY DEF Contradicts
<1>7. ASSUME NEW j \in ActiveIds', j # id, id \in ActiveIds', rules'[j].scope = rules'[id].scope
      PROVE  ~Contradicts(rules'[j], rules'[id])
  <2>1. next.active
    BY <1>3, <1>7 DEF ActiveIds
  <2> QED BY <1>3, <1>5, <1>7, <2>1 DEF Contradicts
<1>8. \A i, j \in ActiveIds : rules[i].scope = rules[j].scope => ~Contradicts(rules[i], rules[j])
  BY AgreeDef
<1>9. ASSUME NEW i \in ActiveIds', NEW j \in ActiveIds', rules'[i].scope = rules'[j].scope
      PROVE  ~Contradicts(rules'[i], rules'[j])
  <2>1. CASE i # id /\ j # id
    BY <1>3, <1>8, <1>9, <2>1
  <2>2. CASE i = id /\ j # id
    BY <1>3, <1>5, <1>9, <2>2
  <2>3. CASE i # id /\ j = id
    BY <1>7, <1>9, <2>3
  <2>4. CASE i = id /\ j = id
    BY <1>3, <1>6, <2>4
  <2> QED BY <2>1, <2>2, <2>3, <2>4
<1>10. \A i, j \in ActiveIds' :
          rules'[i].scope = rules'[j].scope => ~Contradicts(rules'[i], rules'[j])
  BY <1>9
<1> QED BY <1>10, AgreedThen

LEMMA ImportAgrees ==
    ASSUME RulesTypeOK, RulesTypeOK', ActiveRulesAgree, NEW r \in Requests, SaveAll(r),
           Admits(request[r].bundle, Pool(ActiveRules))
    PROVE  ActiveRulesAgree'
<1> DEFINE bundle == request[r].bundle
<1>1. bundle \in Seq(Row)
  BY RequestKinds DEF SaveAll, Importing
<1>2. PICK ids \in Injection(DOMAIN bundle, Rules \ Existing) :
         rules' = [id \in Rules |->
                     IF \E i \in DOMAIN bundle : ids[i] = id
                     THEN bundle[CHOOSE i \in DOMAIN bundle : ids[i] = id]
                     ELSE rules[id]]
  BY DEF SaveAll
<1>3. \A i \in DOMAIN bundle : \A id \in ActiveIds : ~Contradicts(bundle[i], rules[id])
  BY PoolOfActive DEF Admits
<1>4. \A i \in DOMAIN bundle : \A j \in 1..(i - 1) : ~Contradicts(bundle[i], bundle[j])
  BY DEF Admits
<1> HIDE DEF bundle
<1>5. ASSUME NEW id \in ActiveIds'
      PROVE  \/ \E i \in DOMAIN bundle : rules'[id] = bundle[i]
             \/ id \in ActiveIds /\ rules'[id] = rules[id]
  <2>1. id \in Rules
    BY DEF ActiveIds, Existing
  <2>2. CASE \E i \in DOMAIN bundle : ids[i] = id
    BY <1>2, <2>1, <2>2
  <2>3. CASE ~\E i \in DOMAIN bundle : ids[i] = id
    <3>1. rules'[id] = rules[id]
      BY <1>2, <2>1, <2>3
    <3> QED BY <3>1 DEF ActiveIds, Existing
  <2> QED BY <2>2, <2>3
<1>6. \A id \in ActiveIds' : rules'[id].active
  BY DEF ActiveIds
<1>7. \A i, j \in ActiveIds : rules[i].scope = rules[j].scope => ~Contradicts(rules[i], rules[j])
  BY AgreeDef
<1>8. \A i, j \in DOMAIN bundle : bundle[i].active /\ bundle[j].active
         /\ bundle[i].scope = bundle[j].scope => ~Contradicts(bundle[i], bundle[j])
  <2>1. ASSUME NEW i \in DOMAIN bundle, NEW j \in DOMAIN bundle, j < i
        PROVE  ~Contradicts(bundle[i], bundle[j])
    <3>1. j \in 1..(i - 1)
      BY <1>1, <2>1
    <3> QED BY <1>4, <3>1
  <2>2. \A i, j \in DOMAIN bundle : i < j \/ j < i \/ i = j
    BY <1>1
  <2> QED BY <2>1, <2>2 DEF Contradicts
<1>9. ASSUME NEW x \in ActiveIds', NEW y \in ActiveIds', rules'[x].scope = rules'[y].scope
      PROVE  ~Contradicts(rules'[x], rules'[y])
  <2>1. rules'[x].active /\ rules'[y].active
    BY <1>6
  <2>2. CASE (\E i \in DOMAIN bundle : rules'[x] = bundle[i])
             /\ (\E j \in DOMAIN bundle : rules'[y] = bundle[j])
    BY <1>8, <1>9, <2>1, <2>2
  <2>3. CASE (\E i \in DOMAIN bundle : rules'[x] = bundle[i])
             /\ y \in ActiveIds /\ rules'[y] = rules[y]
    BY <1>3, <2>3
  <2>4. CASE (\E j \in DOMAIN bundle : rules'[y] = bundle[j])
             /\ x \in ActiveIds /\ rules'[x] = rules[x]
    BY <1>3, <1>9, <2>1, <2>4 DEF Contradicts
  <2>5. CASE x \in ActiveIds /\ rules'[x] = rules[x] /\ y \in ActiveIds /\ rules'[y] = rules[y]
    BY <1>7, <1>9, <2>5
  <2> QED BY <1>5, <2>2, <2>3, <2>4, <2>5
<1>10. \A i, j \in ActiveIds' :
          rules'[i].scope = rules'[j].scope => ~Contradicts(rules'[i], rules'[j])
  BY <1>9
<1> QED BY <1>10, AgreedThen

\* What only depends on the rules stays with them.
LEMMA SameRules ==
    ASSUME rules' = rules
    PROVE  /\ ActiveRules' = ActiveRules
           /\ Pool(ActiveRules)' = Pool(ActiveRules)
           /\ ActiveRulesAgree' <=> ActiveRulesAgree
BY DEF ActiveRules, ActiveIds, Existing, Pool, ActiveRulesAgree, Agree

\* What a request that moves comes to know of the active rules.
LEMMA FindsOut ==
    ASSUME RulesTypeOK, NEW r \in Requests, Serve(r), FindingsHold(r),
           request[r].step = "pool" => (activeRuleCache # NoCache => activeRuleCache = ActiveRules)
    PROVE  FindingsHold(r)'
<1> DEFINE to == request'[r]
<1>1. ASSUME to.step \in {"snapshot", "save"}
      PROVE  rules' = rules /\ \A row \in Rivals(to.next, to.rule) : ~Contradicts(to.next, row)
  <2>1. CASE Load(r)
    <3>0. to.step # "audit"
      BY <1>1
    <3>1. PICK id \in Existing, first \in {"check", "snapshot"}, next \in Row :
             /\ to = [step |-> first, rule |-> id, copy |-> rules[id], next |-> next]
             /\ first = "snapshot" => ~next.active
      BY <2>1, <3>0, Loaded
    <3>2. ~to.next.active
      BY <1>1, <3>1
    <3> QED BY <2>1, <3>2 DEF Contradicts, Load, LoadForUpdate, LoadForActivate, LoadForDeactivate,
                              LoadForDelete, Changes, Tables
  <2>2. CASE Check(r)
    <3>1. request[r] \in Creating \union Changing
      BY <2>2, RequestKinds DEF Check
    <3>2. to # Ended
      BY <1>1 DEF Ended
    <3>3. /\ \A row \in Rivals(request[r].next, request[r].rule) : ~Contradicts(request[r].next, row)
          /\ to = [request[r] EXCEPT !.step = IF request[r].rule = NoRule THEN "save" ELSE "snapshot"]
      BY <2>2, <3>2, OneMoves DEF Check
    <3>4. to.next = request[r].next /\ to.rule = request[r].rule
      BY <3>1, <3>3 DEF Creating, Changing
    <3> QED BY <2>2, <3>3, <3>4 DEF Check, Tables
  <2>3. CASE Snapshot(r)
    <3>1. request[r] \in Changing /\ request[r].step = "snapshot"
      BY <2>3, RequestKinds DEF Snapshot
    <3>2. to = [request[r] EXCEPT !.step = "save"]
      BY <2>3, OneMoves DEF Snapshot
    <3>3. to.next = request[r].next /\ to.rule = request[r].rule
      BY <3>1, <3>2 DEF Changing
    <3> QED BY <2>3, <3>1, <3>3 DEF Snapshot, FindingsHold
  <2> QED BY <1>1, <2>1, <2>2, <2>3, Arrivals
<1>2. ASSUME to.step = "found" PROVE rules' = rules /\ to.found = ActiveRules
  <2>1. QueryActive(r)
    BY <1>2, Arrivals
  <2>2. to = [step |-> "found", found |-> ActiveRules]
    BY <2>1, OneMoves DEF QueryActive
  <2> QED BY <2>1, <2>2 DEF QueryActive, Tables
<1>3. ASSUME to.step = "saveAll" PROVE rules' = rules /\ Admits(to.bundle, Pool(ActiveRules))
  <2>1. CacheHit(r) \/ FillCache(r)
    BY <1>3, Arrivals
  <2>2. AfterPool(r, Pool(ActiveRules))
    BY <2>1 DEF CacheHit, FillCache, FindingsHold
  <2>3. ~Goes(r, Ended)
    <3>1. to # Ended
      BY <1>3 DEF Ended
    <3> QED BY <3>1, OneMoves
  <2>4. PICK bundle \in Bundles : /\ Admits(bundle, Pool(ActiveRules))
                                  /\ Goes(r, [step |-> "saveAll", bundle |-> bundle])
    BY <2>2, <2>3 DEF AfterPool
  <2>5. to = [step |-> "saveAll", bundle |-> bundle]
    BY <2>4, OneMoves
  <2>6. to.bundle = bundle
    BY <2>5
  <2>7. rules' = rules
    BY <2>1 DEF CacheHit, FillCache, Tables
  <2> QED BY <2>4, <2>6, <2>7
<1>4. ASSUME to.step \in {"snapshot", "save"}
      PROVE  (\A row \in Rivals(request[r].next, request[r].rule) :
                 ~Contradicts(request[r].next, row))'
  BY <1>1, <1>4 DEF Rivals, ActiveIds, Existing, Contradicts
<1>5. ASSUME to.step = "found" PROVE (request[r].found = ActiveRules)'
  BY <1>2, <1>5, SameRules
<1>6. ASSUME to.step = "saveAll" PROVE Admits(request[r].bundle, Pool(ActiveRules))'
  BY <1>3, <1>6, SameRules DEF Admits, Contradicts
<1> QED BY <1>4, <1>5, <1>6 DEF FindingsHold

LEMMA FindingsStay ==
    ASSUME RulesInv, RulesHistoryNext
    PROVE  SerialFindings'
<1>0. RulesTypeOK /\ RulesNext /\ overlapped \in BOOLEAN /\ RulesTypeOK'
  BY TypeStep DEF RulesInv, RulesConsistent, RulesHistoryNext
<1> SUFFICES ASSUME ~overlapped', faults' = 0 PROVE SerialFindings'
  BY DEF SerialFindings
<1>1. ~overlapped /\ Alone /\ Alone'
  BY <1>0, Alones DEF RulesInv, SerialCopies
<1>2. faults = 0 /\ \A r \in Requests : ~Fails(r)
  <2>1. faults \in Nat
    BY <1>0 DEF RulesTypeOK
  <2>2. ASSUME NEW r \in Requests, Fails(r) PROVE FALSE
    BY <2>1, <2>2 DEF Fails
  <2>3. \A r \in Requests : Serve(r) => faults' = faults
    BY FaultsStay
  <2>4. Expires \/ ServiceDies => faults' = faults
    BY DEF Expires, ServiceDies
  <2> QED BY <1>0, <2>2, <2>3, <2>4 DEF RulesNext
<1>3. /\ StaleCache => Pending # {}
      /\ ActiveRulesAgree
      /\ \A r \in Requests : FindingsHold(r)
  BY <1>1, <1>2 DEF RulesInv, SerialFindings
<1>4. Cut = {}
  BY <1>0, <1>2 DEF Cut, RulesTypeOK
\* A stale cache is followed by its invalidation.
<1>5. StaleCache' => Pending' # {}
  <2> SUFFICES ASSUME activeRuleCache' # NoCache, activeRuleCache' # ActiveRules' PROVE Pending' # {}
    BY DEF StaleCache
  <2>1. CASE rules' # rules
    BY <1>0, <2>1, WritesArePending
  <2>2. CASE rules' = rules /\ activeRuleCache' = activeRuleCache
    <3>1. StaleCache
      BY <2>2, SameRules DEF StaleCache
    <3>2. PICK r \in Pending : TRUE
      BY <1>3, <3>1
    <3> QED BY <1>0, <1>4, <3>2, PendingInvalidates
  <2>3. CASE rules' = rules /\ activeRuleCache' # activeRuleCache
    <3>1. ASSUME NEW r \in Requests, Serve(r) PROVE FALSE
      <4>1. FillCache(r)
        BY <2>3, <3>1, CacheChanges
      <4> QED BY <1>3, <2>3, <4>1, SameRules DEF FillCache, FindingsHold
    <3>2. ServiceDies \/ Expires => FALSE
      BY <2>3 DEF ServiceDies, Expires
    <3> QED BY <1>0, <1>2, <3>1, <3>2 DEF RulesNext
  <2> QED BY <2>1, <2>2, <2>3
\* The writes are of what was found not to contradict.
<1>6. ActiveRulesAgree'
  <2>1. CASE rules' = rules
    BY <1>3, <2>1, SameRules
  <2>2. ASSUME NEW r \in Requests, Serve(r), rules' # rules PROVE ActiveRulesAgree'
    <3>1. Save(r) \/ SaveAll(r)
      BY <2>2, RulesChange
    <3>2. CASE Save(r)
      <4>1. \A row \in Rivals(request[r].next, request[r].rule) : ~Contradicts(request[r].next, row)
        BY <1>3, <3>2 DEF FindingsHold, Save
      <4> QED BY <1>0, <1>3, <3>2, <4>1, SaveAgrees
    <3>3. CASE SaveAll(r)
      <4>1. Admits(request[r].bundle, Pool(ActiveRules))
        BY <1>3, <3>3 DEF FindingsHold, SaveAll
      <4> QED BY <1>0, <1>3, <3>3, <4>1, ImportAgrees
    <3> QED BY <3>1, <3>2, <3>3
  <2>3. Expires \/ ServiceDies => rules' = rules
    BY DEF Expires, ServiceDies, Tables
  <2> QED BY <1>0, <1>2, <2>1, <2>2, <2>3 DEF RulesNext
<1>7. ASSUME NEW r \in Requests PROVE FindingsHold(r)'
  <2>1. CASE Serve(r)
    <3>1. request[r].step = "pool" => Pending = {}
      <4>1. \A q \in Pending : q \in InFlight /\ request[q].step = "audit"
        BY DEF Pending, InFlight, Idle, Ended
      <4>2. request[r].step = "pool" => r \in InFlight
        BY DEF InFlight, Idle, Ended
      <4> QED BY <1>1, <4>1, <4>2 DEF Alone
    <3>2. request[r].step = "pool" => (activeRuleCache # NoCache => activeRuleCache = ActiveRules)
      BY <1>3, <3>1 DEF StaleCache
    <3> QED BY <1>0, <1>3, <2>1, <3>2, FindsOut
  <2>2. CASE rules' = rules /\ request'[r] = request[r]
    BY <1>3, <2>2 DEF FindingsHold, Rivals, ActiveIds, Existing, ActiveRules, Pool, Admits, Contradicts
  <2>3. CASE request'[r].step \notin {"snapshot", "save", "found", "saveAll"}
    BY <2>3 DEF FindingsHold
  <2>4. ASSUME NEW q \in Requests, Serve(q), q # r,
               request'[r].step \in {"snapshot", "save", "found", "saveAll"}
        PROVE  rules' = rules /\ request'[r] = request[r]
    <3>1. request'[r] = request[r]
      BY <1>0, <2>4, OthersStay
    <3>2. r \in InFlight
      BY <2>4, <3>1 DEF InFlight, Idle, Ended
    <3>3. q \notin InFlight
      BY <1>1, <2>4, <3>2 DEF Alone
    <3> QED BY <2>4, <3>1, <3>3, StartsChangeNothing
  <2>5. Expires => rules' = rules /\ request'[r] = request[r]
    BY DEF Expires, Tables
  <2>6. ServiceDies => rules' = rules /\ (request'[r] = request[r] \/ request'[r].step = "ended")
    BY DEF ServiceDies, Tables, Ended
  <2> QED BY <1>0, <1>2, <2>1, <2>2, <2>3, <2>4, <2>5, <2>6 DEF RulesNext
<1> QED BY <1>5, <1>6, <1>7 DEF SerialFindings

LEMMA BookInit == ASSUME RulesHistoryInit PROVE RulesInv
<1>1. RulesTypeOK /\ StaleHasAReason
  BY TypeInit DEF RulesHistoryInit, RulesInit, StaleHasAReason, StaleCache, StaleSimulation
<1>2. \A r \in Requests : request[r] = Idle /\ request[r].step = "idle"
  BY DEF RulesHistoryInit, RulesInit, Idle
<1>3. SerialCopies
  BY <1>2 DEF SerialCopies, Alone, InFlight, CopyIsCurrent
<1>4. ActiveRulesAgree
  <2>1. Pool(ActiveRules) \subseteq {rules[id] : id \in Existing}
    BY <1>1, PoolOfActive DEF ActiveIds
  <2> QED BY <2>1 DEF RulesHistoryInit, RulesInit, ActiveRulesAgree, Agree
<1>5. SerialFindings
  BY <1>2, <1>4 DEF SerialFindings, FindingsHold, StaleCache, RulesHistoryInit, RulesInit
<1> QED BY <1>1, <1>3, <1>5 DEF RulesInv, RulesConsistent, RulesHistoryInit

LEMMA BookStep ==
    ASSUME RulesInv, [RulesHistoryNext]_rulesHistoryVars
    PROVE  RulesInv'
<1>1. CASE RulesHistoryNext
  <2>1. RulesConsistent'
    BY <1>1, TypeStep, ExcusesCover DEF RulesInv, RulesConsistent, RulesHistoryNext
  <2>2. (overlapped \in BOOLEAN)'
    BY <1>1, Zenon DEF RulesHistoryNext
  <2> QED BY <1>1, <2>1, <2>2, CopiesStayCurrent, FindingsStay DEF RulesInv
<1>2. CASE UNCHANGED rulesHistoryVars
  <2>1. UNCHANGED rulesVars /\ UNCHANGED <<overlapped, excused, excusedFor>>
    BY <1>2 DEF rulesHistoryVars
  <2>2. UNCHANGED <<rules, history, activeRuleCache, simulationCache, request, faults>>
    BY <2>1 DEF rulesVars
  <2>3. RulesTypeOK'
    BY <2>1, TypeStep DEF RulesInv, RulesConsistent
  <2>4. StaleHasAReason'
    BY <2>1, <2>2 DEF RulesInv, RulesConsistent, StaleHasAReason, StaleCache, StaleSimulation, Pending,
                      ActiveRules, ActiveIds, Existing
  <2>5. SerialCopies'
    BY <2>1, <2>2 DEF RulesInv, SerialCopies, Alone, InFlight, CopyIsCurrent, Recorded
  <2>6. StaleCache' = StaleCache /\ Pending' = Pending
    BY <2>2, SameRules DEF StaleCache, Pending
  <2>7. \A r \in Requests : FindingsHold(r)' = FindingsHold(r)
    BY <2>2 DEF FindingsHold, Rivals, ActiveIds, Existing, ActiveRules, Pool, Admits, Contradicts
  <2>8. SerialFindings'
    BY <2>1, <2>2, <2>6, <2>7, SameRules DEF RulesInv, SerialFindings
  <2> QED BY <2>1, <2>3, <2>4, <2>5, <2>8 DEF RulesInv, RulesConsistent
<1> QED BY <1>1, <1>2

\* The inductive invariant of the rules and their caches: a request without
\* company holds the row as it is and knows the active rules as they are, from
\* its query or through a cache entry that is not stale.
THEOREM RulesInvariance == RulesHistorySpec => []RulesInv
<1>1. RulesHistoryInit => RulesInv
  BY BookInit
<1>2. RulesInv /\ [RulesHistoryNext]_rulesHistoryVars => RulesInv'
  BY BookStep
<1> QED BY <1>1, <1>2, PTL DEF RulesHistorySpec

\* Every cache entry that differs from the rules does so for one of the
\* reasons a reader of RulesService would give: a save whose invalidation is
\* still to come, an entry stored from an older query, a failed call.
THEOREM RulesStayConsistent ==
    RulesHistorySpec => []RulesConsistent
<1>1. RulesInv => RulesConsistent
  BY DEF RulesInv
<1> QED BY <1>1, RulesInvariance, PTL

\* BE-19 without overlap and failures: whatever is created, patched, activated
\* or imported, no two active rules of a place contradict each other.
THEOREM RulesAgree == RulesHistorySpec => []SerialRulesAgree
<1>1. RulesInv => SerialRulesAgree
  BY DEF RulesInv, SerialFindings, SerialRulesAgree
<1> QED BY <1>1, RulesInvariance, PTL

\* Without overlap no contents of a rule are overwritten without a row of
\* rule_version that has them, crashes and failures included.
THEOREM OverwritesRecorded == RulesHistorySpec => SerialOverwritesRecorded
<1>1. RulesInv /\ [RulesHistoryNext]_rulesHistoryVars
      => [\A id \in Rules : overlapped \/ OverwritesAreRecorded(id)]_rules
  <2> SUFFICES ASSUME RulesInv, RulesHistoryNext, ~overlapped, NEW id \in Rules
               PROVE  OverwritesAreRecorded(id)
    BY DEF rulesHistoryVars, rulesVars
  <2> SUFFICES ASSUME rules'[id] # rules[id], rules[id] # NoRule
               PROVE  Recorded(rules[id]) \in history[id]
    BY DEF OverwritesAreRecorded
  <2>1. RulesTypeOK /\ RulesNext
    BY DEF RulesInv, RulesConsistent, RulesHistoryNext
  <2>2. PICK r \in Requests : Save(r) \/ SaveAll(r)
    <3>1. (\E r \in Requests : Fails(r)) \/ Expires \/ ServiceDies => rules' = rules
      BY DEF Fails, Expires, ServiceDies, Tables
    <3> QED BY <2>1, <3>1, RulesChange DEF RulesNext
  <2>3. ~SaveAll(r)
    <3>1. ASSUME SaveAll(r) PROVE FALSE
      <4> DEFINE bundle == request[r].bundle
      <4>1. PICK ids \in Injection(DOMAIN bundle, Rules \ Existing) :
               rules' = [i \in Rules |->
                           IF \E k \in DOMAIN bundle : ids[k] = i
                           THEN bundle[CHOOSE k \in DOMAIN bundle : ids[k] = i]
                           ELSE rules[i]]
        BY <3>1 DEF SaveAll
      <4> HIDE DEF bundle
      <4>2. \A k \in DOMAIN bundle : ids[k] \in Rules \ Existing
        BY <4>1 DEF Injection
      <4>3. ~\E k \in DOMAIN bundle : ids[k] = id
        BY <4>2 DEF Existing
      <4> QED BY <4>1, <4>3
    <3> QED BY <3>1
  <2>4. PICK to : /\ rules' = [rules EXCEPT ![to] = request[r].next]
                  /\ to \in IF request[r].rule = NoRule THEN Rules \ Existing ELSE {request[r].rule}
    BY <2>2, <2>3 DEF Save
  <2>5. to = id
    BY <2>1, <2>4 DEF RulesTypeOK, Table
  <2>6. request[r].rule = id /\ request[r].rule # NoRule
    BY <2>4, <2>5 DEF Existing
  <2>7. request[r].step = "save" /\ CopyIsCurrent(r)
    BY <2>2, <2>3 DEF Save, RulesInv, SerialCopies
  <2> QED BY <2>6, <2>7 DEF CopyIsCurrent
<1> QED BY <1>1, RulesInvariance, PTL DEF RulesHistorySpec, SerialOverwritesRecorded
=============================================================================
