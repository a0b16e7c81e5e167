------------------------------ MODULE Realtime -------------------------------
(***************************************************************************)
(* The WebSocket gateway: the handshake, rooms that are joined after the   *)
(* queries of WsRoomGuardService and left at once, and the messages of     *)
(* JetStream that NatsWsBridgeService forwards to the rooms that have      *)
(* listeners at that moment.                                               *)
(*                                                                         *)
(* Each organization has one workflow with one session and one pipeline,   *)
(* so a room is a kind and the organization its row belongs to; None       *)
(* stands for an id without a row.  A socket is used once: a client that   *)
(* reconnects is another socket.  What an event carries is left out.       *)
(***************************************************************************)
EXTENDS Naturals, FiniteSets

CONSTANTS
    Sockets,     \* connections of clients
    Orgs,        \* organizations
    Tokens,      \* payloads of the tokens that clients hold
    Requested,   \* the rooms that clients ask to join and to leave
    Messages,    \* the messages that may be published
    None,        \* no row, and a field a token lacks
    MaxJoins,    \* bound on the joins in progress
    MaxMessages, \* bound on the messages published and the events sent at once
    MaxDeliver   \* max_deliver of the consumers

Token == [user : Orgs, org : Orgs \union {None}, admin : BOOLEAN]

\* A progress message carries a log line or not, and names its pipeline or,
\* as the payload of the Python service does, its session only.
Progress == {m \in [event : {"progress", "progress-log"}, org : Orgs,
                    pipeline : Orgs \union {None}] : m.pipeline \in {m.org, None}}

Message == Progress
           \union [event : {"updated", "finalized", "reconcile"}, org : Orgs]
           \union [event : {"document"}, org : Orgs \union {None}]
           \union [event : {"ping"}, org : {None}]

ASSUME RealtimeAssumption ==
    /\ None \notin Orgs
    /\ Tokens \subseteq Token
    /\ Requested \subseteq ({"session", "workflow", "pipeline", "user", "admin-health",
                           "unknown"} \X (Orgs \union {None}))
    /\ Messages \subseteq Message
    /\ MaxJoins \in Nat /\ MaxMessages \in Nat /\ MaxDeliver \in Nat \ {0}

VARIABLES
    socket,   \* per socket: the payload of its token, or its state without one
    rooms,    \* per socket: the rooms it is in
    joins,    \* joinRoom handlers between two queries
    inbox,    \* messages not settled: the step of their handler and the delivery it is
    published,\* the messages published so far
    received  \* per open socket: the <<event, room>> pairs sent to it

vars == <<socket, rooms, joins, inbox, published, received>>

\* A user's room is named after the organization of the user, its only one.
Scoped == {"session", "workflow", "pipeline"}
AdminHealth == <<"admin-health", None>>
Unknown == <<"unknown", None>>
Joinable == (Scoped \X Orgs) \union ({"user"} \X Orgs) \union {AdminHealth}

Event == {"pipeline.progress", "agent.log", "agent.status", "workflow.updated",
          "session.finalized", "document.ready", "system.health.alert",
          "session.needs_reconciliation"}

New == [state |-> "new"]
Closed == [state |-> "closed"]
Open == {s \in Sockets : socket[s] \in Tokens}

TypeOK ==
    /\ socket \in [Sockets -> Tokens \union {New, Closed}]
    /\ rooms \in [Sockets -> SUBSET Joinable]
    /\ joins \subseteq [socket : Sockets, org : Orgs, step : Scoped,
                        room : Scoped \X (Orgs \union {None})]
    /\ Cardinality(joins) <= MaxJoins
    /\ inbox \subseteq [message : published, step : {"waiting", "routed"},
                        delivery : 1..MaxDeliver]
    /\ published \subseteq Messages
    /\ received \in [Sockets -> SUBSET (Event \X Joinable)]

Init ==
    /\ socket = [s \in Sockets |-> New]
    /\ rooms = [s \in Sockets |-> {}]
    /\ joins = {} /\ inbox = {} /\ published = {}
    /\ received = [s \in Sockets |-> {}]

-----------------------------------------------------------------------------
(* Connections                                                             *)

\* The handshake and handleConnection: the room of the user is joined.
Connect(s, token) ==
    /\ socket[s] = New
    /\ socket' = [socket EXCEPT ![s] = token]
    /\ rooms' = [rooms EXCEPT ![s] = {<<"user", token.user>>}]
    /\ UNCHANGED <<joins, inbox, published, received>>

\* A handshake without a valid token.
Refuse(s) ==
    /\ socket[s] = New
    /\ socket' = [socket EXCEPT ![s] = Closed]
    /\ UNCHANGED <<rooms, joins, inbox, published, received>>

Close(s) ==
    /\ socket' = [socket EXCEPT ![s] = Closed]
    /\ rooms' = [rooms EXCEPT ![s] = {}]
    /\ received' = [received EXCEPT ![s] = {}]

Disconnect(s) ==
    /\ s \in Open
    /\ Close(s)
    /\ UNCHANGED <<joins, inbox, published>>

\* client.join does nothing on a socket that was closed meanwhile.
Enter(s, room) ==
    /\ rooms' = [rooms EXCEPT ![s] = IF s \in Open THEN @ \union {room} ELSE @]
    /\ UNCHANGED <<socket, received>>

Deny == UNCHANGED <<socket, rooms, received>>

-----------------------------------------------------------------------------
(* Rooms                                                                   *)

\* canJoin without a query: the client needs an organization, a user's room
\* is its own, admin-health asks for the role and disconnects who lacks it.
JoinAtOnce(s, room) ==
    /\ s \in Open
    /\ room \notin Scoped \X (Orgs \union {None}) \/ socket[s].org = None
    /\ CASE socket[s].org = None -> Deny
         [] room = <<"user", socket[s].user>> -> Enter(s, room)
         [] room = AdminHealth -> IF socket[s].admin THEN Enter(s, room) ELSE Close(s)
         [] OTHER -> Deny
    /\ UNCHANGED <<joins, inbox, published>>

\* canJoin up to its first query.
JoinRoom(s, room) ==
    /\ s \in Open /\ socket[s].org # None
    /\ room \in Scoped \X (Orgs \union {None})
    /\ Cardinality(joins) < MaxJoins
    /\ joins' = joins \union {[socket |-> s, org |-> socket[s].org, step |-> room[1],
                               room |-> room]}
    /\ UNCHANGED <<socket, rooms, inbox, published, received>>

\* A step that found its row goes on, one that did not denies.
FindRow(j, next) ==
    /\ joins' = (joins \ {j}) \union
         (IF j.room[2] # None THEN {[j EXCEPT !.step = next]} ELSE {})
    /\ Deny
    /\ UNCHANGED <<inbox, published>>

\* Mutant: the pipeline's row is enough.
FindPipelineOnly(j) ==
    /\ j.step = "pipeline"
    /\ joins' = joins \ {j}
    /\ IF j.room[2] # None THEN Enter(j.socket, j.room) ELSE Deny
    /\ UNCHANGED <<inbox, published>>

\* The row of the pipeline leads to its session.
FindPipeline(j) == j.step = "pipeline" /\ FindRow(j, "session")

\* The row of the session leads to its workflow.
FindSession(j) == j.step = "session" /\ FindRow(j, "workflow")

\* The workflow is looked up in the organization of the token.  The reasons
\* given for a workflow that is not found there close the socket.
FindWorkflow(j) ==
    /\ j.step = "workflow"
    /\ joins' = joins \ {j}
    /\ IF j.room[2] = j.org THEN Enter(j.socket, j.room) ELSE Close(j.socket)
    /\ UNCHANGED <<inbox, published>>

QueryFails(j) ==
    /\ joins' = joins \ {j}
    /\ Deny
    /\ UNCHANGED <<inbox, published>>

LeaveRoom(s, room) ==
    /\ s \in Open
    /\ rooms' = [rooms EXCEPT ![s] = @ \ {room}]
    /\ UNCHANGED <<socket, joins, inbox, published, received>>

-----------------------------------------------------------------------------
(* Events                                                                  *)

HasListeners(room) == \E s \in Sockets : room \in rooms[s]

\* server.to(room).emit for each of a set of <<event, room>> pairs.
EmitAll(sent) ==
    received' = [s \in Sockets |-> received[s] \union {e \in sent : e[2] \in rooms[s]}]

Publish(m) ==
    /\ m \notin published /\ m.event # "reconcile"
    /\ Cardinality(published) < MaxMessages
    /\ published' = published \union {m}
    /\ inbox' = inbox \union {[message |-> m, step |-> "waiting", delivery |-> 1]}
    /\ UNCHANGED <<socket, rooms, joins, received>>

\* The events each subscription makes of a message and the rooms they are for.
\* Without an id of the pipeline they are for pipeline:undefined.
AiProgress(m) ==
    {<<"pipeline.progress", <<"session", m.org>>>>}
    \union {"pipeline.progress", "agent.status"} \X {<<"pipeline", m.pipeline>>}
    \union (IF m.event = "progress-log" THEN {<<"agent.log", <<"pipeline", m.pipeline>>>>} ELSE {})

WorkflowUpdated(m) == {<<"workflow.updated", <<"workflow", m.org>>>>}

SessionFinalized(m) == {<<"session.finalized", <<"session", m.org>>>>}

DocumentReady(m) == {<<"document.ready", <<"session", m.org>>>>}

SystemHealth == {<<"system.health.alert", AdminHealth>>}

NeedsReconciliation(m) == {<<"session.needs_reconciliation", <<"session", m.org>>>>}

Routes(m) ==
    CASE m.event \in {"progress", "progress-log"} -> AiProgress(m)
      [] m.event = "updated" -> WorkflowUpdated(m)
      [] m.event = "finalized" -> SessionFinalized(m)
      [] m.event = "document" -> DocumentReady(m)
      [] m.event = "ping" -> SystemHealth
      [] m.event = "reconcile" -> NeedsReconciliation(m)

\* Mutant: whether somebody listens is asked of the session's room for both.
HeardWithSession(m) ==
    {e \in Routes(m) : HasListeners(IF m.event \in {"progress", "progress-log"}
                                     THEN <<"session", m.org>> ELSE e[2])}

\* What is sent: a room without listeners is skipped.
Heard(m) == {e \in Routes(m) : HasListeners(e[2])}

\* documentsRepo.findOne: a document without a session is given up.
LookUpDocument(i) ==
    /\ i.step = "waiting" /\ i.message.event = "document"
    /\ inbox' = (inbox \ {i}) \union
         (IF i.message.org = None THEN {} ELSE {[i EXCEPT !.step = "routed"]})
    /\ UNCHANGED <<socket, rooms, joins, published, received>>

\* What JetStream has of a message that is not acknowledged: the next
\* delivery, if there is one.
Redelivered(i) ==
    IF i.delivery < MaxDeliver THEN {[i EXCEPT !.step = "waiting", !.delivery = @ + 1]} ELSE {}

\* findOne throws: nak, and term on the last delivery.
LookUpFails(i) ==
    /\ i.step = "waiting" /\ i.message.event = "document"
    /\ inbox' = (inbox \ {i}) \union Redelivered(i)
    /\ UNCHANGED <<socket, rooms, joins, published, received>>

\* The handler sends and acknowledges.  An acknowledgement may be lost.
Forward(i, acknowledged) ==
    /\ i.step = (IF i.message.event = "document" THEN "routed" ELSE "waiting")
    /\ EmitAll(Heard(i.message))
    /\ inbox' = (inbox \ {i}) \union (IF acknowledged THEN {} ELSE Redelivered(i))
    /\ UNCHANGED <<socket, rooms, joins, published>>

\* RealtimeEmitterService and the handlers of the AI gateway send at once.
EmitToSession(m) ==
    /\ m \notin published /\ m.event = "reconcile"
    /\ Cardinality(published) < MaxMessages
    /\ published' = published \union {m}
    /\ EmitAll(Routes(m))
    /\ UNCHANGED <<socket, rooms, joins, inbox>>

\* The process dies: its sockets close, joins end, and the messages it had
\* been delivered come again while deliveries are left.
Crash == \E held \in SUBSET inbox :
    /\ \A i \in inbox : i.step = "routed" => i \in held
    /\ socket' = [s \in Sockets |-> IF s \in Open THEN Closed ELSE socket[s]]
    /\ rooms' = [s \in Sockets |-> {}]
    /\ joins' = {}
    /\ inbox' = (inbox \ held) \union UNION {Redelivered(i) : i \in held}
    /\ received' = [s \in Sockets |-> {}]
    /\ UNCHANGED published

-----------------------------------------------------------------------------
Next ==
    \/ \E s \in Sockets :
          \/ \E token \in Tokens : Connect(s, token)
          \/ Refuse(s)
          \/ Disconnect(s)
          \/ \E room \in Requested : JoinAtOnce(s, room) \/ JoinRoom(s, room) \/ LeaveRoom(s, room)
    \/ \E j \in joins : FindPipeline(j) \/ FindSession(j) \/ FindWorkflow(j) \/ QueryFails(j)
    \/ \E m \in Messages : Publish(m) \/ EmitToSession(m)
    \/ \E i \in inbox :
          \/ LookUpDocument(i) \/ LookUpFails(i)
          \/ \E acknowledged \in BOOLEAN : Forward(i, acknowledged)
    \/ Crash

Spec == Init /\ [][Next]_vars

-----------------------------------------------------------------------------
(* Properties                                                              *)

\* Whatever queries are on their way when a client leaves, disconnects or the
\* process dies, only open sockets are in rooms, and only in rooms of their
\* own user and organization; admin-health holds administrators' tokens.
RoomsAreAuthorized ==
    \A s \in Sockets : \A room \in rooms[s] :
        /\ s \in Open
        /\ room[1] = "user" => room[2] = socket[s].user
        /\ room[1] \in Scoped => room[2] = socket[s].org
        /\ room = AdminHealth => socket[s].admin

\* The state is well formed, and nobody is in a room it may not hear.
RoomsConsistent == TypeOK /\ RoomsAreAuthorized

\* A joinRoom handler carries the organization of its socket's token for as
\* long as the socket is open, and no socket opens a second time.
JoinsCarryTheToken ==
    \A j \in joins :
        /\ socket[j.socket] # New
        /\ j.socket \in Open => j.org = socket[j.socket].org

IInv == RoomsConsistent /\ JoinsCarryTheToken
=============================================================================
