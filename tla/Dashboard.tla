----------------------------- MODULE Dashboard -----------------------------
(***************************************************************************)
(* From the robots table to the screen: the broadcaster on the table's     *)
(* stream (websocket_broadcaster.py), the WebSocket routes                 *)
(* (websocket/handler.py), API Gateway between them and the dashboards,    *)
(* and the socket of a dashboard (useWebSocket.ts).  What the sockets see  *)
(* of one robot is a Feed; what the browser does with it is in             *)
(* DashboardPage.                                                          *)
(*                                                                         *)
(* What is said of a robot, in the table, its stream, a message or a       *)
(* cache, is the version of its item: how often telemetry_processor.py has *)
(* put it.  A dashboard is a browser that shows the page.  The messages on *)
(* their way when a socket closes are lost.  The scans of the two tables   *)
(* are eventually consistent: one may not see the latest writes.           *)
(***************************************************************************)
EXTENDS Integers, Sequences, SequencesExt

CONSTANTS
    Robots,
    Dashboards,
    Conns,        \* connection ids of API Gateway
    None,
    BatchSize,    \* batch_size of the event source mapping
    MaxVersion,   \* bound: puts of each robot's item
    MaxFailures   \* bound: failures of Lambda, DynamoDB and API Gateway

ASSUME DashboardNone == None \notin Conns
ASSUME BatchAssumption == BatchSize \in Nat \ {0}
ASSUME BoundsAssumption == MaxVersion \in Nat /\ MaxFailures \in Nat

VARIABLES
    version,       \* the robots table: the version of each item, 0 if there is none
    stream,        \* its stream: the records not yet broadcast
    failures,
    registered,    \* the connections table
    broadcast,     \* the broadcaster: the batch of stream records it works on
    subscription,  \* the subscribe_robot request of each connection
    socket,        \* each dashboard's socket
    wire,          \* the messages on their way to each dashboard
    sent,          \* history: the newest version of each item sent on the socket
    behind         \* history: the dashboards that a late scan has kept an update from

table == <<version, stream>>
server == <<registered, broadcast, subscription>>
browser == <<socket, wire, sent, behind>>
vars == <<table, failures, server, browser>>

Versions == [Robots -> 0..MaxVersion]
Nothing == [r \in Robots |-> 0]
NoBroadcast == [batch |-> 0, done |-> 0, targets |-> {}, left |-> {}, gone |-> {}]
NoSubscription == [at |-> "none", robots |-> Nothing]
NoSocket == [at |-> "waiting", conn |-> None]

Init ==
    /\ version = Nothing
    /\ stream = <<>>
    /\ failures = 0
    /\ registered = {}
    /\ broadcast = NoBroadcast
    /\ subscription = [c \in Conns |-> NoSubscription]
    /\ socket = [d \in Dashboards |-> NoSocket]
    /\ wire = [d \in Dashboards |-> <<>>]
    /\ sent = [d \in Dashboards |-> Nothing]
    /\ behind = {}

Fails == failures < MaxFailures /\ failures' = failures + 1

\* telemetry_processor.py: upsert_robot replaces the item, whatever reading it holds.
UpsertRobot(r) ==
    /\ version[r] < MaxVersion
    /\ version' = [version EXCEPT ![r] = @ + 1]
    /\ stream' = Append(stream, [robot |-> r, version |-> version'[r]])
    /\ UNCHANGED <<failures, server, browser>>

----------------------------------------------------------------------------
(* API Gateway.  It posts to a connection whose handshake is over and      *)
(* which has not closed; a post to any other is a GoneException.           *)

Open(c) == [at |-> "open", conn |-> c]
Reachable(c) == \E d \in Dashboards : socket[d] = Open(c)

\* A message is put on the wire to c, and tells c of the given versions; a dashboard that
\* has been told all there is is no longer behind.
Posted(c, msg, versions) ==
    \E d \in Dashboards :
        /\ socket[d] = Open(c)
        /\ wire' = [wire EXCEPT ![d] = Append(@, msg)]
        /\ sent' = [sent EXCEPT ![d] =
                       [r \in Robots |-> IF versions[r] > @[r] THEN versions[r] ELSE @[r]]]
        /\ behind' = IF sent'[d] = version THEN behind \ {d} ELSE behind

\* An id is never used again; the few ids of an instance are, once nobody knows them.
Unused(c) ==
    /\ \A d \in Dashboards : socket[d].conn # c
    /\ c \notin registered \cup broadcast.targets
    /\ subscription[c] = NoSubscription

----------------------------------------------------------------------------
(* websocket_broadcaster.py.  One batch is broadcast at a time, and again  *)
(* from its start if that fails.                                           *)

Broadcasting == broadcast.batch > 0
StreamAfter(k) == SubSeq(stream, k + 1, Len(stream))
BatchTo(k, conns) ==
    [batch |-> k, done |-> 0, targets |-> conns, left |-> conns, gone |-> {}]

\* What a scan may return: a connection just saved may be missing, and one whose item is
\* deleted still be there.  A closed one makes no difference: the post to it is refused.
Scannable == registered \cup {socket[d].conn : d \in {e \in Dashboards :
                                                     socket[e].at \in {"accepted", "open"}}}

\* The dashboards to which this batch does not go although they are open and registered,
\* and which it leaves behind: neither has their socket been sent all there is, nor is the
\* table still to be read for it.
Overlooked(conns) ==
    {d \in Dashboards : /\ sent[d] # version
                        /\ \E c \in registered \ conns :
                              socket[d] = Open(c) /\ subscription[c].at # "sent"}

\* Mutant: the newest record first.
BeginWithNewest(k, conns) ==
    /\ ~Broadcasting
    /\ k <= Len(stream) /\ conns # {}
    /\ broadcast' = BatchTo(k, conns)
    /\ stream' = Reverse(SubSeq(stream, 1, k)) \o StreamAfter(k)
    /\ behind' = behind \cup Overlooked(conns)
    /\ UNCHANGED <<version, failures, registered, subscription, socket, wire, sent>>

\* The connections are read once for the batch: conns is what the scan has returned.
BeginBroadcast(k, conns) ==
    /\ ~Broadcasting
    /\ k <= Len(stream)
    /\ IF conns = {}
         THEN stream' = StreamAfter(k) /\ UNCHANGED broadcast
         ELSE broadcast' = BatchTo(k, conns) /\ UNCHANGED stream
    /\ behind' = behind \cup Overlooked(conns)
    /\ UNCHANGED <<version, failures, registered, subscription, socket, wire, sent>>

Record == stream[broadcast.done + 1]
RobotUpdate(rec) ==
    [type |-> "robot_update", robot |-> rec.robot, version |-> rec.version]

PostUpdate(c) ==
    /\ c \in broadcast.left
    /\ \/ /\ Posted(c, RobotUpdate(Record), [Nothing EXCEPT ![Record.robot] = Record.version])
          /\ broadcast' = [broadcast EXCEPT !.left = @ \ {c}]
       \/ /\ ~Reachable(c)
          /\ broadcast' = [broadcast EXCEPT !.left = @ \ {c}, !.gone = @ \cup {c}]
          /\ UNCHANGED <<wire, sent, behind>>
    /\ UNCHANGED <<table, failures, registered, subscription, socket>>

\* Any other exception of a post is logged.
PostUpdateFails(c) ==
    /\ c \in broadcast.left
    /\ Fails
    /\ broadcast' = [broadcast EXCEPT !.left = @ \ {c}]
    /\ UNCHANGED <<table, registered, subscription, browser>>

\* Mutant: a record leaves the stream when its turn ends, and again with its batch.
EndRecordTwice ==
    /\ Broadcasting /\ broadcast.left = {}
    /\ registered' = registered \ broadcast.gone
    /\ IF broadcast.done + 1 = broadcast.batch
         THEN broadcast' = NoBroadcast /\ stream' = StreamAfter(broadcast.batch)
         ELSE /\ broadcast' = [broadcast EXCEPT !.done = @ + 1, !.gone = {},
                                                !.left = broadcast.targets]
              /\ stream' = StreamAfter(1)
    /\ UNCHANGED <<version, failures, subscription, browser>>

\* Mutant: the loop over the records returns after the first one.
EndBatch ==
    /\ Broadcasting /\ broadcast.left = {}
    /\ registered' = registered \ broadcast.gone
    /\ broadcast' = NoBroadcast
    /\ stream' = StreamAfter(broadcast.batch)
    /\ UNCHANGED <<version, failures, subscription, browser>>

\* The connections that are gone are deleted; then the next record, to all again.
EndRecord ==
    /\ Broadcasting /\ broadcast.left = {}
    /\ registered' = registered \ broadcast.gone
    /\ IF broadcast.done + 1 = broadcast.batch
         THEN broadcast' = NoBroadcast /\ stream' = StreamAfter(broadcast.batch)
         ELSE /\ broadcast' = [broadcast EXCEPT !.done = @ + 1, !.gone = {},
                                                !.left = broadcast.targets]
              /\ UNCHANGED stream
    /\ UNCHANGED <<version, failures, subscription, browser>>

BroadcastFails ==
    /\ Broadcasting
    /\ Fails
    /\ broadcast' = NoBroadcast
    /\ UNCHANGED <<table, registered, subscription, browser>>

Broadcast ==
    \/ \E k \in 1..BatchSize, conns \in SUBSET Scannable : BeginBroadcast(k, conns)
    \/ \E c \in Conns : PostUpdate(c)
    \/ EndRecord

----------------------------------------------------------------------------
(* handler.py.                                                             *)

\* _on_connect; API Gateway ends the handshake when it has returned.
OnConnect(d) ==
    /\ socket[d].at = "connecting"
    /\ registered' = registered \cup {socket[d].conn}
    /\ socket' = [socket EXCEPT ![d].at = "accepted"]
    /\ UNCHANGED <<table, failures, broadcast, subscription, wire, sent, behind>>

\* _on_disconnect, some time after the connection has closed, if API Gateway calls it.
OnDisconnect(c) ==
    /\ c \in registered
    /\ \A d \in Dashboards : socket[d].conn # c
    /\ registered' = registered \ {c}
    /\ UNCHANGED <<table, failures, broadcast, subscription, browser>>

\* An hour after it was saved DynamoDB deletes the item, also of an open connection; no
\* handshake takes that long.
ExpireConnection(c) ==
    /\ c \in registered
    /\ \A d \in Dashboards : socket[d] # [at |-> "accepted", conn |-> c]
    /\ registered' = registered \ {c}
    /\ UNCHANGED <<table, failures, broadcast, subscription, browser>>

\* What a scan may return of the robots: of each item a version that it has had.
Readable == {robots \in Versions : \A r \in Robots : robots[r] <= version[r]}

\* _send_current_state reads the table, ...
ReadRobots(c, robots) ==
    /\ subscription[c].at = "sent"
    /\ subscription' = [subscription EXCEPT ![c] = [at |-> "read", robots |-> robots]]
    /\ behind' = behind \cup {d \in Dashboards :
                              socket[d] = Open(c) /\ sent[d] # version /\ robots # version}
    /\ UNCHANGED <<table, failures, registered, broadcast, socket, wire, sent>>

ReadState(c) == \E robots \in Readable : ReadRobots(c, robots)

\* ... and posts what it has read, whatever was broadcast meanwhile.
PostState(c) ==
    LET robots == subscription[c].robots
    IN  /\ subscription[c].at = "read"
        /\ subscription' = [subscription EXCEPT ![c] = NoSubscription]
        /\ \/ /\ Posted(c, [type |-> "initial_state", robots |-> robots], robots)
              /\ UNCHANGED registered
           \/ /\ ~Reachable(c)
              /\ registered' = registered \ {c}
              /\ UNCHANGED <<wire, sent, behind>>
        /\ UNCHANGED <<table, failures, broadcast, socket>>

\* Any other exception is logged, and the client gets no state.
SubscribeFails(c) ==
    /\ subscription[c].at # "none"
    /\ Fails
    /\ subscription' = [subscription EXCEPT ![c] = NoSubscription]
    /\ UNCHANGED <<table, registered, broadcast, browser>>

----------------------------------------------------------------------------
(* The hooks of a dashboard.                                               *)

\* connect, at first and when the timer of a closed socket has run out.
Connect(d) ==
    /\ socket[d] = NoSocket
    /\ \E c \in Conns :
          /\ Unused(c) /\ c = CHOOSE x \in Conns : Unused(x)
          /\ socket' = [socket EXCEPT ![d] = [at |-> "connecting", conn |-> c]]
    /\ UNCHANGED <<table, failures, server, wire, sent, behind>>

\* Mutant: nothing is sent.
OnOpenSilent(d) ==
    /\ socket[d].at = "accepted"
    /\ socket' = [socket EXCEPT ![d].at = "open"]
    /\ UNCHANGED <<table, failures, server, wire, sent, behind>>

\* onopen sends subscribe_robot.
OnOpen(d) ==
    /\ socket[d].at = "accepted"
    /\ socket' = [socket EXCEPT ![d].at = "open"]
    /\ subscription' = [subscription EXCEPT ![socket[d].conn].at = "sent"]
    /\ UNCHANGED <<table, failures, registered, broadcast, wire, sent, behind>>

\* onmessage takes up what reaches the browser.
OnMessage(d) ==
    /\ wire[d] # <<>>
    /\ wire' = [wire EXCEPT ![d] = Tail(@)]
    /\ UNCHANGED <<table, failures, server, socket, sent, behind>>

\* Mutant: no timer is set.
OnCloseForGood(d) ==
    /\ socket[d].conn # None
    /\ socket' = [socket EXCEPT ![d] = [at |-> "closed", conn |-> None]]
    /\ wire' = [wire EXCEPT ![d] = <<>>]
    /\ sent' = [sent EXCEPT ![d] = Nothing]
    /\ behind' = behind \ {d}
    /\ UNCHANGED <<table, failures, server>>

\* Mutant: what is still on its way reaches the page through the next socket.
OnCloseDelivers(d) ==
    /\ socket[d].conn # None
    /\ socket' = [socket EXCEPT ![d] = NoSocket]
    /\ sent' = [sent EXCEPT ![d] = Nothing]
    /\ behind' = behind \ {d}
    /\ UNCHANGED <<table, failures, server, wire>>

\* The network, an error, ten idle minutes or two hours of age close the socket, and
\* onclose sets the timer.
OnClose(d) ==
    /\ socket[d].conn # None
    /\ socket' = [socket EXCEPT ![d] = NoSocket]
    /\ wire' = [wire EXCEPT ![d] = <<>>]
    /\ sent' = [sent EXCEPT ![d] = Nothing]
    /\ behind' = behind \ {d}
    /\ UNCHANGED <<table, failures, server>>

Next ==
    \/ \E r \in Robots : UpsertRobot(r)
    \/ Broadcast \/ BroadcastFails
    \/ \E c \in Conns :
          \/ PostUpdateFails(c) \/ ReadState(c) \/ PostState(c) \/ SubscribeFails(c)
          \/ OnDisconnect(c) \/ ExpireConnection(c)
    \/ \E d \in Dashboards :
          \/ Connect(d) \/ OnConnect(d) \/ OnOpen(d) \/ OnMessage(d) \/ OnClose(d)

Spec == Init /\ [][Next]_vars

\* Of what is due at Lambda and DynamoDB something is done in the end.  API Gateway closes
\* every connection, but not each before it has been served, and not each time that the
\* scan for its state has returned what there is.
Due == Broadcast \/ \E c \in Conns : ReadState(c) \/ PostState(c) \/ ExpireConnection(c)
FairSpec ==
    /\ Spec
    /\ WF_vars(Due)
    /\ \A d \in Dashboards :
          /\ WF_vars(Connect(d) \/ OnClose(d))
          /\ SF_vars(OnConnect(d)) /\ SF_vars(OnOpen(d))
          /\ SF_vars(\E c \in Conns : socket[d] = Open(c) /\ ReadRobots(c, version))
          /\ SF_vars(\E c \in Conns : socket[d] = Open(c) /\ subscription[c].robots = version
                                                        /\ PostState(c))

----------------------------------------------------------------------------
(* Properties.                                                             *)

Records == [robot : Robots, version : 1..MaxVersion]
Messages == [type : {"initial_state"}, robots : Versions]
              \cup [type : {"robot_update"}, robot : Robots, version : 1..MaxVersion]

TypeOK ==
    /\ version \in Versions
    /\ stream \in Seq(Records)
    /\ failures \in 0..MaxFailures
    /\ registered \subseteq Conns
    /\ broadcast \in [batch : 0..BatchSize, done : Nat, targets : SUBSET Conns,
                      left : SUBSET Conns, gone : SUBSET Conns]
    /\ broadcast.batch <= Len(stream)
    /\ Broadcasting => broadcast.done < broadcast.batch
    /\ subscription \in [Conns -> [at : {"none", "sent", "read"}, robots : Versions]]
    /\ socket \in [Dashboards -> [at : {"waiting", "connecting", "accepted", "open"},
                                  conn : Conns \cup {None}]]
    /\ wire \in [Dashboards -> Seq(Messages)]
    /\ sent \in [Dashboards -> Versions]
    /\ behind \subseteq Dashboards

\* A dashboard is told of a robot's updates in the order in which the table took them,
\* unless a batch had to be broadcast again.
OfSameRobot(m, n) ==
    m.type = "robot_update" /\ n.type = "robot_update" /\ m.robot = n.robot
WireInOrder ==
    failures = 0 =>
        \A d \in Dashboards : \A i, j \in 1..Len(wire[d]) :
            i < j /\ OfSameRobot(wire[d][i], wire[d][j])
                => wire[d][i].version < wire[d][j].version

\* The newest version of r's item has its record in the stream; one that is being
\* broadcast counts only if c is among the receivers and has not had its turn.
Coming(c, r) ==
    \E k \in 1..Len(stream) :
        /\ stream[k] = [robot |-> r, version |-> version[r]]
        /\ k > broadcast.done
        /\ k <= broadcast.batch => c \in broadcast.targets
        /\ Broadcasting /\ k = broadcast.done + 1 => c \in broadcast.left

\* A dashboard that is registered and has been sent its state misses nothing, however the
\* state and the broadcasts run into each other: what the state did not contain comes with
\* a broadcast.  Only a scan that does not see what was written before it, the scan of the
\* robots for its state or a later one of the connections, can leave it behind, and that
\* only until it has been told of the newest versions after all.
NothingMissed ==
    failures = 0 =>
        \A d \in Dashboards \ behind, c \in registered, r \in Robots :
            socket[d] = Open(c) /\ subscription[c].at = "none" =>
                sent[d][r] = version[r] \/ Coming(c, r)

\* While nothing fails a dashboard is told in order, whatever the scans have seen, and of
\* everything that no late scan has kept from it.
WellInformed == WireInOrder /\ NothingMissed

\* A dashboard is heard of again and again: whether its socket closed, its item expired,
\* or a broadcast met it before its handshake was over and deleted it.
Listens(d) == socket[d].at = "open" /\ socket[d].conn \in registered
ListensAgain == \A d \in Dashboards : []<>Listens(d)

\* Once the robots are quiet every dashboard is told again and again what the table says:
\* what a failed post, an expired item, a late scan or a broadcast that met its handshake
\* has kept from it comes with the state that a later socket is sent.
QuietIsSent == \A d \in Dashboards : []<>(sent[d] = version)

----------------------------------------------------------------------------
(* Refinement: to the sockets of one robot the whole is the Feed that      *)
(* DashboardPage counts on.                                                *)

\* All of r's puts after v, and no earlier one, are behind position k of the stream.
LeftAfter(r, k, v) ==
    /\ \A l \in (k + 1)..Len(stream) : stream[l].robot = r => stream[l].version > v
    /\ v = version[r] \/ \E l \in (k + 1)..Len(stream) :
                             stream[l] = [robot |-> r, version |-> v + 1]

\* The newest put of r that the broadcaster has come to.
Turn == IF Broadcasting THEN broadcast.done + 1 ELSE 0
Reached(r) == CHOOSE v \in 0..version[r] : LeftAfter(r, Turn, v)

\* What a message says of r.
SaysOf(r, m) ==
    CASE m.type = "initial_state" -> [type |-> m.type, version |-> m.robots[r]]
      [] m.type = "robot_update" /\ m.robot = r -> [type |-> m.type, version |-> m.version]
      [] OTHER -> [type |-> "other", version |-> 0]

Seen(r, messages) == [i \in 1..Len(messages) |-> SaysOf(r, messages[i])]

SocketOf(d) == IF socket[d].at = "accepted" THEN "connecting" ELSE socket[d].at

\* Only the request of an open socket can still be answered.
RequestOf(r, d) ==
    LET request == subscription[socket[d].conn]
    IN  IF socket[d].at = "open" THEN [at |-> request.at, version |-> request.robots[r]]
                                 ELSE [at |-> "none", version |-> 0]

FeedOf(r) == INSTANCE Feed WITH
    Hooks   <- Dashboards,
    version <- version[r],
    stream  <- Reached(r),
    socket  <- [d \in Dashboards |-> SocketOf(d)],
    request <- [d \in Dashboards |-> RequestOf(r, d)],
    wire    <- [d \in Dashboards |-> Seen(r, wire[d])]

\* To the sockets of any one robot the broadcaster, the routes and API Gateway are a Feed:
\* an update says where the broadcaster has got to with that robot, a state what was read
\* after the socket had opened, and nothing of an earlier socket reaches a later one.
ImplementsFeed ==
    /\ \A r \in Robots : FeedOf(r)!FeedInit
    /\ [][\A r \in Robots : [FeedOf(r)!FeedNext]_(FeedOf(r)!feed)]_vars
=============================================================================
