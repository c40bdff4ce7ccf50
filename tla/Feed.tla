-------------------------------- MODULE Feed ---------------------------------
(***************************************************************************)
(* What a socket of the dashboard may see of one robot: the specification  *)
(* that the broadcaster, the WebSocket routes and API Gateway implement    *)
(* together (Dashboard), and the one server that DashboardPage counts on.  *)
(*                                                                         *)
(* The robot's item is a number that grows with every put that changes it. *)
(* Updates come from the table's stream, behind the table and again when a *)
(* batch has failed; states are read from the table, which may answer with *)
(* any earlier one, and posted later.  No post has to happen, but a socket *)
(* delivers what it carries in its order, and nothing that was posted to   *)
(* another.                                                                *)
(***************************************************************************)
EXTENDS Naturals, Sequences

CONSTANT Hooks   \* useWebSocket: each has one socket at a time

VARIABLES
    version,   \* the robots table
    stream,    \* the newest put that the broadcaster has come to
    socket,    \* the socket, or the timer, of each hook
    request,   \* its subscribe_robot: "none", "sent", or "read" with what was read
    wire       \* the messages on their way on each socket

feed == <<version, stream, socket, request, wire>>

NoRequest == [at |-> "none", version |-> 0]

FeedInit ==
    /\ version = 0 /\ stream = 0
    /\ socket \in [Hooks -> {"none", "waiting"}]
    /\ request = [h \in Hooks |-> NoRequest]
    /\ wire = [h \in Hooks |-> <<>>]

----------------------------------------------------------------------------
(* The server.                                                             *)

Change ==
    /\ version' = version + 1
    /\ UNCHANGED <<stream, socket, request, wire>>

\* Mutant: a record counts twice.
BroadcastTwice ==
    /\ stream < version
    /\ stream' = stream + 2
    /\ UNCHANGED <<version, socket, request, wire>>

\* A batch that finds no connection is over at once, however many records it has.
Broadcast ==
    /\ stream < version
    /\ stream' \in (stream + 1)..version
    /\ UNCHANGED <<version, socket, request, wire>>

\* A batch that has failed is broadcast again.
RepeatBatch ==
    /\ stream' \in 0..stream
    /\ UNCHANGED <<version, socket, request, wire>>

Post(h, type, v) ==
    /\ socket[h] = "open"
    /\ wire' = [wire EXCEPT ![h] = Append(@, [type |-> type, version |-> v])]

PostUpdate(h) ==
    /\ Post(h, "robot_update", stream)
    /\ UNCHANGED <<version, stream, socket, request>>

\* An update of another robot.
PostOther(h) ==
    /\ Post(h, "other", 0)
    /\ UNCHANGED <<version, stream, socket, request>>

\* _send_current_state reads, perhaps an item that has been replaced since, ...
ReadState(h) ==
    /\ request[h].at = "sent"
    /\ \E v \in 0..version : request' = [request EXCEPT ![h] = [at |-> "read", version |-> v]]
    /\ UNCHANGED <<version, stream, socket, wire>>

\* ... and posts what it has read.
PostState(h) ==
    /\ request[h].at = "read"
    /\ Post(h, "initial_state", request[h].version)
    /\ request' = [request EXCEPT ![h] = NoRequest]
    /\ UNCHANGED <<version, stream, socket>>

RequestFails(h) ==
    /\ request[h].at # "none"
    /\ request' = [request EXCEPT ![h] = NoRequest]
    /\ UNCHANGED <<version, stream, socket, wire>>

----------------------------------------------------------------------------
(* The sockets.                                                            *)

Connect(h) ==
    /\ socket[h] \in {"none", "waiting"}
    /\ socket' = [socket EXCEPT ![h] = "connecting"]
    /\ UNCHANGED <<version, stream, request, wire>>

\* Mutant: no subscribe_robot is sent.
OpenSilent(h) ==
    /\ socket[h] = "connecting"
    /\ socket' = [socket EXCEPT ![h] = "open"]
    /\ UNCHANGED <<version, stream, request, wire>>

\* onopen sends subscribe_robot.
Open(h) ==
    /\ socket[h] = "connecting"
    /\ socket' = [socket EXCEPT ![h] = "open"]
    /\ request' = [request EXCEPT ![h].at = "sent"]
    /\ UNCHANGED <<version, stream, wire>>

Deliver(h) ==
    /\ wire[h] # <<>>
    /\ wire' = [wire EXCEPT ![h] = Tail(@)]
    /\ UNCHANGED <<version, stream, socket, request>>

\* What is on its way is lost, and nobody is answered.
Close(h) ==
    /\ socket[h] \notin {"none", "waiting"}
    /\ socket' = [socket EXCEPT ![h] = "waiting"]
    /\ wire' = [wire EXCEPT ![h] = <<>>]
    /\ request' = [request EXCEPT ![h] = NoRequest]
    /\ UNCHANGED <<version, stream>>

FeedNext ==
    \/ Change \/ Broadcast \/ RepeatBatch
    \/ \E h \in Hooks :
          \/ PostUpdate(h) \/ PostOther(h) \/ ReadState(h) \/ PostState(h) \/ RequestFails(h)
          \/ Connect(h) \/ Open(h) \/ Deliver(h) \/ Close(h)

FeedSpec == FeedInit /\ [][FeedNext]_feed
=============================================================================
