-------------------------- MODULE DashboardProofs --------------------------
(***************************************************************************)
(* For any number of robots, dashboards, connections and versions, and any *)
(* batch size: Dashboard is type correct and, while no post, read or batch *)
(* fails, a dashboard is told of a robot's updates in their order, however *)
(* late the scans are, and misses none that a late scan has not kept from  *)
(* it.  With failures and all, it implements Feed.                         *)
(*                                                                         *)
(* The order on the wire rests on that of the stream: what a dashboard has *)
(* been told is older than every record that it has not had.  That it      *)
(* misses none rests on what is in between: a version that was put after   *)
(* the table was read for the dashboard's state is in the stream, or its   *)
(* record has been posted already, unless that read, or the scan for the   *)
(* batch of the record, was late.  That the whole is a Feed rests on the   *)
(* stream having no gaps: wherever it is cut, the puts before the cut and  *)
(* the records behind it meet.                                             *)
(***************************************************************************)
EXTENDS Dashboard, SequenceTheorems, TLAPS

\* Between two batches nothing of the last one is left.
BatchInStep ==
    /\ ~Broadcasting => broadcast = NoBroadcast
    /\ broadcast.left \subseteq broadcast.targets

\* A connection belongs to one dashboard, from its handshake until it closes.
OneOwner ==
    \A d, e \in Dashboards :
        socket[d].conn = socket[e].conn /\ socket[d].conn # None => d = e

\* Nothing anywhere is newer than the table.
StreamKnown == \A k \in 1..Len(stream) : stream[k].version <= version[stream[k].robot]
ReadKnown == \A c \in Conns, r \in Robots : subscription[c].robots[r] <= version[r]
SentKnown == \A d \in Dashboards, r \in Robots : sent[d][r] <= version[r]
WireKnown ==
    \A d \in Dashboards : \A i \in 1..Len(wire[d]) :
        wire[d][i].type = "robot_update" => wire[d][i].version <= version[wire[d][i].robot]

\* The stream has the puts of an item in their order.
StreamInOrder ==
    \A k, l \in 1..Len(stream) :
        k < l /\ stream[k].robot = stream[l].robot => stream[k].version < stream[l].version

\* Record k of the stream has had its turn with d in this batch.
Passed(d, k) ==
    \/ k <= broadcast.done
    \/ Broadcasting /\ k = broadcast.done + 1 /\ socket[d].conn \notin broadcast.left

\* An update on the wire is older than the records that are still to come.
WireBehind ==
    failures = 0 =>
        \A d \in Dashboards : \A i \in 1..Len(wire[d]), k \in 1..Len(stream) :
            /\ wire[d][i].type = "robot_update"
            /\ wire[d][i].robot = stream[k].robot
            /\ ~Passed(d, k)
            => wire[d][i].version < stream[k].version

\* NothingMissed, and what holds of a connection whose state has been read and not yet been
\* posted: the newest version is in it, has been sent, or comes with a broadcast.
Informed(d, c, r) ==
    \/ sent[d][r] = version[r]
    \/ Coming(c, r)
    \/ subscription[c].at = "read" /\ subscription[c].robots[r] = version[r]
Told ==
    failures = 0 =>
        \A d \in Dashboards \ behind, c \in registered, r \in Robots :
            socket[d] = Open(c) /\ subscription[c].at # "sent" => Informed(d, c, r)

Known == StreamKnown /\ ReadKnown /\ SentKnown /\ WireKnown
IInv == Known /\ StreamInOrder /\ WireBehind /\ WireInOrder /\ OneOwner /\ Told
----------------------------------------------------------------------------
Assumptions ==
    /\ None \notin Conns
    /\ BatchSize \in Nat \ {0} /\ MaxVersion \in Nat /\ MaxFailures \in Nat

LEMMA Assumed == Assumptions
BY DashboardNone, BatchAssumption, BoundsAssumption DEF Assumptions

Batches ==
    [batch : 0..BatchSize, done : Nat, targets : SUBSET Conns, left : SUBSET Conns,
     gone : SUBSET Conns]
Subscriptions == [at : {"none", "sent", "read"}, robots : Versions]
Sockets ==
    {NoSocket} \cup [at : {"connecting", "accepted", "open"}, conn : Conns]

\* The types of TypeOK, with what is between two batches and two sockets.
Typed ==
    /\ version \in Versions
    /\ stream \in Seq(Records)
    /\ failures \in 0..MaxFailures
    /\ registered \subseteq Conns
    /\ broadcast \in Batches
    /\ broadcast.batch <= Len(stream)
    /\ Broadcasting => broadcast.done < broadcast.batch
    /\ BatchInStep
    /\ subscription \in [Conns -> Subscriptions]
    /\ socket \in [Dashboards -> Sockets]
    /\ wire \in [Dashboards -> Seq(Messages)]
    /\ sent \in [Dashboards -> Versions]

\* A record and a message are of a robot, or of them all, and of versions of theirs.
LEMMA DataFacts ==
    /\ Nothing \in Versions
    /\ \A f \in Versions, r \in Robots : f[r] \in Nat /\ f[r] <= MaxVersion
    /\ \A f \in Versions, r \in Robots, v \in 0..MaxVersion : [f EXCEPT ![r] = v] \in Versions
    /\ \A rec \in Records : /\ rec.robot \in Robots /\ rec.version \in 1..MaxVersion
                            /\ rec = [robot |-> rec.robot, version |-> rec.version]
                            /\ RobotUpdate(rec) \in Messages
                            /\ RobotUpdate(rec).type = "robot_update"
                            /\ RobotUpdate(rec).robot = rec.robot
                            /\ RobotUpdate(rec).version = rec.version
    /\ \A m \in Messages : m.type = "robot_update" =>
          m.robot \in Robots /\ m.version \in 1..MaxVersion
    /\ \A f \in Versions : /\ [type |-> "initial_state", robots |-> f] \in Messages
                           /\ [type |-> "initial_state", robots |-> f].type = "initial_state"
<1>1. Nothing \in Versions
  BY Assumed DEF Assumptions, Nothing, Versions
<1>2. \A f \in Versions, r \in Robots : f[r] \in Nat /\ f[r] <= MaxVersion
  BY Assumed DEF Assumptions, Versions
<1>3. \A f \in Versions, r \in Robots, v \in 0..MaxVersion : [f EXCEPT ![r] = v] \in Versions
  BY DEF Versions
<1>4. ASSUME NEW rec \in Records
      PROVE  /\ rec.robot \in Robots /\ rec.version \in 1..MaxVersion
             /\ rec = [robot |-> rec.robot, version |-> rec.version]
             /\ RobotUpdate(rec) \in Messages
             /\ RobotUpdate(rec).type = "robot_update"
             /\ RobotUpdate(rec).robot = rec.robot
             /\ RobotUpdate(rec).version = rec.version
  BY DEF Records, RobotUpdate, Messages
<1>5. \A m \in Messages : m.type = "robot_update" =>
          m.robot \in Robots /\ m.version \in 1..MaxVersion
  BY DEF Messages
<1>6. \A f \in Versions : /\ [type |-> "initial_state", robots |-> f] \in Messages
                          /\ [type |-> "initial_state", robots |-> f].type = "initial_state"
  BY DEF Messages
<1>7. QED
  BY <1>1, <1>2, <1>3, <1>4, <1>5, <1>6

\* What is left of the stream when its first k records are gone.
LEMMA StreamAfterFacts ==
    ASSUME stream \in Seq(Records), NEW k \in Nat, k <= Len(stream)
    PROVE  /\ StreamAfter(k) \in Seq(Records)
           /\ Len(StreamAfter(k)) = Len(stream) - k
           /\ \A i \in 1..(Len(stream) - k) : StreamAfter(k)[i] = stream[k + i]
BY DEF StreamAfter

\* A sequence with an element more.
LEMMA AppendFacts ==
    ASSUME NEW S, NEW s \in Seq(S), NEW e \in S
    PROVE  /\ Append(s, e) \in Seq(S)
           /\ Len(s) \in Nat /\ Len(Append(s, e)) = Len(s) + 1
           /\ \A i \in 1..Len(s) : Append(s, e)[i] = s[i]
           /\ Append(s, e)[Len(s) + 1] = e
OBVIOUS

LEMMA TailFacts ==
    ASSUME NEW S, NEW s \in Seq(S), s # <<>>
    PROVE  /\ Tail(s) \in Seq(S)
           /\ Len(s) \in Nat /\ Len(s) > 0 /\ Len(Tail(s)) = Len(s) - 1
           /\ \A i \in 1..(Len(s) - 1) : Tail(s)[i] = s[i + 1]
OBVIOUS

\* A post reaches one dashboard, the owner of the connection, and what that dashboard has
\* been told grows by the posted versions.
Reaches(d, c, msg, f) ==
    /\ socket[d] = Open(c)
    /\ wire'[d] = Append(wire[d], msg)
    /\ \A r \in Robots : sent'[d][r] = IF f[r] > sent[d][r] THEN f[r] ELSE sent[d][r]
    /\ \A e \in Dashboards \ {d} : wire'[e] = wire[e] /\ sent'[e] = sent[e]

LEMMA PostedFacts ==
    ASSUME Typed, NEW c, NEW msg \in Messages, NEW f \in Versions, Posted(c, msg, f)
    PROVE  /\ wire' \in [Dashboards -> Seq(Messages)] /\ sent' \in [Dashboards -> Versions]
           /\ \E d \in Dashboards : Reaches(d, c, msg, f)
<1>1. PICK d \in Dashboards :
         /\ socket[d] = Open(c)
         /\ wire' = [wire EXCEPT ![d] = Append(@, msg)]
         /\ sent' = [sent EXCEPT ![d] = [r \in Robots |-> IF f[r] > @[r] THEN f[r] ELSE @[r]]]
  BY DEF Posted
<1> DEFINE told == [r \in Robots |-> IF f[r] > sent[d][r] THEN f[r] ELSE sent[d][r]]
<1>2. told \in Versions
  BY DEF Typed, Versions
<1>3. sent' = [sent EXCEPT ![d] = told]
  BY <1>1
<1>4. \A r \in Robots : told[r] = IF f[r] > sent[d][r] THEN f[r] ELSE sent[d][r]
  OBVIOUS
<1> HIDE DEF told
<1>5. Append(wire[d], msg) \in Seq(Messages)
  BY AppendFacts DEF Typed
<1>6. /\ wire' \in [Dashboards -> Seq(Messages)] /\ sent' \in [Dashboards -> Versions]
      /\ wire'[d] = Append(wire[d], msg) /\ sent'[d] = told
      /\ \A e \in Dashboards \ {d} : wire'[e] = wire[e] /\ sent'[e] = sent[e]
  BY <1>1, <1>2, <1>3, <1>5 DEF Typed
<1>7. QED
  BY <1>1, <1>4, <1>6 DEF Reaches

LEMMA BatchFacts ==
    ASSUME Typed
    PROVE  /\ broadcast.batch \in Nat /\ broadcast.batch <= BatchSize
           /\ broadcast.done \in Nat /\ Len(stream) \in Nat
           /\ broadcast.targets \subseteq Conns /\ broadcast.left \subseteq Conns
           /\ broadcast.left \subseteq broadcast.targets
           /\ ~Broadcasting => broadcast.done = 0 /\ broadcast.left = {} /\ broadcast.batch = 0
           /\ NoBroadcast \in Batches /\ NoBroadcast.batch = 0 /\ NoBroadcast.done = 0
           /\ NoBroadcast.left = {} /\ NoBroadcast.targets = {}
           /\ Broadcasting => /\ broadcast.done + 1 \in 1..Len(stream)
                              /\ broadcast.done + 1 <= broadcast.batch
                              /\ Record = stream[broadcast.done + 1]
                              /\ Record \in Records
<1>1. /\ broadcast.batch \in Nat /\ broadcast.batch <= BatchSize
      /\ broadcast.done \in Nat /\ Len(stream) \in Nat
      /\ broadcast.targets \subseteq Conns /\ broadcast.left \subseteq Conns
      /\ broadcast.left \subseteq broadcast.targets
  BY Assumed DEF Assumptions, Typed, Batches, BatchInStep
<1>2. /\ NoBroadcast \in Batches /\ NoBroadcast.batch = 0 /\ NoBroadcast.done = 0
      /\ NoBroadcast.left = {} /\ NoBroadcast.targets = {}
  BY Assumed DEF Assumptions, NoBroadcast, Batches
<1>3. ~Broadcasting => broadcast.done = 0 /\ broadcast.left = {} /\ broadcast.batch = 0
  BY <1>2 DEF Typed, BatchInStep
<1>4. Broadcasting => /\ broadcast.done + 1 \in 1..Len(stream)
                      /\ broadcast.done + 1 <= broadcast.batch
                      /\ Record = stream[broadcast.done + 1]
                      /\ Record \in Records
  BY <1>1 DEF Typed, Record
<1>5. QED
  BY <1>1, <1>2, <1>3, <1>4
\* A socket has a connection unless it waits for the next, through its whole life.
LEMMA SocketFacts ==
    ASSUME NEW s \in Sockets
    PROVE  /\ s # NoSocket => s.conn \in Conns /\ s.conn # None
           /\ NoSocket.at = "waiting" /\ NoSocket.conn = None
           /\ s.at # "waiting" => s # NoSocket
           /\ \A c : s = Open(c) <=> s.at = "open" /\ s.conn = c
           /\ \A a \in {"accepted", "open"} : s # NoSocket =>
                 /\ [s EXCEPT !.at = a] \in Sockets
                 /\ [s EXCEPT !.at = a].at = a /\ [s EXCEPT !.at = a].conn = s.conn
           /\ \A c \in Conns : [at |-> "connecting", conn |-> c] \in Sockets
BY Assumed DEF Assumptions, Sockets, NoSocket, Open

\* Where a batch begins: whatever the scan has returned, it is about connections.
LEMMA ScannableFacts == Typed => Scannable \subseteq Conns
<1> SUFFICES ASSUME Typed, NEW d \in Dashboards, socket[d].at \in {"accepted", "open"}
             PROVE  socket[d].conn \in Conns
  BY DEF Typed, Scannable
<1>1. socket[d] \in Sockets
  BY DEF Typed
<1>2. QED
  BY <1>1, SocketFacts

LEMMA BatchBegins ==
    ASSUME Typed, NEW k \in 1..BatchSize, NEW conns \in SUBSET Scannable
    PROVE  /\ BatchTo(k, conns) \in Batches
           /\ BatchTo(k, conns).batch = k /\ BatchTo(k, conns).done = 0
           /\ BatchTo(k, conns).left = conns /\ BatchTo(k, conns).targets = conns
BY ScannableFacts, Assumed DEF BatchTo, Assumptions, Batches

\* The broadcaster's next places.
LEMMA BatchMoves ==
    ASSUME Typed
    PROVE  /\ \A c \in Conns :
                 \A b \in {[broadcast EXCEPT !.left = @ \ {c}],
                           [broadcast EXCEPT !.left = @ \ {c}, !.gone = @ \cup {c}]} :
                     /\ b \in Batches
                     /\ b.batch = broadcast.batch /\ b.done = broadcast.done
                     /\ b.left = broadcast.left \ {c} /\ b.targets = broadcast.targets
           /\ LET b == [broadcast EXCEPT !.done = @ + 1, !.gone = {}, !.left = broadcast.targets]
              IN  /\ b \in Batches
                  /\ b.batch = broadcast.batch /\ b.done = broadcast.done + 1
                  /\ b.left = broadcast.targets /\ b.targets = broadcast.targets
<1> USE DEF Typed, Batches
<1>1. ASSUME NEW c \in Conns,
             NEW b \in {[broadcast EXCEPT !.left = @ \ {c}],
                        [broadcast EXCEPT !.left = @ \ {c}, !.gone = @ \cup {c}]}
      PROVE  /\ b \in Batches
             /\ b.batch = broadcast.batch /\ b.done = broadcast.done
             /\ b.left = broadcast.left \ {c} /\ b.targets = broadcast.targets
  OBVIOUS
<1>2. LET b == [broadcast EXCEPT !.done = @ + 1, !.gone = {}, !.left = broadcast.targets]
      IN  /\ b \in Batches
          /\ b.batch = broadcast.batch /\ b.done = broadcast.done + 1
          /\ b.left = broadcast.targets /\ b.targets = broadcast.targets
  <2>1. ASSUME NEW n \in Nat, NEW l \in SUBSET Conns
        PROVE  LET b == [broadcast EXCEPT !.done = n, !.gone = {}, !.left = l]
               IN  /\ b \in Batches
                   /\ b.batch = broadcast.batch /\ b.done = n
                   /\ b.left = l /\ b.targets = broadcast.targets
    OBVIOUS
  <2>2. broadcast.done + 1 \in Nat /\ broadcast.targets \in SUBSET Conns
    OBVIOUS
  <2>3. QED
    BY <2>1, <2>2
<1>3. QED
  BY <1>1, <1>2
\* Every step keeps the types, whatever is posted, fails or closes.
LEMMA NextKeepsTypes == Typed /\ [Next]_vars => Typed'
<1> SUFFICES ASSUME Typed, [Next]_vars
             PROVE  Typed'
  OBVIOUS
<1>1. /\ version \in Versions /\ stream \in Seq(Records) /\ failures \in 0..MaxFailures
      /\ registered \subseteq Conns /\ broadcast \in Batches
      /\ broadcast.batch <= Len(stream)
      /\ Broadcasting => broadcast.done < broadcast.batch
      /\ BatchInStep
      /\ subscription \in [Conns -> Subscriptions] /\ socket \in [Dashboards -> Sockets]
      /\ wire \in [Dashboards -> Seq(Messages)] /\ sent \in [Dashboards -> Versions]
  BY DEF Typed
<1>2. NoSubscription \in Subscriptions /\ NoSocket \in Sockets /\ Nothing \in Versions
  BY DataFacts DEF NoSubscription, Subscriptions, Sockets
<1>3. Fails => failures' \in 0..MaxFailures
  BY <1>1, Assumed DEF Assumptions, Fails
<1>4. ASSUME NEW r \in Robots, UpsertRobot(r)
      PROVE  Typed'
  <2>1. version[r] + 1 \in 1..MaxVersion /\ version' \in Versions /\ version'[r] = version[r] + 1
    <3>1. version[r] + 1 \in 1..MaxVersion
      BY <1>1, <1>4, DataFacts, Assumed DEF Assumptions, UpsertRobot
    <3>2. version[r] + 1 \in 0..MaxVersion
      BY <3>1
    <3>3. QED
      BY <1>1, <1>4, <3>1, <3>2 DEF UpsertRobot, Versions
  <2>2. [robot |-> r, version |-> version'[r]] \in Records
    BY <2>1 DEF Records
  <2>3. stream' \in Seq(Records) /\ Len(stream) \in Nat /\ Len(stream') = Len(stream) + 1
    BY <1>1, <1>4, <2>2, AppendFacts DEF UpsertRobot
  <2>4. broadcast.batch <= Len(stream')
    BY <1>1, <2>3, BatchFacts
  <2>5. QED
    BY <1>1, <1>4, <2>1, <2>3, <2>4
       DEF UpsertRobot, Typed, BatchInStep, Broadcasting, server, browser
<1>5. ASSUME NEW k \in 1..BatchSize, NEW conns \in SUBSET Scannable, BeginBroadcast(k, conns)
      PROVE  Typed'
  <2>1. k \in Nat /\ k <= Len(stream) /\ ~Broadcasting
    BY <1>5, Assumed DEF BeginBroadcast, Assumptions
  <2>2. CASE conns = {}
    <3>1. stream' \in Seq(Records) /\ Len(stream') \in Nat /\ broadcast' = broadcast
      BY <1>1, <1>5, <2>1, <2>2, StreamAfterFacts DEF BeginBroadcast
    <3>2. broadcast.batch = 0
      BY <2>1, BatchFacts
    <3>3. QED
      BY <1>1, <1>5, <3>1, <3>2 DEF BeginBroadcast, Typed, BatchInStep, Broadcasting, browser
  <2>3. CASE conns # {}
    <3>1. broadcast' = BatchTo(k, conns) /\ stream' = stream
      BY <1>5, <2>3 DEF BeginBroadcast
    <3>2. /\ broadcast' \in Batches /\ broadcast'.batch = k /\ broadcast'.done = 0
          /\ broadcast'.left \subseteq broadcast'.targets
      BY <3>1, BatchBegins
    <3>3. 0 < k
      OBVIOUS
    <3>4. QED
      BY <1>1, <1>5, <2>1, <3>1, <3>2, <3>3
         DEF BeginBroadcast, Typed, BatchInStep, Broadcasting, browser
  <2>4. QED
    BY <2>2, <2>3
<1>6. ASSUME NEW c \in Conns, c \in broadcast.left,
             broadcast' \in {[broadcast EXCEPT !.left = @ \ {c}],
                             [broadcast EXCEPT !.left = @ \ {c}, !.gone = @ \cup {c}]},
             stream' = stream
      PROVE  /\ Broadcasting /\ broadcast' \in Batches
             /\ broadcast'.batch = broadcast.batch /\ broadcast'.done = broadcast.done
             /\ broadcast'.left \subseteq broadcast'.targets
  BY <1>6, BatchFacts, BatchMoves DEF Batches
<1>7. ASSUME NEW c \in Conns, PostUpdate(c)
      PROVE  Typed'
  <2>1. /\ Broadcasting /\ broadcast' \in Batches
        /\ broadcast'.batch = broadcast.batch /\ broadcast'.done = broadcast.done
        /\ broadcast'.left \subseteq broadcast'.targets
    BY <1>6, <1>7 DEF PostUpdate, table
  <2>2. wire' \in [Dashboards -> Seq(Messages)] /\ sent' \in [Dashboards -> Versions]
    <3>1. Record \in Records
      BY <2>1, BatchFacts
    <3>2. RobotUpdate(Record) \in Messages
          /\ [Nothing EXCEPT ![Record.robot] = Record.version] \in Versions
      <4>1. Record.robot \in Robots /\ Record.version \in 0..MaxVersion
        BY <3>1, DataFacts, Assumed DEF Assumptions
      <4>2. QED
        BY <3>1, <4>1, DataFacts
    <3>3. QED
      BY <1>1, <1>7, <3>2, PostedFacts DEF PostUpdate
  <2>3. QED
    BY <1>1, <1>7, <2>1, <2>2 DEF PostUpdate, Typed, BatchInStep, Broadcasting, table
<1>8. ASSUME NEW c \in Conns, PostUpdateFails(c)
      PROVE  Typed'
  <2>1. /\ Broadcasting /\ broadcast' \in Batches
        /\ broadcast'.batch = broadcast.batch /\ broadcast'.done = broadcast.done
        /\ broadcast'.left \subseteq broadcast'.targets
    BY <1>6, <1>8 DEF PostUpdateFails, table
  <2>2. QED
    BY <1>1, <1>3, <1>8, <2>1
       DEF PostUpdateFails, Typed, BatchInStep, Broadcasting, table, browser
<1>9. CASE EndRecord
  <2>1. /\ Broadcasting /\ registered' \subseteq Conns
        /\ broadcast.done + 1 <= broadcast.batch /\ broadcast.batch \in Nat
        /\ broadcast.done \in Nat
    BY <1>1, <1>9, BatchFacts DEF EndRecord
  <2>2. CASE broadcast.done + 1 = broadcast.batch
    <3>1. broadcast' = NoBroadcast /\ stream' = StreamAfter(broadcast.batch)
      BY <1>9, <2>2 DEF EndRecord
    <3>2. stream' \in Seq(Records) /\ Len(stream') \in Nat
      BY <1>1, <2>1, <3>1, StreamAfterFacts
    <3>3. QED
      BY <1>1, <1>9, <2>1, <3>1, <3>2, BatchFacts
         DEF EndRecord, Typed, BatchInStep, Broadcasting, browser
  <2>3. CASE broadcast.done + 1 # broadcast.batch
    <3>1. /\ stream' = stream
          /\ broadcast' \in Batches /\ broadcast'.batch = broadcast.batch
          /\ broadcast'.done = broadcast.done + 1 /\ broadcast'.left \subseteq broadcast'.targets
      BY <1>9, <2>3, BatchMoves DEF EndRecord
    <3>2. QED
      BY <1>1, <1>9, <2>1, <2>3, <3>1
         DEF EndRecord, Typed, BatchInStep, Broadcasting, browser
  <2>4. QED
    BY <2>2, <2>3
<1>10. CASE BroadcastFails
  <2>1. Len(stream) \in Nat
    BY BatchFacts
  <2>2. QED
    BY <1>1, <1>3, <1>10, <2>1, BatchFacts
       DEF BroadcastFails, Typed, BatchInStep, Broadcasting, table, browser
<1>11. ASSUME NEW c \in Conns, NEW s \in Subscriptions, subscription' = [subscription EXCEPT ![c] = s]
       PROVE  subscription' \in [Conns -> Subscriptions]
  BY <1>1, <1>11
<1>12. ASSUME NEW c \in Conns, ReadState(c)
       PROVE  Typed'
  <2>1. PICK robots \in Readable : ReadRobots(c, robots)
    BY <1>12 DEF ReadState
  <2>2. [at |-> "read", robots |-> robots] \in Subscriptions
    BY <2>1 DEF Readable, Subscriptions
  <2>3. QED
    BY <1>1, <1>11, <2>1, <2>2 DEF ReadState, ReadRobots, Typed, BatchInStep, Broadcasting, table, browser
<1>13. ASSUME NEW c \in Conns, PostState(c)
       PROVE  Typed'
  <2>1. subscription[c].robots \in Versions
    BY <1>1 DEF Subscriptions
  <2>2. /\ wire' \in [Dashboards -> Seq(Messages)] /\ sent' \in [Dashboards -> Versions]
        /\ registered' \subseteq Conns
    BY <1>1, <1>13, <2>1, DataFacts, PostedFacts DEF PostState
  <2>3. QED
    BY <1>1, <1>2, <1>11, <1>13, <2>2 DEF PostState, Typed, BatchInStep, Broadcasting, table
<1>14. ASSUME NEW c \in Conns, SubscribeFails(c)
       PROVE  Typed'
  BY <1>1, <1>2, <1>3, <1>11, <1>14
     DEF SubscribeFails, Typed, BatchInStep, Broadcasting, table, browser
<1>15. ASSUME NEW c \in Conns, OnDisconnect(c) \/ ExpireConnection(c)
       PROVE  Typed'
  BY <1>1, <1>15
     DEF OnDisconnect, ExpireConnection, Typed, BatchInStep, Broadcasting, table, browser
<1>16. ASSUME NEW d \in Dashboards, Connect(d)
       PROVE  Typed'
  <2>1. socket' \in [Dashboards -> Sockets]
    <3>1. PICK c \in Conns : socket' = [socket EXCEPT ![d] = [at |-> "connecting", conn |-> c]]
      BY <1>16 DEF Connect
    <3>2. [at |-> "connecting", conn |-> c] \in Sockets
      BY DEF Sockets
    <3>3. QED
      BY <1>1, <3>1, <3>2
  <2>2. QED
    BY <1>1, <1>16, <2>1 DEF Connect, Typed, BatchInStep, Broadcasting, table, server
<1>17. ASSUME NEW d \in Dashboards, OnConnect(d)
       PROVE  Typed'
  <2>1. socket[d] \in Sockets /\ socket[d].at # "waiting" /\ socket[d].conn \in Conns
    BY <1>1, <1>17, SocketFacts DEF OnConnect
  <2>2. socket' \in [Dashboards -> Sockets]
    <3>1. [socket[d] EXCEPT !.at = "accepted"] \in Sockets
      BY <2>1, SocketFacts
    <3>2. socket' = [socket EXCEPT ![d] = [socket[d] EXCEPT !.at = "accepted"]]
      BY <1>1, <1>17 DEF OnConnect
    <3>3. QED
      BY <1>1, <3>1, <3>2
  <2>3. registered' \subseteq Conns
    BY <1>1, <1>17, <2>1 DEF OnConnect
  <2>4. QED
    BY <1>1, <1>17, <2>2, <2>3 DEF OnConnect, Typed, BatchInStep, Broadcasting, table
<1>18. ASSUME NEW d \in Dashboards, OnOpen(d)
       PROVE  Typed'
  <2>1. socket[d] \in Sockets /\ socket[d].at # "waiting" /\ socket[d].conn \in Conns
    BY <1>1, <1>18, SocketFacts DEF OnOpen
  <2>2. socket' \in [Dashboards -> Sockets]
    <3>1. [socket[d] EXCEPT !.at = "open"] \in Sockets
      BY <2>1, SocketFacts
    <3>2. socket' = [socket EXCEPT ![d] = [socket[d] EXCEPT !.at = "open"]]
      BY <1>1, <1>18 DEF OnOpen
    <3>3. QED
      BY <1>1, <3>1, <3>2
  <2>3. subscription' \in [Conns -> Subscriptions]
    <3>1. [subscription[socket[d].conn] EXCEPT !.at = "sent"] \in Subscriptions
      BY <1>1, <2>1 DEF Subscriptions
    <3>2. subscription' = [subscription EXCEPT ![socket[d].conn] =
                              [subscription[socket[d].conn] EXCEPT !.at = "sent"]]
      BY <1>1, <1>18 DEF OnOpen
    <3>3. QED
      BY <1>1, <2>1, <3>1, <3>2
  <2>4. QED
    BY <1>1, <1>18, <2>2, <2>3 DEF OnOpen, Typed, BatchInStep, Broadcasting, table
<1>19. ASSUME NEW d \in Dashboards, OnMessage(d)
       PROVE  Typed'
  <2>1. Tail(wire[d]) \in Seq(Messages)
    BY <1>1, <1>19, TailFacts DEF OnMessage
  <2>2. wire' \in [Dashboards -> Seq(Messages)]
    BY <1>1, <1>19, <2>1 DEF OnMessage
  <2>3. QED
    BY <1>1, <1>19, <2>2 DEF OnMessage, Typed, BatchInStep, Broadcasting, table, server
<1>20. ASSUME NEW d \in Dashboards, OnClose(d)
       PROVE  Typed'
  <2>1. <<>> \in Seq(Messages)
    OBVIOUS
  <2>2. QED
    BY <1>1, <1>2, <1>20, <2>1 DEF OnClose, Typed, BatchInStep, Broadcasting, table, server
<1>21. CASE UNCHANGED vars
  BY <1>21 DEF vars, table, server, browser, Typed, BatchInStep, Broadcasting
<1>22. QED
  BY <1>4, <1>5, <1>7, <1>8, <1>9, <1>10, <1>12, <1>13, <1>14, <1>15, <1>16, <1>17, <1>18,
     <1>19, <1>20, <1>21 DEF Next, Broadcast
LEMMA InitTyped == Init => Typed
<1> SUFFICES ASSUME Init
             PROVE  Typed
  OBVIOUS
<1>1. NoBroadcast \in Batches /\ NoBroadcast.batch = 0 /\ NoBroadcast.left = {}
      /\ NoBroadcast.targets = {}
  BY Assumed DEF Assumptions, NoBroadcast, Batches
<1>2. NoSubscription \in Subscriptions /\ NoSocket \in Sockets /\ Nothing \in Versions
  BY DataFacts DEF NoSubscription, Subscriptions, Sockets
<1>3. <<>> \in Seq(Messages) /\ <<>> \in Seq(Records) /\ Len(<<>>) = 0
  OBVIOUS
<1>4. 0 \in 0..MaxFailures
  BY Assumed DEF Assumptions
<1>5. QED
  BY <1>1, <1>2, <1>3, <1>4 DEF Init, Typed, BatchInStep, Broadcasting

BehindTyped == behind \subseteq Dashboards

\* Whatever meets on the way from the table to the screens: the batch is part of the stream,
\* the record that is posted exists, and every message tells of versions the table had.
THEOREM TypeCorrect == Spec => []TypeOK
<1>1. Typed /\ BehindTyped => TypeOK
  <2>1. Sockets \subseteq [at : {"waiting", "connecting", "accepted", "open"},
                           conn : Conns \cup {None}]
    BY DEF Sockets, NoSocket
  <2>2. QED
    BY <2>1 DEF Typed, TypeOK, Batches, Subscriptions, BehindTyped
<1>2. Init => BehindTyped
  BY DEF Init, BehindTyped
<1>3. BehindTyped /\ [Next]_vars => BehindTyped'
  <2> SUFFICES ASSUME behind \subseteq Dashboards, [Next]_vars
               PROVE  behind' \subseteq Dashboards
    BY DEF BehindTyped
  <2>1. ASSUME NEW c \in Conns, PostUpdate(c) \/ PostState(c)
        PROVE  behind' \subseteq Dashboards
    BY <2>1 DEF PostUpdate, PostState, Posted
  <2>2. ASSUME NEW k \in 1..BatchSize, NEW conns \in SUBSET Scannable, BeginBroadcast(k, conns)
        PROVE  behind' \subseteq Dashboards
    BY <2>2 DEF BeginBroadcast, Overlooked
  <2>3. ASSUME NEW c \in Conns, \/ PostUpdateFails(c) \/ ReadState(c) \/ SubscribeFails(c)
                                \/ OnDisconnect(c) \/ ExpireConnection(c)
        PROVE  behind' \subseteq Dashboards
    BY <2>3 DEF PostUpdateFails, ReadState, ReadRobots, SubscribeFails, OnDisconnect,
                ExpireConnection, browser
  <2>4. ASSUME NEW d \in Dashboards,
               Connect(d) \/ OnConnect(d) \/ OnOpen(d) \/ OnMessage(d) \/ OnClose(d)
        PROVE  behind' \subseteq Dashboards
    BY <2>4 DEF Connect, OnConnect, OnOpen, OnMessage, OnClose
  <2>5. CASE \/ \E r \in Robots : UpsertRobot(r)
             \/ EndRecord \/ BroadcastFails \/ UNCHANGED vars
    BY <2>5 DEF UpsertRobot, EndRecord, BroadcastFails, vars, browser
  <2>6. QED
    BY <2>1, <2>2, <2>3, <2>4, <2>5 DEF Next, Broadcast
<1>4. QED
  BY <1>1, <1>2, <1>3, InitTyped, NextKeepsTypes, PTL DEF Spec
----------------------------------------------------------------------------
\* An id that is used again is nobody's.
LEMMA OwnersStay == Typed /\ OneOwner /\ [Next]_vars => OneOwner'
<1> SUFFICES ASSUME Typed, OneOwner, [Next]_vars
             PROVE  OneOwner'
  OBVIOUS
<1>1. socket \in [Dashboards -> Sockets]
  BY DEF Typed
<1>2. ASSUME NEW d \in Dashboards, Connect(d)
      PROVE  OneOwner'
  BY <1>1, <1>2 DEF Connect, Unused, OneOwner
<1>3. ASSUME NEW d \in Dashboards, NEW a, socket' = [socket EXCEPT ![d].at = a]
      PROVE  OneOwner'
  <2>1. \A e \in Dashboards : socket'[e].conn = socket[e].conn
    BY <1>1, <1>3 DEF Sockets, NoSocket
  <2>2. QED
    BY <2>1 DEF OneOwner
<1>4. ASSUME NEW d \in Dashboards, OnClose(d)
      PROVE  OneOwner'
  BY <1>1, <1>4 DEF OnClose, NoSocket, OneOwner
<1>5. ASSUME NEW d \in Dashboards, OnConnect(d) \/ OnOpen(d)
      PROVE  OneOwner'
  BY <1>3, <1>5 DEF OnConnect, OnOpen
<1>6. CASE UNCHANGED socket
  BY <1>6 DEF OneOwner
<1>7. ASSUME NEW c \in Conns, \/ PostUpdate(c) \/ PostUpdateFails(c) \/ ReadState(c)
                              \/ PostState(c) \/ SubscribeFails(c)
                              \/ OnDisconnect(c) \/ ExpireConnection(c)
      PROVE  UNCHANGED socket
  BY <1>7 DEF PostUpdate, PostUpdateFails, ReadState, ReadRobots, PostState, SubscribeFails,
              OnDisconnect, ExpireConnection, browser
<1>8. CASE \/ \E r \in Robots : UpsertRobot(r)
           \/ \E k \in 1..BatchSize, conns \in SUBSET Scannable : BeginBroadcast(k, conns)
           \/ EndRecord \/ BroadcastFails
           \/ \E d \in Dashboards : OnMessage(d)
           \/ UNCHANGED vars
  BY <1>6, <1>8
     DEF UpsertRobot, BeginBroadcast, EndRecord, BroadcastFails, OnMessage, vars, browser
<1>9. QED
  BY <1>2, <1>4, <1>5, <1>6, <1>7, <1>8 DEF Next, Broadcast

\* A put is a record at the end of the stream, with the version that the table has from now.
LEMMA PutFacts ==
    ASSUME Typed, NEW r \in Robots, UpsertRobot(r)
    PROVE  /\ version'[r] = version[r] + 1
           /\ \A q \in Robots : q # r => version'[q] = version[q]
           /\ UNCHANGED broadcast
           /\ Len(stream') = Len(stream) + 1
           /\ \A i \in 1..Len(stream) : stream'[i] = stream[i]
           /\ stream'[Len(stream) + 1] = [robot |-> r, version |-> version'[r]]
<1>1. version \in Versions /\ version[r] < MaxVersion /\ version[r] \in Nat
  BY DataFacts DEF UpsertRobot, Typed
<1>2. version[r] + 1 \in 1..MaxVersion
  BY <1>1, Assumed DEF Assumptions
<1>3. /\ version'[r] = version[r] + 1 /\ UNCHANGED broadcast
      /\ \A q \in Robots : q # r => version'[q] = version[q]
  BY <1>1 DEF UpsertRobot, server, Versions
<1>4. [robot |-> r, version |-> version'[r]] \in Records
  BY <1>2, <1>3 DEF Records
<1>5. QED
  BY <1>3, <1>4, AppendFacts DEF UpsertRobot, Typed

\* A put adds a record at the end of the stream, the end of a batch takes its first records
\* away, and nothing else writes the table or the stream.
LEMMA TableSteps ==
    ASSUME Typed, [Next]_vars
    PROVE  \/ \E r \in Robots :
                 /\ version'[r] = version[r] + 1
                 /\ \A q \in Robots : q # r => version'[q] = version[q]
                 /\ Len(stream') = Len(stream) + 1
                 /\ \A k \in 1..Len(stream) : stream'[k] = stream[k]
                 /\ stream'[Len(stream) + 1] = [robot |-> r, version |-> version'[r]]
           \/ /\ UNCHANGED version
              /\ \E k \in Nat :
                    /\ k <= Len(stream) /\ Len(stream') = Len(stream) - k
                    /\ \A i \in 1..Len(stream') : stream'[i] = stream[k + i]
<1> DEFINE Cut == /\ UNCHANGED version
                  /\ \E k \in Nat :
                        /\ k <= Len(stream) /\ Len(stream') = Len(stream) - k
                        /\ \A i \in 1..Len(stream') : stream'[i] = stream[k + i]
<1>1. Len(stream) \in Nat /\ stream \in Seq(Records) /\ version \in Versions
  BY BatchFacts DEF Typed
<1>2. ASSUME UNCHANGED <<version, stream>>
      PROVE  Cut
  <2>1. 0 \in Nat /\ 0 <= Len(stream) /\ Len(stream') = Len(stream) - 0
        /\ \A i \in 1..Len(stream') : stream'[i] = stream[0 + i]
    BY <1>1, <1>2
  <2>2. QED
    BY <1>2, <2>1
<1>3. ASSUME NEW k \in Nat, k <= Len(stream), stream' = StreamAfter(k), UNCHANGED version
      PROVE  Cut
  BY <1>1, <1>3, StreamAfterFacts
<1>4. ASSUME NEW k \in 1..BatchSize, NEW conns \in SUBSET Scannable, BeginBroadcast(k, conns)
      PROVE  Cut
  <2>1. k \in Nat /\ k <= Len(stream)
    BY <1>4, Assumed DEF BeginBroadcast, Assumptions
  <2>2. QED
    BY <1>2, <1>3, <1>4, <2>1 DEF BeginBroadcast
<1>5. CASE EndRecord
  <2>1. broadcast.batch \in Nat /\ broadcast.batch <= Len(stream)
    BY BatchFacts DEF Typed
  <2>2. QED
    BY <1>2, <1>3, <1>5, <2>1 DEF EndRecord
<1>6. ASSUME NEW c \in Conns, \/ PostUpdate(c) \/ PostUpdateFails(c) \/ ReadState(c)
                              \/ PostState(c) \/ SubscribeFails(c)
                              \/ OnDisconnect(c) \/ ExpireConnection(c)
      PROVE  Cut
  BY <1>2, <1>6 DEF PostUpdate, PostUpdateFails, ReadState, ReadRobots, PostState, SubscribeFails,
                    OnDisconnect, ExpireConnection, table
<1>7. ASSUME NEW d \in Dashboards,
             Connect(d) \/ OnConnect(d) \/ OnOpen(d) \/ OnMessage(d) \/ OnClose(d)
      PROVE  Cut
  BY <1>2, <1>7 DEF Connect, OnConnect, OnOpen, OnMessage, OnClose, table
<1>8. CASE BroadcastFails \/ UNCHANGED vars
  BY <1>2, <1>8 DEF BroadcastFails, vars, table
<1>9. QED
  <2>1. CASE \/ \E k \in 1..BatchSize, conns \in SUBSET Scannable : BeginBroadcast(k, conns)
             \/ EndRecord \/ BroadcastFails \/ UNCHANGED vars
    BY <1>4, <1>5, <1>8, <2>1
  <2>2. ASSUME NEW r \in Robots, UpsertRobot(r)
        PROVE  \E q \in Robots :
                 /\ version'[q] = version[q] + 1
                 /\ \A p \in Robots : p # q => version'[p] = version[p]
                 /\ Len(stream') = Len(stream) + 1
                 /\ \A k \in 1..Len(stream) : stream'[k] = stream[k]
                 /\ stream'[Len(stream) + 1] = [robot |-> q, version |-> version'[q]]
    <3>1. WITNESS r \in Robots
    <3>2. QED
      BY <2>2, PutFacts
  <2>3. QED
    BY <1>6, <1>7, <2>1, <2>2 DEF Next, Broadcast

\* The broadcaster posts record done + 1 to d.
Posts(d) == Broadcasting /\ \E c \in Conns : PostUpdate(c) /\ socket[d] = Open(c)

\* What is on the wire to a dashboard was there, in the same order, but for one message
\* posted behind it.
LEMMA WireSteps ==
    ASSUME Typed, [Next]_vars, NEW d \in Dashboards
    PROVE  \E o \in {0, 1} : \A i \in 1..Len(wire'[d]) :
              \/ i + o \in 1..Len(wire[d]) /\ wire'[d][i] = wire[d][i + o]
              \/ /\ o = 0 /\ i = Len(wire[d]) + 1
                 /\ \/ wire'[d][i].type = "initial_state"
                    \/ wire'[d][i] = RobotUpdate(Record) /\ Posts(d)
<1> DEFINE Kept(o, i) == i + o \in 1..Len(wire[d]) /\ wire'[d][i] = wire[d][i + o]
           New(i) == \/ wire'[d][i].type = "initial_state"
                     \/ wire'[d][i] = RobotUpdate(Record) /\ Posts(d)
           Goal == \E o \in {0, 1} : \A i \in 1..Len(wire'[d]) :
                      Kept(o, i) \/ (o = 0 /\ i = Len(wire[d]) + 1 /\ New(i))
<1>1. /\ wire \in [Dashboards -> Seq(Messages)] /\ wire[d] \in Seq(Messages)
      /\ Len(wire[d]) \in Nat
  BY DEF Typed
<1>2. ASSUME wire'[d] = wire[d]
      PROVE  Goal
  <2>1. \A i \in 1..Len(wire'[d]) : Kept(0, i)
    BY <1>1, <1>2
  <2> HIDE DEF Kept, New
  <2>2. QED
    BY <2>1
<1>3. ASSUME NEW msg \in Messages, NEW f \in Versions, NEW c \in Conns, Posted(c, msg, f),
             \/ msg.type = "initial_state"
             \/ msg = RobotUpdate(Record) /\ Broadcasting /\ PostUpdate(c)
      PROVE  Goal
  <2>1. PICK e \in Dashboards : Reaches(e, c, msg, f)
    BY <1>3, PostedFacts
  <2>2. CASE d = e
    <3>1. /\ Len(wire'[d]) = Len(wire[d]) + 1
          /\ \A i \in 1..Len(wire[d]) : wire'[d][i] = wire[d][i]
          /\ wire'[d][Len(wire[d]) + 1] = msg
      BY <1>1, <2>1, <2>2, AppendFacts DEF Reaches
    <3>2. New(Len(wire[d]) + 1)
      BY <1>3, <2>1, <2>2, <3>1 DEF Posts, Reaches
    <3> HIDE DEF New
    <3>3. \A i \in 1..Len(wire'[d]) :
             Kept(0, i) \/ (i = Len(wire[d]) + 1 /\ New(i))
      BY <1>1, <3>1, <3>2
    <3>4. QED
      BY <3>3
  <2>3. CASE d # e
    BY <1>2, <2>1, <2>3 DEF Reaches
  <2>4. QED
    BY <2>2, <2>3
<1>4. ASSUME NEW c \in Conns, PostUpdate(c)
      PROVE  Goal
  <2>1. Broadcasting /\ Record \in Records
    BY <1>4, BatchFacts DEF PostUpdate
  <2>2. /\ RobotUpdate(Record) \in Messages
        /\ [Nothing EXCEPT ![Record.robot] = Record.version] \in Versions
    <3>1. Record.robot \in Robots /\ Record.version \in 0..MaxVersion
      BY <2>1, DataFacts, Assumed DEF Assumptions
    <3>2. QED
      BY <2>1, <3>1, DataFacts
  <2>3. \/ wire' = wire
        \/ Posted(c, RobotUpdate(Record), [Nothing EXCEPT ![Record.robot] = Record.version])
    BY <1>4 DEF PostUpdate
  <2>4. QED
    BY <1>2, <1>3, <1>4, <2>1, <2>2, <2>3
<1>5. ASSUME NEW c \in Conns, PostState(c)
      PROVE  Goal
  <2> DEFINE msg == [type |-> "initial_state", robots |-> subscription[c].robots]
  <2>1. subscription[c].robots \in Versions
    BY DEF Typed, Subscriptions
  <2>2. msg \in Messages /\ msg.type = "initial_state"
    BY <2>1, DataFacts
  <2>3. wire' = wire \/ Posted(c, msg, subscription[c].robots)
    BY <1>5 DEF PostState
  <2>4. QED
    BY <1>2, <1>3, <2>1, <2>2, <2>3
<1>6. ASSUME NEW e \in Dashboards, OnMessage(e)
      PROVE  Goal
  <2>1. wire'[d] = wire[d] \/ (wire[d] # <<>> /\ wire'[d] = Tail(wire[d]))
    BY <1>1, <1>6 DEF OnMessage
  <2>2. ASSUME wire[d] # <<>> /\ wire'[d] = Tail(wire[d])
        PROVE  \A i \in 1..Len(wire'[d]) : Kept(1, i)
    BY <1>1, <2>2, TailFacts
  <2>3. QED
    BY <1>2, <2>1, <2>2
<1>7. ASSUME NEW e \in Dashboards, OnClose(e)
      PROVE  Goal
  <2>1. wire'[d] = wire[d] \/ wire'[d] = <<>>
    BY <1>1, <1>7 DEF OnClose
  <2>2. ASSUME wire'[d] = <<>>
        PROVE  \A i \in 1..Len(wire'[d]) : Kept(0, i)
    BY <2>2
  <2>3. QED
    BY <1>2, <2>1, <2>2
<1>8. ASSUME NEW c \in Conns, \/ PostUpdateFails(c) \/ ReadState(c) \/ SubscribeFails(c)
                              \/ OnDisconnect(c) \/ ExpireConnection(c)
      PROVE  Goal
  BY <1>2, <1>8 DEF PostUpdateFails, ReadState, ReadRobots, SubscribeFails, OnDisconnect,
                    ExpireConnection, browser
<1>9. ASSUME NEW e \in Dashboards, Connect(e) \/ OnConnect(e) \/ OnOpen(e)
      PROVE  Goal
  BY <1>2, <1>9 DEF Connect, OnConnect, OnOpen
<1>10. CASE \/ \E r \in Robots : UpsertRobot(r)
            \/ \E k \in 1..BatchSize, conns \in SUBSET Scannable : BeginBroadcast(k, conns)
            \/ EndRecord \/ BroadcastFails \/ UNCHANGED vars
  BY <1>2, <1>10
     DEF UpsertRobot, BeginBroadcast, EndRecord, BroadcastFails, vars, browser
<1>11. Goal
  BY <1>4, <1>5, <1>6, <1>7, <1>8, <1>9, <1>10 DEF Next, Broadcast
<1>12. QED
  BY <1>11
\* A subscription keeps what it has read, reads what the table has or had, or forgets it.
LEMMA SubscriptionSteps ==
    ASSUME Typed, [Next]_vars, NEW c \in Conns
    PROVE  \/ subscription'[c].robots = subscription[c].robots
           \/ subscription'[c].robots \in Readable
           \/ subscription'[c].robots = Nothing
<1> DEFINE Goal == \/ subscription'[c].robots = subscription[c].robots
                   \/ subscription'[c].robots \in Readable
                   \/ subscription'[c].robots = Nothing
<1>1. subscription \in [Conns -> Subscriptions]
  BY DEF Typed
<1>2. ASSUME NEW b \in Conns, ReadState(b) \/ PostState(b) \/ SubscribeFails(b)
      PROVE  Goal
  BY <1>1, <1>2 DEF ReadState, ReadRobots, PostState, SubscribeFails, NoSubscription
<1>3. ASSUME NEW d \in Dashboards, OnOpen(d)
      PROVE  Goal
  BY <1>1, <1>3 DEF OnOpen, Subscriptions
<1>4. ASSUME NEW b \in Conns, \/ PostUpdate(b) \/ PostUpdateFails(b)
                              \/ OnDisconnect(b) \/ ExpireConnection(b)
      PROVE  Goal
  BY <1>4 DEF PostUpdate, PostUpdateFails, OnDisconnect, ExpireConnection
<1>5. ASSUME NEW d \in Dashboards, Connect(d) \/ OnConnect(d) \/ OnMessage(d) \/ OnClose(d)
      PROVE  Goal
  BY <1>5 DEF Connect, OnConnect, OnMessage, OnClose, server
<1>6. CASE \/ \E r \in Robots : UpsertRobot(r)
           \/ \E k \in 1..BatchSize, conns \in SUBSET Scannable : BeginBroadcast(k, conns)
           \/ EndRecord \/ BroadcastFails \/ UNCHANGED vars
  BY <1>6 DEF UpsertRobot, BeginBroadcast, EndRecord, BroadcastFails, vars, server
<1>7. QED
  BY <1>2, <1>3, <1>4, <1>5, <1>6 DEF Next, Broadcast

\* A dashboard has been told what it had been told, nothing any more, the record of the
\* broadcast or the state that was read.
LEMMA SentSteps ==
    ASSUME Typed, [Next]_vars, NEW d \in Dashboards, NEW r \in Robots
    PROVE  \/ sent'[d][r] = sent[d][r]
           \/ sent'[d][r] = 0
           \/ Broadcasting /\ Record.robot = r /\ sent'[d][r] = Record.version
           \/ \E c \in Conns : sent'[d][r] = subscription[c].robots[r]
<1> DEFINE Goal == \/ sent'[d][r] = sent[d][r]
                   \/ sent'[d][r] = 0
                   \/ Broadcasting /\ Record.robot = r /\ sent'[d][r] = Record.version
                   \/ \E c \in Conns : sent'[d][r] = subscription[c].robots[r]
<1>1. sent \in [Dashboards -> Versions] /\ sent[d] \in Versions
  BY DEF Typed
<1>2. ASSUME NEW msg \in Messages, NEW f \in Versions, NEW c \in Conns,
             Posted(c, msg, f)
      PROVE  sent'[d][r] = sent[d][r] \/ sent'[d][r] = f[r]
  <2>1. PICK e \in Dashboards : Reaches(e, c, msg, f)
    BY <1>2, PostedFacts
  <2>2. CASE d = e
    BY <2>1, <2>2 DEF Reaches
  <2>3. CASE d # e
    BY <2>1, <2>3 DEF Reaches
  <2>4. QED
    BY <2>2, <2>3
<1>3. ASSUME NEW c \in Conns, PostUpdate(c)
      PROVE  Goal
  <2> DEFINE f == [Nothing EXCEPT ![Record.robot] = Record.version]
  <2>1. Broadcasting /\ Record \in Records /\ Record.robot \in Robots
        /\ Record.version \in 0..MaxVersion
    BY <1>3, BatchFacts, DataFacts, Assumed DEF PostUpdate, Assumptions
  <2>2. RobotUpdate(Record) \in Messages /\ f \in Versions
    BY <2>1, DataFacts
  <2>3. f[r] = IF r = Record.robot THEN Record.version ELSE 0
    BY DEF Nothing
  <2>4. sent' = sent \/ Posted(c, RobotUpdate(Record), f)
    BY <1>3 DEF PostUpdate
  <2> HIDE DEF f
  <2>5. sent'[d][r] = sent[d][r] \/ sent'[d][r] = f[r]
    BY <1>2, <2>2, <2>4
  <2>6. QED
    BY <2>1, <2>3, <2>5
<1>4. ASSUME NEW c \in Conns, PostState(c)
      PROVE  Goal
  <2>1. subscription[c].robots \in Versions
    BY DEF Typed, Subscriptions
  <2>2. [type |-> "initial_state", robots |-> subscription[c].robots] \in Messages
    BY <2>1, DataFacts
  <2>3. QED
    BY <1>2, <1>4, <2>1, <2>2 DEF PostState
<1>5. ASSUME NEW e \in Dashboards, OnClose(e)
      PROVE  Goal
  BY <1>1, <1>5 DEF OnClose, Nothing
<1>6. ASSUME NEW c \in Conns, \/ PostUpdateFails(c) \/ ReadState(c) \/ SubscribeFails(c)
                              \/ OnDisconnect(c) \/ ExpireConnection(c)
      PROVE  Goal
  BY <1>6 DEF PostUpdateFails, ReadState, ReadRobots, SubscribeFails, OnDisconnect, ExpireConnection,
              browser
<1>7. ASSUME NEW e \in Dashboards, Connect(e) \/ OnConnect(e) \/ OnOpen(e) \/ OnMessage(e)
      PROVE  Goal
  BY <1>7 DEF Connect, OnConnect, OnOpen, OnMessage
<1>8. CASE \/ \E q \in Robots : UpsertRobot(q)
           \/ \E k \in 1..BatchSize, conns \in SUBSET Scannable : BeginBroadcast(k, conns)
           \/ EndRecord \/ BroadcastFails \/ UNCHANGED vars
  BY <1>8 DEF UpsertRobot, BeginBroadcast, EndRecord, BroadcastFails, vars, browser
<1>9. QED
  BY <1>3, <1>4, <1>5, <1>6, <1>7, <1>8 DEF Next, Broadcast
\* The versions of the table only grow, and nothing gets ahead of them.
LEMMA KnownStays == Typed /\ Known /\ [Next]_vars => Known'
<1> SUFFICES ASSUME Typed, Known, [Next]_vars
             PROVE  Known'
  OBVIOUS
<1>1. Typed'
  BY NextKeepsTypes
<1>2. \A r \in Robots : /\ version[r] \in Nat /\ version'[r] \in Nat
                        /\ version[r] <= version'[r]
  <2>1. version \in Versions /\ version' \in Versions
    BY <1>1 DEF Typed
  <2>2. \A r \in Robots : version[r] \in Nat /\ version'[r] \in Nat
    BY <2>1, DataFacts
  <2>3. ASSUME NEW r \in Robots, version'[r] = version[r] + 1,
               \A q \in Robots : q # r => version'[q] = version[q]
        PROVE  \A q \in Robots : version[q] <= version'[q]
    BY <2>2, <2>3
  <2>4. CASE UNCHANGED version
    BY <2>2, <2>4
  <2>5. QED
    BY <2>2, <2>3, <2>4, TableSteps
<1>3. \A k \in 1..Len(stream) : stream[k].robot \in Robots /\ stream[k].version \in Nat
  BY DataFacts DEF Typed
<1>4. StreamKnown'
  <2>1. Len(stream) \in Nat
    BY BatchFacts
  <2>2. CASE UNCHANGED version /\ \E k \in Nat :
                /\ k <= Len(stream) /\ Len(stream') = Len(stream) - k
                /\ \A i \in 1..Len(stream') : stream'[i] = stream[k + i]
    BY <2>1, <2>2 DEF Known, StreamKnown
  <2>3. ASSUME NEW r \in Robots, version'[r] = version[r] + 1,
               Len(stream') = Len(stream) + 1,
               \A k \in 1..Len(stream) : stream'[k] = stream[k],
               stream'[Len(stream) + 1] = [robot |-> r, version |-> version'[r]]
        PROVE  StreamKnown'
    <3> SUFFICES ASSUME NEW k \in 1..Len(stream')
                 PROVE  stream'[k].version <= version'[stream'[k].robot]
      BY DEF StreamKnown
    <3>1. CASE k \in 1..Len(stream)
      BY <1>2, <1>3, <2>3, <3>1 DEF Known, StreamKnown
    <3>2. CASE k = Len(stream) + 1
      BY <1>2, <2>3, <3>2
    <3>3. QED
      BY <2>1, <2>3, <3>1, <3>2
  <2>4. QED
    BY <2>2, <2>3, TableSteps
<1>5. \A c \in Conns, r \in Robots : /\ subscription[c].robots[r] \in Nat
                                     /\ subscription[c].robots[r] <= version[r]
  BY DataFacts DEF Typed, Subscriptions, Known, ReadKnown
<1>6. ReadKnown'
  <2> SUFFICES ASSUME NEW c \in Conns, NEW r \in Robots
               PROVE  subscription'[c].robots[r] <= version'[r]
    BY DEF ReadKnown
  <2>1. Nothing[r] = 0
    BY DEF Nothing
  <2>2. QED
    <3>1. CASE subscription'[c].robots \in Readable
      <4>1. /\ version[r] \in Nat /\ version[r] <= version'[r]
            /\ subscription'[c].robots[r] \in Nat /\ subscription'[c].robots[r] <= version[r]
        BY <1>2, <3>1, DataFacts DEF Readable, Typed
      <4>2. QED
        BY <1>2, <4>1
    <3>2. CASE subscription'[c].robots = subscription[c].robots
      BY <1>2, <1>5, <3>2
    <3>3. CASE subscription'[c].robots = Nothing
      BY <1>2, <2>1, <3>3
    <3>4. QED
      BY <3>1, <3>2, <3>3, SubscriptionSteps
<1>7. Broadcasting =>
         /\ Record.robot \in Robots /\ Record.version \in Nat
         /\ Record.version <= version[Record.robot]
         /\ RobotUpdate(Record).robot = Record.robot
         /\ RobotUpdate(Record).version = Record.version
  BY <1>3, BatchFacts, DataFacts DEF Known, StreamKnown
<1>8. SentKnown'
  <2> SUFFICES ASSUME NEW d \in Dashboards, NEW r \in Robots
               PROVE  sent'[d][r] <= version'[r]
    BY DEF SentKnown
  <2>1. sent[d][r] \in Nat /\ sent[d][r] <= version[r]
    BY DataFacts DEF Typed, Known, SentKnown
  <2>2. QED
    BY <1>2, <1>5, <1>7, <2>1, SentSteps
<1>9. WireKnown'
  <2> SUFFICES ASSUME NEW d \in Dashboards, NEW i \in 1..Len(wire'[d]),
                      wire'[d][i].type = "robot_update"
               PROVE  wire'[d][i].version <= version'[wire'[d][i].robot]
    BY DEF WireKnown
  <2>1. CASE \E j \in 1..Len(wire[d]) : wire'[d][i] = wire[d][j]
    <3>1. PICK j \in 1..Len(wire[d]) : wire'[d][i] = wire[d][j]
      BY <2>1
    <3>2. wire[d][j] \in Messages
      BY DEF Typed
    <3>3. wire[d][j].robot \in Robots /\ wire[d][j].version \in Nat
      BY <3>1, <3>2, DataFacts
    <3>4. QED
      BY <1>2, <3>1, <3>3 DEF Known, WireKnown
  <2>2. CASE wire'[d][i] = RobotUpdate(Record) /\ Broadcasting
    BY <1>2, <1>7, <2>2
  <2>3. QED
    BY <2>1, <2>2, WireSteps DEF Posts
<1>10. QED
  BY <1>4, <1>6, <1>8, <1>9 DEF Known

\* A put is newer than every record of its robot, and a batch leaves from the front.
LEMMA StreamStaysInOrder ==
    Typed /\ Known /\ StreamInOrder /\ [Next]_vars => StreamInOrder'
<1> SUFFICES ASSUME Typed, Known, StreamInOrder, [Next]_vars
             PROVE  StreamInOrder'
  OBVIOUS
<1>1. /\ Len(stream) \in Nat
      /\ \A k \in 1..Len(stream) : stream[k].robot \in Robots /\ stream[k].version \in Nat
      /\ \A r \in Robots : version[r] \in Nat
  BY BatchFacts, DataFacts DEF Typed
<1>2. ASSUME NEW k \in Nat, k <= Len(stream), Len(stream') = Len(stream) - k,
             \A i \in 1..Len(stream') : stream'[i] = stream[k + i]
      PROVE  StreamInOrder'
  <2>1. \A i \in 1..Len(stream') : k + i \in 1..Len(stream)
    BY <1>1, <1>2
  <2>2. \A i, j \in 1..Len(stream') : i < j => k + i < k + j
    BY <1>1, <1>2
  <2>3. QED
    BY <1>2, <2>1, <2>2 DEF StreamInOrder
<1>3. ASSUME NEW r \in Robots, version'[r] = version[r] + 1,
             Len(stream') = Len(stream) + 1,
             \A k \in 1..Len(stream) : stream'[k] = stream[k],
             stream'[Len(stream) + 1] = [robot |-> r, version |-> version'[r]]
      PROVE  StreamInOrder'
  <2> SUFFICES ASSUME NEW k \in 1..Len(stream'), NEW l \in 1..Len(stream'), k < l,
                      stream'[k].robot = stream'[l].robot
               PROVE  stream'[k].version < stream'[l].version
    BY DEF StreamInOrder
  <2>1. k \in 1..Len(stream)
    BY <1>1, <1>3
  <2>2. CASE l \in 1..Len(stream)
    BY <1>3, <2>1, <2>2 DEF StreamInOrder
  <2>3. CASE l = Len(stream) + 1
    <3>1. stream[k].robot = r /\ stream[k].version <= version[r]
      BY <1>3, <2>1, <2>3 DEF Known, StreamKnown
    <3>2. QED
      BY <1>1, <1>3, <2>1, <2>3, <3>1
  <2>4. QED
    BY <1>1, <1>3, <2>2, <2>3
<1>4. QED
  BY <1>2, <1>3, TableSteps
----------------------------------------------------------------------------
\* A failure is not forgotten.
LEMMA FailuresStay ==
    ASSUME Typed, [Next]_vars, failures' = 0
    PROVE  /\ failures = 0
           /\ ~BroadcastFails
           /\ \A c \in Conns : ~PostUpdateFails(c) /\ ~SubscribeFails(c)
<1>1. failures \in Nat
  BY Assumed DEF Assumptions, Typed
<1>2. ~Fails
  BY <1>1 DEF Fails
<1>3. ~BroadcastFails /\ \A c \in Conns : ~PostUpdateFails(c) /\ ~SubscribeFails(c)
  BY <1>2 DEF BroadcastFails, PostUpdateFails, SubscribeFails
<1>4. ASSUME NEW c \in Conns, \/ PostUpdate(c) \/ ReadState(c) \/ PostState(c)
                              \/ OnDisconnect(c) \/ ExpireConnection(c)
      PROVE  failures = 0
  BY <1>4 DEF PostUpdate, ReadState, ReadRobots, PostState, OnDisconnect, ExpireConnection
<1>5. ASSUME NEW d \in Dashboards,
             Connect(d) \/ OnConnect(d) \/ OnOpen(d) \/ OnMessage(d) \/ OnClose(d)
      PROVE  failures = 0
  BY <1>5 DEF Connect, OnConnect, OnOpen, OnMessage, OnClose
<1>6. ASSUME \/ \E r \in Robots : UpsertRobot(r)
             \/ \E k \in 1..BatchSize, conns \in SUBSET Scannable : BeginBroadcast(k, conns)
             \/ EndRecord \/ UNCHANGED vars
      PROVE  failures = 0
  BY <1>6 DEF UpsertRobot, BeginBroadcast, EndRecord, vars
<1>7. failures = 0
  BY <1>3, <1>4, <1>5, <1>6 DEF Next, Broadcast
<1>8. QED
  BY <1>3, <1>7

\* A record that is still to come to a dashboard was still to come, unless it has just been
\* put; the one that is being posted to the dashboard has come.
LEMMA Turns ==
    ASSUME Typed, [Next]_vars, failures' = 0,
           NEW d \in Dashboards, wire'[d] # <<>>,
           NEW k \in 1..Len(stream'), ~Passed(d, k)'
    PROVE  \/ \E r \in Robots : UpsertRobot(r) /\ k = Len(stream) + 1
           \/ \E l \in 1..Len(stream) :
                 /\ stream'[k] = stream[l] /\ ~Passed(d, l)
                 /\ Posts(d) => l > broadcast.done + 1
<1> DEFINE Old(l) == l \in 1..Len(stream) /\ stream'[k] = stream[l] /\ ~Passed(d, l)
           New == \E r \in Robots : UpsertRobot(r) /\ k = Len(stream) + 1
           Came == New \/ \E l \in 1..Len(stream) : Old(l)
<1>1. /\ broadcast.done \in Nat /\ broadcast.batch \in Nat /\ Len(stream) \in Nat
      /\ broadcast.left \subseteq Conns /\ broadcast.left \subseteq broadcast.targets
      /\ socket \in [Dashboards -> Sockets]
  BY BatchFacts DEF Typed
<1>2. ASSUME UNCHANGED stream, Passed(d, k) => Passed(d, k)'
      PROVE  Old(k)
  BY <1>2
<1>3. ASSUME NEW c \in Conns, PostUpdate(c)
      PROVE  Old(k) /\ (socket[d] = Open(c) => k > broadcast.done + 1)
  <2>1. /\ UNCHANGED <<stream, socket>>
        /\ broadcast'.batch = broadcast.batch /\ broadcast'.done = broadcast.done
        /\ broadcast'.left = broadcast.left \ {c} /\ Broadcasting
    BY <1>3, BatchFacts, BatchMoves DEF PostUpdate, table
  <2>2. Passed(d, k) => Passed(d, k)'
    BY <2>1 DEF Passed, Broadcasting
  <2>3. ASSUME socket[d] = Open(c)
        PROVE  k > broadcast.done + 1
    <3>1. socket'[d].conn \notin broadcast'.left
      BY <2>1, <2>3 DEF Open
    <3>2. k \in Nat
      OBVIOUS
    <3>3. QED
      BY <1>1, <2>1, <3>1, <3>2 DEF Passed, Broadcasting
  <2>4. QED
    BY <1>2, <2>1, <2>2, <2>3
<1>4. ASSUME NEW r \in Robots, UpsertRobot(r)
      PROVE  Came
  <2>1. /\ Len(stream') = Len(stream) + 1
        /\ \A i \in 1..Len(stream) : stream'[i] = stream[i]
    BY <1>4, TableSteps, <1>1 DEF UpsertRobot, Typed
  <2>2. Passed(d, k)' <=> Passed(d, k)
    BY <1>4 DEF UpsertRobot, server, browser, Passed, Broadcasting
  <2>3. QED
    BY <1>1, <1>4, <2>1, <2>2
<1>5. ASSUME NEW n \in 1..BatchSize, NEW conns \in SUBSET Scannable, BeginBroadcast(n, conns)
      PROVE  \E l \in 1..Len(stream) : Old(l)
  <2>1. /\ n \in Nat /\ n <= Len(stream) /\ ~Broadcasting /\ broadcast.done = 0
        /\ stream \in Seq(Records)
    BY <1>5, BatchFacts, Assumed DEF BeginBroadcast, Assumptions, Typed
  <2>2. CASE conns = {}
    <3>1. /\ Len(stream') = Len(stream) - n
          /\ \A i \in 1..(Len(stream) - n) : stream'[i] = stream[n + i]
      BY <1>5, <2>1, <2>2, StreamAfterFacts DEF BeginBroadcast
    <3>2. n + k \in 1..Len(stream) /\ stream'[k] = stream[n + k]
      BY <1>1, <2>1, <3>1
    <3>3. ~Passed(d, n + k)
      BY <1>1, <2>1, <3>2 DEF Passed
    <3>4. QED
      BY <3>2, <3>3
  <2>3. CASE conns # {}
    <3>1. stream' = stream /\ k \in Nat /\ k > 0
      BY <1>5, <2>3 DEF BeginBroadcast
    <3>2. ~Passed(d, k)
      BY <1>1, <2>1, <3>1 DEF Passed
    <3>3. QED
      BY <3>1, <3>2
  <2>4. QED
    BY <2>2, <2>3
<1>6. ASSUME EndRecord
      PROVE  Came
  <2>1. Broadcasting /\ broadcast.left = {} /\ UNCHANGED socket
    BY <1>6 DEF EndRecord, browser
  <2>2. \A l \in Nat : l > broadcast.done + 1 => ~Passed(d, l)
    BY <1>1 DEF Passed
  <2>3. CASE broadcast.done + 1 = broadcast.batch
    <3>1. stream' = StreamAfter(broadcast.batch)
      BY <1>6, <2>3 DEF EndRecord
    <3>2. /\ Len(stream') = Len(stream) - broadcast.batch
          /\ \A i \in 1..(Len(stream) - broadcast.batch) :
                stream'[i] = stream[broadcast.batch + i]
      BY <1>1, <3>1, StreamAfterFacts DEF Typed
    <3>3. /\ broadcast.batch + k \in 1..Len(stream) /\ broadcast.batch + k > broadcast.done + 1
          /\ stream'[k] = stream[broadcast.batch + k]
      BY <1>1, <2>3, <3>2
    <3>4. ~Passed(d, broadcast.batch + k)
      BY <1>1, <2>2, <3>3
    <3>5. QED
      BY <3>3, <3>4
  <2>4. CASE broadcast.done + 1 # broadcast.batch
    <3>1. /\ stream' = stream /\ broadcast'.done = broadcast.done + 1
      BY <1>6, <2>4, BatchMoves DEF EndRecord
    <3>2. k \in Nat /\ k > broadcast.done + 1
      BY <1>1, <3>1 DEF Passed
    <3>3. QED
      BY <2>2, <3>1, <3>2
  <2>5. QED
    BY <2>3, <2>4
<1>7. ASSUME NEW e \in Dashboards, Connect(e)
      PROVE  Old(k)
  <2>1. UNCHANGED <<stream, broadcast>>
    BY <1>7 DEF Connect, table, server
  <2>2. \/ socket'[d].conn = socket[d].conn
        \/ socket'[d].conn \notin broadcast.targets
    BY <1>1, <1>7 DEF Connect, Unused
  <2>3. QED
    BY <1>1, <1>2, <2>1, <2>2 DEF Passed, Broadcasting
<1>8. ASSUME NEW e \in Dashboards, OnConnect(e) \/ OnOpen(e)
      PROVE  Old(k)
  <2>1. UNCHANGED <<stream, broadcast>>
    BY <1>8 DEF OnConnect, OnOpen, table
  <2>2. socket'[d].conn = socket[d].conn
    BY <1>1, <1>8 DEF OnConnect, OnOpen, Sockets, NoSocket
  <2>3. QED
    BY <1>2, <2>1, <2>2 DEF Passed, Broadcasting
<1>9. ASSUME NEW e \in Dashboards, OnClose(e)
      PROVE  Old(k)
  <2>1. UNCHANGED <<stream, broadcast>> /\ socket'[d] = socket[d]
    BY <1>1, <1>9 DEF OnClose, table, server, Typed
  <2>2. QED
    BY <1>2, <2>1 DEF Passed, Broadcasting
<1>10. ASSUME \/ \E c \in Conns : \/ ReadState(c) \/ PostState(c)
                                  \/ OnDisconnect(c) \/ ExpireConnection(c)
              \/ \E e \in Dashboards : OnMessage(e)
              \/ UNCHANGED vars
       PROVE  Old(k)
  <2>1. UNCHANGED <<stream, broadcast, socket>>
    BY <1>10 DEF ReadState, ReadRobots, PostState, OnDisconnect, ExpireConnection, OnMessage, vars,
                 table, server, browser
  <2>2. QED
    BY <1>2, <2>1 DEF Passed, Broadcasting
<1>11. k \in 1..Len(stream) \/ ~Old(k)
  OBVIOUS
<1>12. CASE Posts(d)
  BY <1>3, <1>12 DEF Posts
<1>13. CASE ~Posts(d)
  <2>1. Came
    BY <1>3, <1>4, <1>5, <1>6, <1>7, <1>8, <1>9, <1>10, <1>11, FailuresStay
       DEF Next, Broadcast
  <2>2. QED
    BY <1>13, <2>1
<1>14. QED
  BY <1>12, <1>13
\* What a dashboard is told is newer than what it has been told, and older than what is
\* still to come.
LEMMA WireStaysInOrder ==
    /\ Typed /\ Known /\ StreamInOrder /\ WireBehind /\ WireInOrder /\ [Next]_vars
    => WireBehind' /\ WireInOrder'
<1> SUFFICES ASSUME Typed, Known, StreamInOrder, WireBehind, WireInOrder, [Next]_vars,
                    failures' = 0
             PROVE  WireBehind' /\ WireInOrder'
  BY DEF WireBehind, WireInOrder
<1>1. failures = 0
  BY FailuresStay
<1>2. /\ Len(stream) \in Nat /\ broadcast.done \in Nat
      /\ \A k \in 1..Len(stream) : stream[k].robot \in Robots /\ stream[k].version \in Nat
      /\ \A r \in Robots : version[r] \in Nat
  BY BatchFacts, DataFacts DEF Typed
<1>3. \A d \in Dashboards : \A i \in 1..Len(wire[d]) :
         /\ Len(wire[d]) \in Nat
         /\ wire[d][i].type = "robot_update" =>
               wire[d][i].robot \in Robots /\ wire[d][i].version \in Nat
  BY DataFacts DEF Typed
<1>4. ASSUME NEW d \in Dashboards, Posts(d)
      PROVE  /\ broadcast.done + 1 \in 1..Len(stream)
             /\ ~Passed(d, broadcast.done + 1)
             /\ RobotUpdate(Record).type = "robot_update"
             /\ RobotUpdate(Record).robot = stream[broadcast.done + 1].robot
             /\ RobotUpdate(Record).version = stream[broadcast.done + 1].version
  <2>1. broadcast.done + 1 \in 1..Len(stream) /\ Record \in Records
        /\ Record = stream[broadcast.done + 1]
    BY <1>4, BatchFacts DEF Posts
  <2>2. socket[d].conn \in broadcast.left
    BY <1>4 DEF Posts, PostUpdate, Open
  <2>3. QED
    BY <1>2, <2>1, <2>2, DataFacts DEF Passed
<1>5. ASSUME NEW d \in Dashboards, NEW i \in 1..Len(wire'[d]), NEW k \in 1..Len(stream'),
             wire'[d][i].type = "robot_update", wire'[d][i].robot = stream'[k].robot,
             ~Passed(d, k)'
      PROVE  wire'[d][i].version < stream'[k].version
  <2>1. wire'[d] # <<>>
    OBVIOUS
  <2>2. ASSUME NEW r \in Robots, UpsertRobot(r), k = Len(stream) + 1
        PROVE  wire'[d][i].version < stream'[k].version
    <3>1. stream'[k].robot = r /\ stream'[k].version = version[r] + 1
      <4>1. version'[r] = version[r] + 1 /\ stream'[k] = [robot |-> r, version |-> version'[r]]
        BY <2>2, PutFacts
      <4>2. QED
        BY <4>1
    <3>2. wire'[d] = wire[d]
      BY <2>2 DEF UpsertRobot, browser
    <3>3. wire[d][i].version <= version[r] /\ wire[d][i].version \in Nat
      BY <1>3, <1>5, <3>1, <3>2 DEF Known, WireKnown
    <3>4. QED
      BY <1>2, <3>1, <3>2, <3>3
  <2>3. ASSUME NEW l \in 1..Len(stream), stream'[k] = stream[l], ~Passed(d, l),
               Posts(d) => l > broadcast.done + 1
        PROVE  wire'[d][i].version < stream'[k].version
    <3>1. ASSUME NEW j \in 1..Len(wire[d]), wire'[d][i] = wire[d][j]
          PROVE  wire'[d][i].version < stream'[k].version
      BY <1>1, <1>5, <2>3, <3>1 DEF WireBehind
    <3>2. ASSUME wire'[d][i] = RobotUpdate(Record), Posts(d)
          PROVE  wire'[d][i].version < stream'[k].version
      <4>1. stream[broadcast.done + 1].robot = stream[l].robot /\ broadcast.done + 1 < l
        BY <1>2, <1>4, <1>5, <2>3, <3>2
      <4>2. QED
        BY <1>4, <2>3, <3>2, <4>1 DEF StreamInOrder
    <3>3. QED
      BY <1>5, <3>1, <3>2, WireSteps
  <2>4. QED
    BY <1>5, <2>1, <2>2, <2>3, Turns
<1>6. ASSUME NEW d \in Dashboards, NEW i \in 1..Len(wire'[d]), NEW j \in 1..Len(wire'[d]),
             i < j, OfSameRobot(wire'[d][i], wire'[d][j])
      PROVE  wire'[d][i].version < wire'[d][j].version
  <2>1. PICK o \in {0, 1} : \A n \in 1..Len(wire'[d]) :
           \/ n + o \in 1..Len(wire[d]) /\ wire'[d][n] = wire[d][n + o]
           \/ /\ o = 0 /\ n = Len(wire[d]) + 1
              /\ \/ wire'[d][n].type = "initial_state"
                 \/ wire'[d][n] = RobotUpdate(Record) /\ Posts(d)
    BY WireSteps
  <2>2. wire'[d][i].type = "robot_update" /\ wire'[d][j].type = "robot_update"
        /\ wire'[d][i].robot = wire'[d][j].robot
    BY <1>6 DEF OfSameRobot
  <2>3. Len(wire'[d]) \in Nat /\ Len(wire[d]) \in Nat
    BY NextKeepsTypes DEF Typed
  <2>4. j <= Len(wire[d]) + 1 /\ i + o \in 1..Len(wire[d]) /\ wire'[d][i] = wire[d][i + o]
    BY <1>6, <2>1, <2>3
  <2>5. CASE j + o \in 1..Len(wire[d]) /\ wire'[d][j] = wire[d][j + o]
    <3>1. i + o < j + o /\ OfSameRobot(wire[d][i + o], wire[d][j + o])
      BY <1>6, <2>4, <2>5
    <3>2. QED
      BY <1>1, <2>4, <2>5, <3>1 DEF WireInOrder
  <2>6. CASE wire'[d][j] = RobotUpdate(Record) /\ Posts(d)
    <3>1. wire[d][i + o].version < stream[broadcast.done + 1].version
      BY <1>1, <1>4, <2>2, <2>4, <2>6 DEF WireBehind
    <3>2. QED
      BY <1>4, <2>4, <2>6, <3>1
  <2>7. QED
    BY <2>1, <2>2, <2>5, <2>6
<1>7. QED
  BY <1>5, <1>6 DEF WireBehind, WireInOrder
----------------------------------------------------------------------------
\* A put is on its way to every connection, those of the batch under way included.
LEMMA PutComes ==
    ASSUME Typed, NEW r \in Robots, UpsertRobot(r), NEW c
    PROVE  Coming(c, r)'
<1>1. /\ broadcast.done \in Nat /\ broadcast.batch \in Nat /\ Len(stream) \in Nat
      /\ Broadcasting => broadcast.done + 1 <= broadcast.batch
      /\ broadcast.batch <= Len(stream)
      /\ ~Broadcasting => broadcast.done = 0
  BY BatchFacts DEF Typed
<1>2. /\ UNCHANGED broadcast /\ Len(stream') = Len(stream) + 1
      /\ stream'[Len(stream) + 1] = [robot |-> r, version |-> version'[r]]
  BY PutFacts
<1>3. /\ Len(stream) + 1 \in 1..Len(stream') /\ Len(stream) + 1 > broadcast'.done
      /\ ~(Len(stream) + 1 <= broadcast'.batch)
      /\ ~(Broadcasting' /\ Len(stream) + 1 = broadcast'.done + 1)
  BY <1>1, <1>2 DEF Broadcasting
<1>4. QED
  BY <1>2, <1>3 DEF Coming

\* The scan of a batch has not seen connection c.
Skips(c) ==
    \E k \in 1..BatchSize, conns \in SUBSET Scannable : BeginBroadcast(k, conns) /\ c \notin conns

\* A record that is on its way to a connection stays so, unless it has just been posted to
\* it or its batch goes without it.
LEMMA ComingStays ==
    ASSUME Typed, [Next]_vars, failures' = 0,
           NEW c \in registered', c \in registered, NEW r \in Robots, Coming(c, r)
    PROVE  \/ Coming(c, r)'
           \/ /\ PostUpdate(c) /\ Broadcasting
              /\ Record = [robot |-> r, version |-> version[r]]
           \/ Skips(c)
<1> DEFINE Posted1 == /\ PostUpdate(c) /\ Broadcasting
                      /\ Record = [robot |-> r, version |-> version[r]]
<1>1. /\ broadcast.done \in Nat /\ broadcast.batch \in Nat /\ Len(stream) \in Nat
      /\ broadcast.left \subseteq broadcast.targets
      /\ Broadcasting => broadcast.done + 1 <= broadcast.batch
      /\ broadcast.batch <= Len(stream)
  BY BatchFacts DEF Typed
<1>2. PICK k \in 1..Len(stream) :
         /\ stream[k] = [robot |-> r, version |-> version[r]]
         /\ k > broadcast.done
         /\ k <= broadcast.batch => c \in broadcast.targets
         /\ Broadcasting /\ k = broadcast.done + 1 => c \in broadcast.left
  BY DEF Coming
<1>3. ASSUME UNCHANGED <<version, stream, broadcast>>
      PROVE  Coming(c, r)'
  BY <1>2, <1>3 DEF Coming, Broadcasting
<1>4. ASSUME NEW q \in Robots, UpsertRobot(q)
      PROVE  Coming(c, r)'
  <2>1. CASE q = r
    BY <1>4, <2>1, PutComes
  <2>2. CASE q # r
    <3>1. /\ version'[r] = version[r] /\ UNCHANGED broadcast
          /\ k \in 1..Len(stream') /\ stream'[k] = stream[k]
      <4>1. /\ version'[r] = version[r] /\ UNCHANGED broadcast
            /\ Len(stream') = Len(stream) + 1
            /\ \A i \in 1..Len(stream) : stream'[i] = stream[i]
        BY <1>4, <2>2, PutFacts
      <4>2. QED
        BY <1>1, <4>1
    <3>2. stream'[k] = [robot |-> r, version |-> version'[r]]
      BY <1>2, <3>1
    <3>3. QED
      BY <1>2, <3>1, <3>2 DEF Coming, Broadcasting
  <2>3. QED
    BY <2>1, <2>2
<1>5. ASSUME NEW n \in 1..BatchSize, NEW conns \in SUBSET Scannable, BeginBroadcast(n, conns),
             c \in conns
      PROVE  Coming(c, r)'
  <2>1. /\ UNCHANGED <<version, stream, registered>> /\ broadcast' = BatchTo(n, conns)
    BY <1>5 DEF BeginBroadcast
  <2>2. /\ broadcast'.done = 0 /\ c \in broadcast'.targets /\ c \in broadcast'.left
    BY <1>5, <2>1, BatchBegins
  <2>3. /\ k \in 1..Len(stream') /\ k > broadcast'.done
        /\ stream'[k] = [robot |-> r, version |-> version'[r]]
    BY <1>2, <2>1, <2>2
  <2>4. QED
    BY <2>2, <2>3 DEF Coming
<1>6. ASSUME NEW b \in Conns, PostUpdate(b)
      PROVE  Coming(c, r)' \/ Posted1
  <2>1. /\ UNCHANGED <<version, stream>> /\ Broadcasting
        /\ broadcast'.batch = broadcast.batch /\ broadcast'.done = broadcast.done
        /\ broadcast'.left = broadcast.left \ {b} /\ broadcast'.targets = broadcast.targets
    BY <1>6, BatchFacts, BatchMoves DEF PostUpdate, table
  <2>2. CASE k = broadcast.done + 1 /\ b = c
    BY <1>2, <1>6, <2>1, <2>2, BatchFacts
  <2>3. CASE ~(k = broadcast.done + 1 /\ b = c)
    BY <1>2, <2>1, <2>3 DEF Coming, Broadcasting
  <2>4. QED
    BY <2>2, <2>3
<1>7. ASSUME EndRecord
      PROVE  Coming(c, r)'
  <2>1. Broadcasting /\ broadcast.left = {} /\ UNCHANGED version
    BY <1>7 DEF EndRecord
  <2>2. k > broadcast.done + 1
    BY <1>1, <1>2, <2>1
  <2>3. CASE broadcast.done + 1 = broadcast.batch
    <3>1. broadcast' = NoBroadcast /\ stream' = StreamAfter(broadcast.batch)
      BY <1>7, <2>3 DEF EndRecord
    <3>2. /\ Len(stream') = Len(stream) - broadcast.batch
          /\ \A i \in 1..(Len(stream) - broadcast.batch) :
                stream'[i] = stream[broadcast.batch + i]
      BY <1>1, <3>1, StreamAfterFacts DEF Typed
    <3>3. /\ k - broadcast.batch \in 1..Len(stream')
          /\ stream'[k - broadcast.batch] = stream[k]
      <4>1. /\ k - broadcast.batch \in 1..(Len(stream) - broadcast.batch)
            /\ broadcast.batch + (k - broadcast.batch) = k
        BY <1>1, <2>2, <2>3
      <4>2. stream'[k - broadcast.batch] = stream[broadcast.batch + (k - broadcast.batch)]
        BY <3>2, <4>1
      <4>3. QED
        BY <3>2, <4>1, <4>2
    <3>4. broadcast'.batch = 0 /\ broadcast'.done = 0 /\ ~Broadcasting'
      BY <3>1, BatchFacts DEF Broadcasting
    <3>5. QED
      BY <1>2, <2>1, <3>3, <3>4 DEF Coming
  <2>4. CASE broadcast.done + 1 # broadcast.batch
    <3>1. /\ stream' = stream /\ broadcast'.batch = broadcast.batch
          /\ broadcast'.done = broadcast.done + 1
          /\ broadcast'.left = broadcast.targets /\ broadcast'.targets = broadcast.targets
      BY <1>7, <2>4, BatchMoves DEF EndRecord
    <3>2. k = broadcast.done + 2 => k <= broadcast.batch
      BY <1>1, <2>1, <2>4
    <3>3. /\ k \in 1..Len(stream') /\ stream'[k] = [robot |-> r, version |-> version'[r]]
          /\ k > broadcast'.done
          /\ k <= broadcast'.batch => c \in broadcast'.targets
          /\ k = broadcast'.done + 1 => c \in broadcast'.left
      <4>1. k \in 1..Len(stream') /\ stream'[k] = [robot |-> r, version |-> version'[r]]
        BY <1>2, <2>1, <3>1
      <4>2. k > broadcast'.done /\ (k <= broadcast'.batch => c \in broadcast'.targets)
        BY <1>1, <1>2, <2>2, <3>1
      <4>3. k = broadcast'.done + 1 => k = broadcast.done + 2
        BY <1>1, <3>1
      <4>4. QED
        BY <1>2, <3>1, <3>2, <4>1, <4>2, <4>3
    <3>4. QED
      BY <3>3 DEF Coming
  <2>5. QED
    BY <2>3, <2>4
<1>8. ASSUME \/ \E b \in Conns : \/ ReadState(b) \/ PostState(b)
                                 \/ OnDisconnect(b) \/ ExpireConnection(b)
             \/ \E d \in Dashboards : \/ Connect(d) \/ OnConnect(d) \/ OnOpen(d)
                                      \/ OnMessage(d) \/ OnClose(d)
             \/ UNCHANGED vars
      PROVE  Coming(c, r)'
  <2>1. UNCHANGED <<version, stream, broadcast>>
    BY <1>8 DEF ReadState, ReadRobots, PostState, OnDisconnect, ExpireConnection, Connect, OnConnect,
                OnOpen, OnMessage, OnClose, vars, table, server
  <2>2. QED
    BY <1>3, <2>1
<1>9. QED
  BY <1>4, <1>5, <1>6, <1>7, <1>8, FailuresStay DEF Next, Broadcast, Skips
\* Only a socket that closes, or a post that tells it the newest versions, makes a dashboard
\* one that is not behind.
LEMMA StaysBehind ==
    ASSUME Typed, [Next]_vars, NEW d \in Dashboards, d \in behind, d \notin behind',
           NEW c, socket'[d] = Open(c)
    PROVE  sent'[d] = version'
<1>1. ASSUME NEW b, NEW msg, NEW f, Posted(b, msg, f), UNCHANGED version
      PROVE  sent'[d] = version'
  BY <1>1 DEF Posted
<1>2. ASSUME NEW b \in Conns, PostUpdate(b) \/ PostState(b)
      PROVE  sent'[d] = version'
  BY <1>1, <1>2 DEF PostUpdate, PostState, table
<1>3. ASSUME NEW e \in Dashboards, OnClose(e)
      PROVE  FALSE
  BY <1>3 DEF OnClose, Typed, NoSocket, Open
<1>4. ASSUME NEW k \in 1..BatchSize, NEW conns \in SUBSET Scannable, BeginBroadcast(k, conns)
      PROVE  FALSE
  BY <1>4 DEF BeginBroadcast
<1>5. ASSUME NEW b \in Conns, \/ PostUpdateFails(b) \/ ReadState(b) \/ SubscribeFails(b)
                              \/ OnDisconnect(b) \/ ExpireConnection(b)
      PROVE  FALSE
  BY <1>5 DEF PostUpdateFails, ReadState, ReadRobots, SubscribeFails, OnDisconnect,
              ExpireConnection, browser
<1>6. ASSUME NEW e \in Dashboards, Connect(e) \/ OnConnect(e) \/ OnOpen(e) \/ OnMessage(e)
      PROVE  FALSE
  BY <1>6 DEF Connect, OnConnect, OnOpen, OnMessage
<1>7. CASE \E r \in Robots : UpsertRobot(r)
  BY <1>7 DEF UpsertRobot, browser
<1>8. CASE EndRecord \/ BroadcastFails \/ UNCHANGED vars
  BY <1>8 DEF EndRecord, BroadcastFails, vars, browser
<1>9. QED
  BY <1>2, <1>3, <1>4, <1>5, <1>6, <1>7, <1>8 DEF Next, Broadcast

\* Whatever happens between a read of the table and the post of its result, the robot's
\* newest version is in what was read, has been sent, or is on its way.
LEMMA ToldStays ==
    Typed /\ Known /\ OneOwner /\ Told /\ [Next]_vars => Told'
<1> SUFFICES ASSUME Typed, Known, OneOwner, Told, [Next]_vars, failures' = 0,
                    NEW d \in Dashboards, d \notin behind', NEW c \in registered',
                    NEW r \in Robots, socket'[d] = Open(c), subscription'[c].at # "sent",
                    d \notin behind
             PROVE  Informed(d, c, r)'
  BY StaysBehind DEF Told, Informed
<1>1. /\ failures = 0 /\ Typed' /\ c \in Conns /\ c # None
      /\ subscription \in [Conns -> Subscriptions] /\ socket \in [Dashboards -> Sockets]
  BY FailuresStay, NextKeepsTypes, Assumed DEF Typed, Assumptions
<1>2. /\ version[r] \in Nat /\ sent[d][r] \in Nat /\ sent[d][r] <= version[r]
      /\ \A b \in Conns : /\ subscription[b].robots \in Versions
                          /\ subscription[b].robots[r] \in Nat
                          /\ subscription[b].robots[r] <= version[r]
  BY DataFacts DEF Typed, Subscriptions, Known, SentKnown, ReadKnown
<1>3. ASSUME c \in registered, socket[d] = Open(c), subscription[c].at # "sent"
      PROVE  Informed(d, c, r)
  BY <1>1, <1>3 DEF Told
<1>4. ASSUME c \in registered, Coming(c, r), ~PostUpdate(c), ~Skips(c)
      PROVE  Informed(d, c, r)'
  BY <1>4, ComingStays DEF Informed
<1>5. ASSUME c \in registered, socket[d] = Open(c), ~PostUpdate(c), ~Skips(c),
             version'[r] = version[r], sent'[d][r] = sent[d][r],
             subscription'[c] = subscription[c]
      PROVE  Informed(d, c, r)'
  <2>1. Informed(d, c, r)
    BY <1>3, <1>5
  <2>2. QED
    BY <1>4, <1>5, <2>1 DEF Informed
<1>6. ASSUME NEW b \in Conns, NEW msg \in Messages, NEW f \in Versions, Posted(b, msg, f),
             socket[d] = Open(c)
      PROVE  sent'[d][r] = IF b = c /\ f[r] > sent[d][r] THEN f[r] ELSE sent[d][r]
  <2>1. PICK e \in Dashboards : Reaches(e, b, msg, f)
    BY <1>6, PostedFacts
  <2>2. socket[e].conn = b /\ socket[d].conn = c
    BY <1>6, <2>1 DEF Open, Reaches
  <2>3. b = c <=> e = d
    BY <1>1, <2>2 DEF OneOwner
  <2>4. CASE e = d
    BY <2>1, <2>3, <2>4 DEF Reaches
  <2>5. CASE e # d
    BY <2>1, <2>3, <2>5 DEF Reaches
  <2>6. QED
    BY <2>4, <2>5
<1>7. ASSUME NEW b \in Conns, PostUpdate(b), socket[d] = Open(c)
      PROVE  /\ UNCHANGED <<version, registered, subscription, socket>>
             /\ b # c => sent'[d][r] = sent[d][r]
             /\ b = c => sent'[d][r] =
                            IF Record.robot = r /\ Record.version > sent[d][r]
                              THEN Record.version ELSE sent[d][r]
             /\ Record.robot = r => Record.version \in Nat /\ Record.version <= version[r]
  <2> DEFINE f == [Nothing EXCEPT ![Record.robot] = Record.version]
  <2>1. /\ Broadcasting /\ Record \in Records /\ Record.robot \in Robots
        /\ Record.version \in 0..MaxVersion /\ Record.version <= version[Record.robot]
    BY <1>7, BatchFacts, DataFacts, Assumed DEF PostUpdate, Assumptions, Known, StreamKnown
  <2>2. RobotUpdate(Record) \in Messages /\ f \in Versions
    BY <2>1, DataFacts
  <2>3. f[r] = IF r = Record.robot THEN Record.version ELSE 0
    BY DEF Nothing
  <2>4. \/ Posted(b, RobotUpdate(Record), f)
        \/ sent' = sent /\ ~Reachable(b)
    BY <1>7 DEF PostUpdate
  <2>5. Reachable(c)
    BY <1>7 DEF Reachable
  <2> HIDE DEF f
  <2>6. CASE Posted(b, RobotUpdate(Record), f)
    BY <1>2, <1>6, <1>7, <2>1, <2>2, <2>3, <2>6 DEF PostUpdate, table
  <2>7. CASE sent' = sent /\ ~Reachable(b)
    BY <1>7, <2>1, <2>5, <2>7 DEF PostUpdate, table
  <2>8. QED
    BY <2>4, <2>6, <2>7
<1>8. CASE PostUpdate(c) /\ ~Skips(c)
  <2>1. UNCHANGED <<version, registered, subscription, socket>> /\ socket[d] = Open(c)
    BY <1>8 DEF PostUpdate, table
  <2>2. Informed(d, c, r)
    BY <1>3, <2>1
  <2>3. CASE sent[d][r] = version[r]
    BY <1>1, <1>2, <1>7, <1>8, <2>1, <2>3 DEF Informed
  <2>4. CASE Coming(c, r)
    <3>1. CASE Coming(c, r)'
      BY <3>1 DEF Informed
    <3>2. CASE Record = [robot |-> r, version |-> version[r]]
      <4>1. Record.robot = r /\ Record.version = version[r]
        BY <3>2
      <4>2. sent'[d][r] = version'[r]
        BY <1>1, <1>2, <1>7, <1>8, <2>1, <4>1
      <4>3. QED
        BY <4>2 DEF Informed
    <3>3. QED
      BY <1>8, <2>1, <2>4, <3>1, <3>2, ComingStays
  <2>5. CASE subscription[c].at = "read" /\ subscription[c].robots[r] = version[r]
    BY <2>1, <2>5 DEF Informed
  <2>6. QED
    BY <2>2, <2>3, <2>4, <2>5 DEF Informed
<1>9. CASE ~PostUpdate(c) /\ ~Skips(c)
  <2>1. ASSUME NEW q \in Robots, UpsertRobot(q)
        PROVE  Informed(d, c, r)'
    <3>1. CASE q = r
      BY <2>1, <3>1, PutComes DEF Informed
    <3>2. CASE q # r
      BY <1>5, <1>9, <2>1, <3>2, PutFacts DEF UpsertRobot, server, browser
    <3>3. QED
      BY <3>1, <3>2
  <2>2. ASSUME NEW b \in Conns, PostUpdate(b)
        PROVE  Informed(d, c, r)'
    BY <1>5, <1>7, <1>9, <2>2 DEF PostUpdate
  <2>3. ASSUME NEW b \in Conns, ReadState(b)
        PROVE  Informed(d, c, r)'
    <3>1. CASE b = c
      <4>1. PICK robots \in Readable : ReadRobots(c, robots)
        BY <2>3, <3>1 DEF ReadState
      <4>2. /\ UNCHANGED <<version, sent, socket>>
            /\ subscription'[c].at = "read" /\ subscription'[c].robots = robots
        BY <1>1, <4>1 DEF ReadRobots, table
      <4>3. sent[d] = version \/ robots = version
        BY <4>1, <4>2 DEF ReadRobots
      <4>4. QED
        BY <4>2, <4>3 DEF Informed
    <3>2. CASE b # c
      BY <1>1, <1>5, <1>9, <2>3, <3>2 DEF ReadState, ReadRobots, table, browser
    <3>3. QED
      BY <3>1, <3>2
  <2>4. ASSUME NEW b \in Conns, PostState(b)
        PROVE  Informed(d, c, r)'
    <3> DEFINE robots == subscription[b].robots
               msg == [type |-> "initial_state", robots |-> robots]
    <3>1. /\ UNCHANGED <<version, socket>> /\ socket[d] = Open(c) /\ Reachable(c)
          /\ c \in registered /\ (b = c => subscription[c].at = "read")
          /\ (b # c => subscription'[c] = subscription[c])
      BY <1>1, <2>4 DEF PostState, table, Reachable, Typed
    <3>2. robots \in Versions /\ msg \in Messages
      BY <1>2, DataFacts
    <3>3. Posted(b, msg, robots) \/ (b # c /\ sent' = sent)
      BY <2>4, <3>1 DEF PostState
    <3>4. sent'[d][r] = IF b = c /\ robots[r] > sent[d][r] THEN robots[r] ELSE sent[d][r]
      BY <1>6, <3>1, <3>2, <3>3
    <3>5. CASE b # c
      BY <1>5, <1>9, <3>1, <3>4, <3>5
    <3>6. CASE b = c
      <4>1. Informed(d, c, r)
        BY <1>3, <3>1, <3>6
      <4>2. CASE Coming(c, r)
        BY <1>4, <1>9, <3>1, <4>2
      <4>3. CASE sent[d][r] = version[r] \/ robots[r] = version[r]
        BY <1>2, <3>1, <3>4, <3>6, <4>3 DEF Informed
      <4>4. QED
        BY <3>6, <4>1, <4>2, <4>3 DEF Informed
    <3>7. QED
      BY <3>5, <3>6
  <2>5. ASSUME NEW e \in Dashboards, OnConnect(e)
        PROVE  Informed(d, c, r)'
    <3>1. e # d
      BY <1>1, <2>5 DEF OnConnect, Open
    <3>2. socket[d] = Open(c) /\ socket[d].conn = c
      BY <1>1, <2>5, <3>1 DEF OnConnect, Open
    <3>3. c \in registered
      BY <1>1, <2>5, <3>1, <3>2 DEF OnConnect, OneOwner
    <3>4. QED
      BY <1>5, <1>9, <2>5, <3>2, <3>3 DEF OnConnect, table
  <2>6. ASSUME NEW e \in Dashboards, OnOpen(e)
        PROVE  Informed(d, c, r)'
    <3>1. \A x \in Dashboards : socket'[x].conn = socket[x].conn
      BY <1>1, <2>6 DEF OnOpen, Sockets, NoSocket
    <3>2. socket[d].conn = c
      BY <3>1 DEF Open
    <3>3. e # d
      BY <1>1, <2>6, <3>2 DEF OnOpen, Subscriptions
    <3>4. socket[d] = Open(c) /\ subscription'[c] = subscription[c]
      BY <1>1, <2>6, <3>2, <3>3 DEF OnOpen, OneOwner
    <3>5. QED
      BY <1>5, <1>9, <2>6, <3>4 DEF OnOpen, table
  <2>7. ASSUME NEW e \in Dashboards, Connect(e) \/ OnClose(e) \/ OnMessage(e)
        PROVE  Informed(d, c, r)'
    <3>1. socket[d] = Open(c) /\ sent'[d] = sent[d]
      <4>1. CASE Connect(e)
        BY <1>1, <4>1 DEF Connect, Open
      <4>2. CASE OnClose(e)
        BY <1>1, <4>2 DEF OnClose, Open, NoSocket, Typed
      <4>3. CASE OnMessage(e)
        BY <4>3 DEF OnMessage
      <4>4. QED
        BY <2>7, <4>1, <4>2, <4>3
    <3>2. QED
      BY <1>5, <1>9, <2>7, <3>1 DEF Connect, OnClose, OnMessage, table, server
  <2>8. ASSUME \/ \E k \in 1..BatchSize, conns \in SUBSET Scannable : BeginBroadcast(k, conns)
               \/ EndRecord
               \/ \E b \in Conns : OnDisconnect(b) \/ ExpireConnection(b)
               \/ UNCHANGED vars
        PROVE  Informed(d, c, r)'
    <3>1. UNCHANGED <<version, subscription, socket, sent>> /\ registered' \subseteq registered
      BY <2>8 DEF BeginBroadcast, EndRecord, OnDisconnect, ExpireConnection, vars, table,
                  server, browser
    <3>2. QED
      BY <1>5, <1>9, <3>1
  <2>9. QED
    BY <2>1, <2>2, <2>3, <2>4, <2>5, <2>6, <2>7, <2>8, FailuresStay DEF Next, Broadcast
<1>10. CASE Skips(c)
  <2>1. PICK k \in 1..BatchSize, conns \in SUBSET Scannable :
           BeginBroadcast(k, conns) /\ c \notin conns
    BY <1>10 DEF Skips
  <2>2. /\ UNCHANGED <<version, registered, subscription, socket, sent>>
        /\ d \notin Overlooked(conns)
    BY <2>1 DEF BeginBroadcast
  <2>3. sent[d] = version
    BY <2>1, <2>2 DEF Overlooked
  <2>4. QED
    BY <2>2, <2>3 DEF Informed
<1>11. QED
  BY <1>8, <1>9, <1>10
----------------------------------------------------------------------------
LEMMA InitSafe == Init => IInv
<1> SUFFICES ASSUME Init
             PROVE  IInv
  OBVIOUS
<1>1. Known
  BY DEF Init, Known, StreamKnown, ReadKnown, SentKnown, WireKnown, Nothing, NoSubscription
<1>2. StreamInOrder /\ WireBehind /\ WireInOrder
  BY DEF Init, StreamInOrder, WireBehind, WireInOrder
<1>3. OneOwner /\ Told
  BY DEF Init, OneOwner, Told, NoSocket
<1>4. QED
  BY <1>1, <1>2, <1>3 DEF IInv

\* IInv is inductive, given the types.
LEMMA InvariantStays == Typed /\ IInv /\ [Next]_vars => IInv'
BY KnownStays, StreamStaysInOrder, WireStaysInOrder, OwnersStay, ToldStays DEF IInv

LEMMA Invariant == Spec => [](Typed /\ IInv)
BY InitTyped, InitSafe, NextKeepsTypes, InvariantStays, PTL DEF Spec

\* However batches, posts and closing sockets interleave: without a failure a dashboard is
\* told of a robot's updates in the order of their puts.
THEOREM UpdatesInOrder == Spec => []WireInOrder
<1>1. IInv => WireInOrder
  BY DEF IInv
<1>2. QED
  BY <1>1, Invariant, PTL

\* Without a failure no registered dashboard that has been sent its state misses a put,
\* wherever it falls between the read of the table, the post of what was read and the
\* batches, unless the scan of the robots for its state, or the scan of the connections for
\* a batch after that, was late and it has not been told of the newest versions since.
THEOREM NoUpdateMissed == Spec => []NothingMissed
<1>1. IInv => NothingMissed
  BY DEF IInv, Told, NothingMissed, Informed
<1>2. QED
  BY <1>1, Invariant, PTL

\* While nothing fails a dashboard is told in order, and of everything that no late scan has
\* kept from it.
THEOREM AllIsTold == Spec => []WellInformed
BY UpdatesInOrder, NoUpdateMissed, PTL DEF WellInformed
----------------------------------------------------------------------------
(* The stream and the broadcaster's place in it.                           *)

\* The newest put of r up to position k of the stream is v: everything after it is still
\* behind k, and r's record at k, if there is one, is that put.
UpTo(r, k, v) == LeftAfter(r, k, v) /\ (k > 0 /\ stream[k].robot = r => stream[k].version = v)

\* The stream has every put after the first it has: cut anywhere, it goes on where it was cut.
StreamGapless == \A r \in Robots, k \in 0..Len(stream) : \E v \in 0..version[r] : UpTo(r, k, v)

\* Nothing has been asked on a connection that is not open yet.
NotAsked ==
    \A d \in Dashboards :
        socket[d].at \in {"connecting", "accepted"} =>
            subscription[socket[d].conn] = NoSubscription

\* A put follows the last one, and a batch leaves nothing behind it that it had before it.
LEMMA StreamStaysGapless == Typed /\ StreamGapless /\ [Next]_vars => StreamGapless'
<1> SUFFICES ASSUME Typed, StreamGapless, [Next]_vars,
                    NEW r \in Robots, NEW k \in 0..Len(stream')
             PROVE  \E v \in 0..version'[r] : UpTo(r, k, v)'
  BY DEF StreamGapless
<1>1. Len(stream) \in Nat /\ \A q \in Robots : version[q] \in Nat
  BY BatchFacts, DataFacts DEF Typed
<1>2. ASSUME NEW n \in Nat, UNCHANGED version, n <= Len(stream),
             Len(stream') = Len(stream) - n,
             \A i \in 1..Len(stream') : stream'[i] = stream[n + i]
      PROVE  \E v \in 0..version'[r] : UpTo(r, k, v)'
  <2>1. k \in Nat /\ n + k \in 0..Len(stream)
    BY <1>1, <1>2
  <2>2. PICK v \in 0..version[r] : UpTo(r, n + k, v)
    BY <2>1 DEF StreamGapless
  <2>3. \A l \in (k + 1)..Len(stream') : /\ n + l \in (n + k + 1)..Len(stream)
                                         /\ stream'[l] = stream[n + l]
    BY <1>1, <1>2, <2>1
  <2>4. \A l \in (n + k + 1)..Len(stream) : /\ l - n \in (k + 1)..Len(stream')
                                            /\ stream'[l - n] = stream[l]
    <3> SUFFICES ASSUME NEW l \in (n + k + 1)..Len(stream)
                 PROVE  l - n \in (k + 1)..Len(stream') /\ stream'[l - n] = stream[l]
      OBVIOUS
    <3>1. l - n \in (k + 1)..Len(stream') /\ l - n \in 1..Len(stream') /\ n + (l - n) = l
      BY <1>1, <1>2, <2>1
    <3>2. stream'[l - n] = stream[n + (l - n)]
      BY <1>2, <3>1
    <3>3. QED
      BY <3>1, <3>2
  <2>5. LeftAfter(r, k, v)'
    <3>1. \A l \in (k + 1)..Len(stream') : stream'[l].robot = r => stream'[l].version > v
      <4>1. \A l \in (n + k + 1)..Len(stream) : stream[l].robot = r => stream[l].version > v
        BY <2>2 DEF UpTo, LeftAfter
      <4>2. QED
        BY <2>3, <4>1
    <3>2. v = version[r] \/ \E l \in (n + k + 1)..Len(stream) :
                                stream[l] = [robot |-> r, version |-> v + 1]
      BY <2>2 DEF UpTo, LeftAfter
    <3>3. v = version'[r] \/ \E l \in (k + 1)..Len(stream') :
                                stream'[l] = [robot |-> r, version |-> v + 1]
      BY <1>2, <2>4, <3>2
    <3>4. QED
      BY <3>1, <3>3 DEF LeftAfter
  <2>6. k > 0 => stream'[k] = stream[n + k] /\ n + k > 0
    BY <1>2, <2>1
  <2>7. UpTo(r, k, v)'
    BY <2>2, <2>5, <2>6 DEF UpTo
  <2>8. QED
    BY <1>2, <2>7
<1>3. ASSUME NEW q \in Robots, version'[q] = version[q] + 1,
             \A p \in Robots : p # q => version'[p] = version[p],
             Len(stream') = Len(stream) + 1,
             \A i \in 1..Len(stream) : stream'[i] = stream[i],
             stream'[Len(stream) + 1] = [robot |-> q, version |-> version'[q]]
      PROVE  \E v \in 0..version'[r] : UpTo(r, k, v)'
  <2> DEFINE n == Len(stream)
  <2>1. stream'[n + 1].robot = q /\ stream'[n + 1].version = version'[q]
    BY <1>3
  <2>2. CASE k = n + 1
    <3>1. PICK v \in 0..version'[r] : v = version'[r]
      BY <1>1, <1>3
    <3>2. LeftAfter(r, k, v)'
      BY <1>1, <1>3, <2>2, <3>1 DEF LeftAfter
    <3>3. UpTo(r, k, v)'
      BY <2>1, <2>2, <3>1, <3>2 DEF UpTo
    <3>4. QED
      BY <3>3
  <2>3. CASE k # n + 1
    <3>1. k \in 0..n
      BY <1>1, <1>3, <2>3
    <3>2. PICK v \in 0..version[r] : UpTo(r, k, v)
      BY <3>1 DEF StreamGapless
    <3>3. \A l \in (k + 1)..n : stream'[l] = stream[l] /\ l \in (k + 1)..Len(stream')
      BY <1>1, <1>3, <3>1
    <3>4. \A l \in (k + 1)..Len(stream') : l \in (k + 1)..n \/ l = n + 1
      BY <1>1, <1>3, <3>1
    <3>5. n + 1 \in (k + 1)..Len(stream')
      BY <1>1, <1>3, <3>1
    <3>6. \A l \in (k + 1)..Len(stream') : stream'[l].robot = r => stream'[l].version > v
      <4>1. q = r => version'[q] > v
        BY <1>1, <1>3, <3>2
      <4>2. QED
        BY <2>1, <3>2, <3>3, <3>4, <4>1 DEF UpTo, LeftAfter
    <3>7. v = version'[r] \/ \E l \in (k + 1)..Len(stream') :
                                stream'[l] = [robot |-> r, version |-> v + 1]
      <4>1. CASE v = version[r] /\ q = r
        BY <1>3, <3>5, <4>1
      <4>2. CASE v = version[r] /\ q # r
        BY <1>3, <4>2
      <4>3. CASE v # version[r]
        BY <3>2, <3>3, <4>3 DEF UpTo, LeftAfter
      <4>4. QED
        BY <4>1, <4>2, <4>3
    <3>8. k > 0 => stream'[k] = stream[k]
      BY <1>3, <3>1
    <3>9. UpTo(r, k, v)'
      BY <3>2, <3>6, <3>7, <3>8 DEF UpTo, LeftAfter
    <3>10. v \in 0..version'[r]
      BY <1>1, <1>3
    <3>11. QED
      BY <3>9, <3>10
  <2>4. QED
    BY <2>2, <2>3
<1>4. QED
  BY <1>2, <1>3, TableSteps

\* A connection is new when its dashboard gets it, and its dashboard alone subscribes on it.
LEMMA NotAskedStays ==
    Typed /\ OneOwner /\ NotAsked /\ [Next]_vars => NotAsked'
<1> SUFFICES ASSUME Typed, OneOwner, NotAsked, [Next]_vars,
                    NEW d \in Dashboards, socket'[d].at \in {"connecting", "accepted"}
             PROVE  subscription'[socket'[d].conn] = NoSubscription
  BY DEF NotAsked
<1> DEFINE Goal == subscription'[socket'[d].conn] = NoSubscription
<1>1. socket \in [Dashboards -> Sockets] /\ subscription \in [Conns -> Subscriptions]
  BY DEF Typed
<1>2. socket[d] # NoSocket => socket[d].conn \in Conns /\ socket[d].conn # None
  BY <1>1, SocketFacts
<1>3. ASSUME socket'[d] = socket[d], socket[d].conn \in Conns =>
                   \/ subscription'[socket[d].conn] = subscription[socket[d].conn]
                   \/ subscription'[socket[d].conn] = NoSubscription
      PROVE  Goal
  <2>1. socket[d].conn \in Conns /\ subscription[socket[d].conn] = NoSubscription
    BY <1>2, <1>3 DEF NotAsked, NoSocket
  <2>2. QED
    BY <1>3, <2>1
<1>4. ASSUME UNCHANGED <<socket, subscription>>
      PROVE  Goal
  BY <1>3, <1>4
<1>5. ASSUME NEW c \in Conns, ReadState(c)
      PROVE  Goal
  <2>1. socket'[d] = socket[d] /\ subscription[socket[d].conn] = NoSubscription
    BY <1>5 DEF ReadState, ReadRobots, browser, NotAsked
  <2>2. socket[d].conn # c
    BY <1>5, <2>1 DEF ReadState, ReadRobots, NoSubscription
  <2>3. QED
    BY <1>3, <1>5, <2>1, <2>2, <1>1 DEF ReadState, ReadRobots
<1>6. ASSUME NEW c \in Conns, PostState(c) \/ SubscribeFails(c)
      PROVE  Goal
  <2>1. socket' = socket /\ subscription' = [subscription EXCEPT ![c] = NoSubscription]
    BY <1>6 DEF PostState, SubscribeFails, browser
  <2>2. QED
    BY <1>1, <1>3, <2>1
<1>7. ASSUME NEW e \in Dashboards, Connect(e)
      PROVE  Goal
  <2>1. CASE e = d
    <3>1. PICK c \in Conns : /\ Unused(c)
                             /\ socket' = [socket EXCEPT ![e] = [at |-> "connecting", conn |-> c]]
      BY <1>7 DEF Connect
    <3>2. socket'[d].conn = c /\ subscription' = subscription
      BY <1>1, <1>7, <2>1, <3>1 DEF Connect, server
    <3>3. QED
      BY <3>1, <3>2 DEF Unused
  <2>2. CASE e # d
    BY <1>1, <1>3, <1>7, <2>2 DEF Connect, server
  <2>3. QED
    BY <2>1, <2>2
<1>8. ASSUME NEW e \in Dashboards, OnConnect(e)
      PROVE  Goal
  <2>1. UNCHANGED subscription /\ socket[e].at = "connecting"
        /\ socket' = [socket EXCEPT ![e].at = "accepted"]
    BY <1>8 DEF OnConnect
  <2>2. CASE e = d
    <3>1. socket'[d].conn = socket[d].conn
      BY <1>1, <2>1, <2>2, SocketFacts DEF NoSocket
    <3>2. QED
      BY <2>1, <2>2, <3>1 DEF NotAsked
  <2>3. CASE e # d
    BY <1>1, <1>3, <2>1, <2>3
  <2>4. QED
    BY <2>2, <2>3
<1>9. ASSUME NEW e \in Dashboards, OnOpen(e)
      PROVE  Goal
  <2>1. /\ socket[e].at = "accepted" /\ socket' = [socket EXCEPT ![e].at = "open"]
        /\ subscription' = [subscription EXCEPT ![socket[e].conn].at = "sent"]
    BY <1>9 DEF OnOpen
  <2>2. e # d
    BY <1>1, <2>1, SocketFacts DEF NoSocket
  <2>3. socket'[d] = socket[d] /\ socket[d] # NoSocket
    BY <1>1, <2>1, <2>2 DEF NoSocket
  <2>4. socket[d].conn # socket[e].conn
    BY <1>2, <2>2, <2>3 DEF OneOwner
  <2>5. QED
    BY <1>1, <1>3, <2>1, <2>3, <2>4
<1>10. ASSUME NEW e \in Dashboards, OnClose(e)
       PROVE  Goal
  <2>1. socket' = [socket EXCEPT ![e] = NoSocket] /\ UNCHANGED subscription
    BY <1>10 DEF OnClose, server
  <2>2. e # d
    BY <1>1, <2>1 DEF NoSocket
  <2>3. QED
    BY <1>1, <1>3, <2>1, <2>2
<1>11. ASSUME NEW c \in Conns, \/ PostUpdate(c) \/ PostUpdateFails(c)
                               \/ OnDisconnect(c) \/ ExpireConnection(c)
       PROVE  Goal
  BY <1>4, <1>11 DEF PostUpdate, PostUpdateFails, OnDisconnect, ExpireConnection, browser
<1>12. CASE \/ \E r \in Robots : UpsertRobot(r)
            \/ \E k \in 1..BatchSize, conns \in SUBSET Scannable : BeginBroadcast(k, conns)
            \/ \E e \in Dashboards : OnMessage(e)
            \/ EndRecord \/ BroadcastFails \/ UNCHANGED vars
  BY <1>4, <1>12 DEF UpsertRobot, BeginBroadcast, OnMessage, EndRecord, BroadcastFails, vars,
                     server, browser
<1>13. QED
  BY <1>5, <1>6, <1>7, <1>8, <1>9, <1>10, <1>11, <1>12 DEF Next, Broadcast

\* The further the broadcaster is, the newer the put it has come to.
Onward ==
    \A r \in Robots, k, m \in 0..Len(stream) : \A v, w \in 0..version[r] :
        k <= m /\ LeftAfter(r, k, v) /\ LeftAfter(r, m, w) => v <= w

\* Where the broadcaster is with r is told by the stream, and is what it posts of r.
ReachedKnown ==
    /\ Turn \in 0..Len(stream)
    /\ \A r \in Robots :
          /\ Reached(r) \in 0..version[r]
          /\ LeftAfter(r, Turn, Reached(r))
          /\ Broadcasting /\ Record.robot = r => Reached(r) = Record.version

\* Two cuts of one stream: what has come before the earlier has come before the later.
LEMMA StreamGoesOn == Typed => Onward
<1> SUFFICES ASSUME Typed, NEW r \in Robots, NEW k \in 0..Len(stream), NEW m \in 0..Len(stream),
                    NEW v \in 0..version[r], NEW w \in 0..version[r],
                    k <= m, LeftAfter(r, k, v), LeftAfter(r, m, w), w < v
             PROVE  FALSE
  BY DataFacts DEF Onward, Typed
<1>1. w # version[r]
  BY DataFacts DEF Typed
<1>2. PICK l \in (m + 1)..Len(stream) : stream[l] = [robot |-> r, version |-> w + 1]
  BY <1>1 DEF LeftAfter
<1>3. l \in (k + 1)..Len(stream) /\ stream[l].robot = r /\ stream[l].version = w + 1
  BY <1>2, BatchFacts
<1>4. w + 1 > v
  BY <1>3 DEF LeftAfter
<1>5. QED
  BY <1>4

\* There is one put that the broadcaster has come to, and a record that it posts is it.
LEMMA ReachedFacts == Typed /\ StreamGapless => ReachedKnown
<1> SUFFICES ASSUME Typed, StreamGapless
             PROVE  ReachedKnown
  OBVIOUS
<1>1. Turn \in 0..Len(stream) /\ (Broadcasting => Turn = broadcast.done + 1)
  BY BatchFacts DEF Turn
<1>2. ASSUME NEW r \in Robots
      PROVE  /\ Reached(r) \in 0..version[r]
             /\ LeftAfter(r, Turn, Reached(r))
             /\ Broadcasting /\ Record.robot = r => Reached(r) = Record.version
  <2>1. PICK v \in 0..version[r] : UpTo(r, Turn, v)
    BY <1>1 DEF StreamGapless
  <2>2. Reached(r) \in 0..version[r] /\ LeftAfter(r, Turn, Reached(r))
    BY <2>1 DEF Reached, UpTo
  <2>3. Reached(r) = v
    BY <1>1, <2>1, <2>2, StreamGoesOn, DataFacts DEF UpTo, Onward, Typed
  <2>4. Broadcasting => Turn > 0 /\ Record = stream[Turn]
    BY <1>1, BatchFacts
  <2>5. QED
    BY <2>1, <2>2, <2>3, <2>4 DEF UpTo
<1>3. QED
  BY <1>1, <1>2 DEF ReachedKnown

\* The same after a step.
LEMMA Afterwards ==
    ASSUME Typed', StreamGapless'
    PROVE  Onward' /\ ReachedKnown'
<1>1. (Typed => Onward)'
  BY StreamGoesOn, PTL
<1>2. (Typed /\ StreamGapless => ReachedKnown)'
  BY ReachedFacts, PTL
<1>3. QED
  BY <1>1, <1>2

\* When the stream is cut, or the broadcaster goes to another record of it, the newest put
\* that it has come to moves the same way.
LEMMA ReachedMoves ==
    ASSUME Typed, StreamGapless, Typed', StreamGapless', UNCHANGED version,
           NEW n \in Nat, n <= Len(stream), Len(stream') = Len(stream) - n,
           \A i \in 1..Len(stream') : stream'[i] = stream[n + i],
           NEW r \in Robots
    PROVE  /\ Reached(r) \in 0..version[r] /\ Reached(r)' \in 0..version[r]
           /\ Turn <= Turn' + n => Reached(r) <= Reached(r)'
           /\ Turn' + n <= Turn => Reached(r)' <= Reached(r)
<1>1. ReachedKnown /\ ReachedKnown' /\ Onward
  BY ReachedFacts, StreamGoesOn, Afterwards
<1>2. PICK k \in 0..Len(stream') : k = Turn'
  BY <1>1 DEF ReachedKnown
<1>3. PICK v \in 0..version[r] : v = Reached(r)'
  BY <1>1 DEF ReachedKnown
<1>4. LeftAfter(r, k, v)'
  BY <1>1, <1>2, <1>3 DEF ReachedKnown
<1>5. /\ Len(stream) \in Nat /\ version[r] \in Nat
      /\ Len(stream') \in Nat /\ k \in Nat /\ k <= Len(stream')
  <2>1. Len(stream) \in Nat /\ version[r] \in Nat
    BY BatchFacts, DataFacts DEF Typed
  <2>2. Len(stream') \in Nat
    BY <2>1
  <2>3. QED
    BY <2>1, <2>2
<1>6. \A l \in (n + k + 1)..Len(stream) : /\ l - n \in (k + 1)..Len(stream')
                                          /\ stream'[l - n] = stream[l]
  <2> SUFFICES ASSUME NEW l \in (n + k + 1)..Len(stream)
               PROVE  l - n \in (k + 1)..Len(stream') /\ stream'[l - n] = stream[l]
    OBVIOUS
  <2>1. l - n \in (k + 1)..Len(stream') /\ l - n \in 1..Len(stream') /\ n + (l - n) = l
    BY <1>5
  <2>2. stream'[l - n] = stream[n + (l - n)]
    BY <2>1
  <2>3. QED
    BY <2>1, <2>2
<1>7. \A l \in (k + 1)..Len(stream') : /\ n + l \in (n + k + 1)..Len(stream)
                                       /\ stream'[l] = stream[n + l]
  BY <1>5
<1>8. \A l \in (n + k + 1)..Len(stream) : stream[l].robot = r => stream[l].version > v
  BY <1>4, <1>6 DEF LeftAfter
<1>9. v = version[r] \/ \E l \in (n + k + 1)..Len(stream) :
                            stream[l] = [robot |-> r, version |-> v + 1]
  <2>1. v = version[r] \/ \E l \in (k + 1)..Len(stream') :
                             stream'[l] = [robot |-> r, version |-> v + 1]
    BY <1>4 DEF LeftAfter
  <2>2. QED
    BY <1>7, <2>1
<1>10. LeftAfter(r, n + k, v) /\ n + k \in 0..Len(stream) /\ n + k = Turn' + n
  <2>1. n + k \in 0..Len(stream) /\ n + k = k + n
    BY <1>5
  <2>2. QED
    BY <1>2, <1>8, <1>9, <2>1 DEF LeftAfter
<1>11. Reached(r) \in 0..version[r] /\ Turn \in 0..Len(stream) /\ LeftAfter(r, Turn, Reached(r))
  BY <1>1 DEF ReachedKnown
<1>12. Turn <= n + k => Reached(r) <= v
  BY <1>1, <1>10, <1>11 DEF Onward
<1>13. n + k <= Turn => v <= Reached(r)
  BY <1>1, <1>10, <1>11 DEF Onward
<1>14. QED
  BY <1>3, <1>10, <1>11, <1>12, <1>13

\* Where neither the table nor the broadcaster moves, nor does what it has come to.
LEMMA ReachedStays ==
    ASSUME Typed, StreamGapless, Typed', StreamGapless', UNCHANGED <<version, stream>>,
           Turn' = Turn, NEW r \in Robots
    PROVE  Reached(r)' = Reached(r)
<1>1. 0 \in Nat /\ Len(stream) \in Nat /\ Turn \in Nat /\ version[r] \in Nat
  <2>1. version \in Versions /\ Len(stream) \in Nat
    BY BatchFacts DEF Typed
  <2>2. Turn \in 0..Len(stream)
    BY ReachedFacts DEF ReachedKnown
  <2>3. QED
    BY <2>1, <2>2, DataFacts
<1>2. /\ Reached(r) \in 0..version[r] /\ Reached(r)' \in 0..version[r]
      /\ Turn <= Turn' + 0 => Reached(r) <= Reached(r)'
      /\ Turn' + 0 <= Turn => Reached(r)' <= Reached(r)
  <2>1. 0 <= Len(stream) /\ Len(stream') = Len(stream) - 0
        /\ \A i \in 1..Len(stream') : stream'[i] = stream[0 + i]
    BY <1>1
  <2>2. QED
    BY <2>1, <1>1, ReachedMoves
<1>3. QED
  BY <1>1, <1>2

\* A put waits behind what the broadcaster has come to.
LEMMA PutWaits ==
    ASSUME Typed, StreamGapless, Typed', StreamGapless',
           NEW q \in Robots, UpsertRobot(q), NEW r \in Robots
    PROVE  Reached(r)' = Reached(r)
<1>1. ReachedKnown /\ ReachedKnown' /\ Onward'
  BY ReachedFacts, Afterwards
<1>2. PICK k \in 0..Len(stream) : k = Turn /\ k = Turn'
  BY <1>1, PutFacts DEF ReachedKnown, Turn, Broadcasting
<1>3. PICK v \in 0..version[r] : v = Reached(r)
  BY <1>1 DEF ReachedKnown
<1>4. /\ Len(stream) \in Nat /\ version[r] \in Nat /\ version[q] \in Nat
      /\ stream'[Len(stream) + 1] = [robot |-> q, version |-> version'[q]]
      /\ Len(stream') = Len(stream) + 1
      /\ \A l \in 1..Len(stream) : stream'[l] = stream[l]
      /\ version'[q] = version[q] + 1 /\ (q # r => version'[r] = version[r])
  BY BatchFacts, DataFacts, PutFacts DEF Typed
<1>5. LeftAfter(r, k, v)
  BY <1>1, <1>2, <1>3 DEF ReachedKnown
<1>6. \A l \in (k + 1)..Len(stream') : stream'[l].robot = r => stream'[l].version > v
  <2>1. \A l \in (k + 1)..Len(stream) : stream[l].robot = r => stream[l].version > v
    BY <1>5 DEF LeftAfter
  <2>2. \A l \in (k + 1)..Len(stream') : l \in (k + 1)..Len(stream) \/ l = Len(stream) + 1
    BY <1>4
  <2>3. q = r => version'[q] > v
    BY <1>4
  <2>4. \A l \in (k + 1)..Len(stream) : stream'[l] = stream[l]
    BY <1>4
  <2>5. QED
    BY <1>4, <2>1, <2>2, <2>3, <2>4
<1>7. v = version'[r] \/ \E l \in (k + 1)..Len(stream') :
                             stream'[l] = [robot |-> r, version |-> v + 1]
  <2>1. Len(stream) + 1 \in (k + 1)..Len(stream')
    BY <1>4
  <2>2. v = version[r] \/ \E l \in (k + 1)..Len(stream) :
                             stream[l] = [robot |-> r, version |-> v + 1]
    BY <1>5 DEF LeftAfter
  <2>3. \A l \in (k + 1)..Len(stream) : l \in (k + 1)..Len(stream') /\ stream'[l] = stream[l]
    BY <1>4
  <2>4. QED
    BY <1>4, <2>1, <2>2, <2>3
<1>8. LeftAfter(r, k, v)'
  BY <1>6, <1>7 DEF LeftAfter
<1>9. PICK w \in 0..version'[r] : w = Reached(r)'
  BY <1>1 DEF ReachedKnown
<1>10. LeftAfter(r, k, w)' /\ k \in 0..Len(stream') /\ v \in 0..version'[r]
  <2>1. LeftAfter(r, k, w)'
    BY <1>1, <1>2, <1>9 DEF ReachedKnown
  <2>2. QED
    BY <1>4, <2>1
<1>11. v <= w /\ w <= v
  BY <1>1, <1>8, <1>10 DEF Onward
<1>12. QED
  BY <1>3, <1>4, <1>9, <1>11
----------------------------------------------------------------------------
(* What the sockets see of one robot.                                      *)

\* What a socket carries of r is carried in the same order.
LEMMA SeenFacts ==
    ASSUME NEW r \in Robots, NEW s \in Seq(Messages)
    PROVE  /\ \A m \in Messages : Seen(r, Append(s, m)) = Append(Seen(r, s), SaysOf(r, m))
           /\ s # <<>> => Seen(r, s) # <<>> /\ Seen(r, Tail(s)) = Tail(Seen(r, s))
           /\ Seen(r, <<>>) = <<>>
<1> DEFINE S == {SaysOf(r, m) : m \in Messages}
<1>1. ASSUME NEW t \in Seq(Messages)
      PROVE  /\ Seen(r, t) \in Seq(S) /\ Len(Seen(r, t)) = Len(t)
             /\ \A i \in 1..Len(t) : Seen(r, t)[i] = SaysOf(r, t[i])
  <2>1. Len(t) \in Nat /\ \A i \in 1..Len(t) : SaysOf(r, t[i]) \in S
    OBVIOUS
  <2> HIDE DEF S
  <2>2. [i \in 1..Len(t) |-> SaysOf(r, t[i])] \in [1..Len(t) -> S]
    BY <2>1
  <2>3. Seen(r, t) \in Seq(S) /\ Len(Seen(r, t)) = Len(t)
    BY <2>1, <2>2 DEF Seen
  <2>4. QED
    BY <2>3 DEF Seen
<1>2. ASSUME NEW m \in Messages
      PROVE  Seen(r, Append(s, m)) = Append(Seen(r, s), SaysOf(r, m))
  <2>1. SaysOf(r, m) \in S
    OBVIOUS
  <2> HIDE DEF S
  <2>2. /\ Append(s, m) \in Seq(Messages) /\ Len(s) \in Nat
        /\ Len(Append(s, m)) = Len(s) + 1
        /\ \A i \in 1..Len(s) : Append(s, m)[i] = s[i]
        /\ Append(s, m)[Len(s) + 1] = m
    BY AppendFacts
  <2>3. /\ Append(Seen(r, s), SaysOf(r, m)) \in Seq(S)
        /\ Len(Append(Seen(r, s), SaysOf(r, m))) = Len(s) + 1
        /\ \A i \in 1..Len(s) : Append(Seen(r, s), SaysOf(r, m))[i] = SaysOf(r, s[i])
        /\ Append(Seen(r, s), SaysOf(r, m))[Len(s) + 1] = SaysOf(r, m)
    <3>1. Seen(r, s) \in Seq(S) /\ Len(Seen(r, s)) = Len(s)
          /\ \A i \in 1..Len(s) : Seen(r, s)[i] = SaysOf(r, s[i])
      BY <1>1
    <3>2. QED
      BY <2>1, <3>1, AppendFacts
  <2>4. /\ Seen(r, Append(s, m)) \in Seq(S)
        /\ Len(Seen(r, Append(s, m))) = Len(s) + 1
        /\ \A i \in 1..(Len(s) + 1) : Seen(r, Append(s, m))[i] = SaysOf(r, Append(s, m)[i])
    BY <1>1, <2>2
  <2>5. \A i \in 1..(Len(s) + 1) :
           Seen(r, Append(s, m))[i] = Append(Seen(r, s), SaysOf(r, m))[i]
    BY <2>2, <2>3, <2>4
  <2>6. QED
    BY <2>3, <2>4, <2>5, SeqEqual
<1>3. ASSUME s # <<>>
      PROVE  Seen(r, s) # <<>> /\ Seen(r, Tail(s)) = Tail(Seen(r, s))
  <2>1. /\ Tail(s) \in Seq(Messages) /\ Len(s) \in Nat /\ Len(s) > 0
        /\ Len(Tail(s)) = Len(s) - 1
        /\ \A i \in 1..(Len(s) - 1) : Tail(s)[i] = s[i + 1]
    BY <1>3, TailFacts
  <2>2. /\ Seen(r, s) \in Seq(S) /\ Len(Seen(r, s)) = Len(s)
        /\ \A i \in 1..Len(s) : Seen(r, s)[i] = SaysOf(r, s[i])
    BY <1>1
  <2> HIDE DEF S
  <2>3. Seen(r, s) # <<>>
    BY <2>1, <2>2
  <2>4. /\ Tail(Seen(r, s)) \in Seq(S) /\ Len(Tail(Seen(r, s))) = Len(s) - 1
        /\ \A i \in 1..(Len(s) - 1) : Tail(Seen(r, s))[i] = Seen(r, s)[i + 1]
    BY <2>2, <2>3, TailFacts
  <2>5. /\ Seen(r, Tail(s)) \in Seq(S) /\ Len(Seen(r, Tail(s))) = Len(s) - 1
        /\ \A i \in 1..(Len(s) - 1) : Seen(r, Tail(s))[i] = SaysOf(r, Tail(s)[i])
    BY <1>1, <2>1
  <2>6. \A i \in 1..(Len(s) - 1) : Seen(r, Tail(s))[i] = Tail(Seen(r, s))[i]
    BY <2>1, <2>2, <2>4, <2>5
  <2>7. QED
    BY <2>3, <2>4, <2>5, <2>6, SeqEqual
<1>4. Seen(r, <<>>) = <<>>
  <2>1. <<>> \in Seq(Messages)
    OBVIOUS
  <2>2. Seen(r, <<>>) \in Seq(S) /\ Len(Seen(r, <<>>)) = 0
    BY <1>1, <2>1
  <2> HIDE DEF S
  <2>3. QED
    BY <2>2
<1>5. QED
  BY <1>2, <1>3, <1>4

\* What r's sockets make of the two kinds of messages.
LEMMA SaysFacts ==
    ASSUME NEW r \in Robots
    PROVE  /\ \A rec \in Records :
                 SaysOf(r, RobotUpdate(rec)) =
                     IF rec.robot = r THEN [type |-> "robot_update", version |-> rec.version]
                                      ELSE [type |-> "other", version |-> 0]
           /\ \A f \in Versions :
                 SaysOf(r, [type |-> "initial_state", robots |-> f]) =
                     [type |-> "initial_state", version |-> f[r]]
BY DEF SaysOf, RobotUpdate

\* Nothing that the sockets see of r has changed, except perhaps how far the broadcaster is.
LEMMA OnlyTheBroadcaster ==
    ASSUME NEW r \in Robots, UNCHANGED <<version, wire>>,
           \A d \in Dashboards : SocketOf(d)' = SocketOf(d) /\ RequestOf(r, d)' = RequestOf(r, d),
           version[r] \in Nat, Reached(r) \in 0..version[r], Reached(r)' \in 0..version[r]
    PROVE  /\ Reached(r)' = Reached(r) => UNCHANGED FeedOf(r)!feed
           /\ Reached(r) < Reached(r)' => FeedOf(r)!Broadcast
           /\ Reached(r)' <= Reached(r) => FeedOf(r)!RepeatBatch
<1>1. Reached(r)' = Reached(r) => UNCHANGED FeedOf(r)!feed
  BY DEF FeedOf!feed
<1>2. Reached(r) < Reached(r)' => FeedOf(r)!Broadcast
  <2>1. Reached(r) < Reached(r)' =>
           Reached(r) < version[r] /\ Reached(r)' \in (Reached(r) + 1)..version[r]
    OBVIOUS
  <2>2. QED
    BY <2>1 DEF FeedOf!Broadcast
<1>3. Reached(r)' <= Reached(r) => FeedOf(r)!RepeatBatch
  <2>1. Reached(r)' <= Reached(r) => Reached(r)' \in 0..Reached(r)
    OBVIOUS
  <2>2. QED
    BY <2>1 DEF FeedOf!RepeatBatch
<1>4. QED
  BY <1>1, <1>2, <1>3

\* The sockets as the feed has them.
LEMMA SocketOfFacts ==
    ASSUME Typed
    PROVE  \A d \in Dashboards :
              /\ SocketOf(d) \in {"waiting", "connecting", "open"}
              /\ SocketOf(d) = "open" <=> socket[d].at = "open"
              /\ SocketOf(d) = "connecting" <=> socket[d].at \in {"connecting", "accepted"}
              /\ SocketOf(d) = "waiting" <=> socket[d] = NoSocket
              /\ socket[d] = NoSocket <=> socket[d].conn = None
              /\ socket[d].at = "open" => socket[d] = Open(socket[d].conn)
              /\ socket[d] # NoSocket => socket[d].conn \in Conns
<1> SUFFICES ASSUME NEW d \in Dashboards
             PROVE  /\ SocketOf(d) \in {"waiting", "connecting", "open"}
                    /\ SocketOf(d) = "open" <=> socket[d].at = "open"
                    /\ SocketOf(d) = "connecting" <=> socket[d].at \in {"connecting", "accepted"}
                    /\ SocketOf(d) = "waiting" <=> socket[d] = NoSocket
                    /\ socket[d] = NoSocket <=> socket[d].conn = None
                    /\ socket[d].at = "open" => socket[d] = Open(socket[d].conn)
                    /\ socket[d] # NoSocket => socket[d].conn \in Conns
  OBVIOUS
<1>1. socket[d] \in Sockets
  BY DEF Typed
<1>2. \/ socket[d] = NoSocket /\ socket[d].at = "waiting" /\ socket[d].conn = None
      \/ socket[d].at \in {"connecting", "accepted", "open"} /\ socket[d].conn \in Conns
         /\ socket[d].conn # None /\ socket[d] # NoSocket
  BY <1>1, SocketFacts DEF Sockets
<1>3. \A c : socket[d] = Open(c) <=> socket[d].at = "open" /\ socket[d].conn = c
  BY <1>1, SocketFacts
<1>4. QED
  BY <1>2, <1>3 DEF SocketOf

----------------------------------------------------------------------------
\* The wires as the feed has them.
FeedWire(r) == [d \in Dashboards |-> Seen(r, wire[d])]

\* One message more to one dashboard.
LEMMA PostIsSeen ==
    ASSUME Typed, NEW r \in Robots, NEW c, NEW m \in Messages, NEW d \in Dashboards,
           socket[d] = Open(c), wire'[d] = Append(wire[d], m),
           \A e \in Dashboards \ {d} : wire'[e] = wire[e]
    PROVE  /\ SocketOf(d) = "open"
           /\ FeedWire(r)' = [FeedWire(r) EXCEPT ![d] = Append(@, SaysOf(r, m))]
<1>1. SocketOf(d) = "open"
  BY DEF SocketOf, Open
<1>2. Seen(r, wire'[d]) = Append(Seen(r, wire[d]), SaysOf(r, m))
  BY SeenFacts DEF Typed
<1>3. QED
  BY <1>1, <1>2 DEF FeedWire

\* A record of r is an update of r, with the put that the broadcaster has come to.
LEMMA PostUpdateIsSeen ==
    ASSUME Typed, Typed', StreamGapless, StreamGapless', NEW r \in Robots,
           NEW c \in Conns, PostUpdate(c)
    PROVE  \/ \E d \in Dashboards : FeedOf(r)!PostUpdate(d) \/ FeedOf(r)!PostOther(d)
           \/ UNCHANGED FeedOf(r)!feed
<1>1. /\ Broadcasting /\ UNCHANGED <<version, stream, socket, subscription>>
      /\ Record \in Records /\ RobotUpdate(Record) \in Messages
      /\ [Nothing EXCEPT ![Record.robot] = Record.version] \in Versions
  <2>1. Broadcasting /\ UNCHANGED <<version, stream, socket, subscription>>
    BY BatchFacts DEF PostUpdate, table
  <2>2. Record \in Records /\ Record.robot \in Robots /\ Record.version \in 0..MaxVersion
    BY <2>1, BatchFacts, DataFacts, Assumed DEF Assumptions
  <2>3. QED
    BY <2>1, <2>2, DataFacts
<1>2. Turn' = Turn
  BY BatchMoves DEF PostUpdate, Turn, Broadcasting
<1>3. Reached(r)' = Reached(r) /\ version'[r] = version[r]
  BY <1>1, <1>2, ReachedStays
<1>4. \A d \in Dashboards : SocketOf(d)' = SocketOf(d) /\ RequestOf(r, d)' = RequestOf(r, d)
  BY <1>1 DEF SocketOf, RequestOf
<1>5. CASE UNCHANGED wire
  BY <1>3, <1>4, <1>5 DEF FeedOf!feed
<1>6. CASE Posted(c, RobotUpdate(Record), [Nothing EXCEPT ![Record.robot] = Record.version])
  <2> DEFINE f == [Nothing EXCEPT ![Record.robot] = Record.version]
  <2>1. PICK d \in Dashboards : Reaches(d, c, RobotUpdate(Record), f)
    BY <1>1, <1>6, PostedFacts
  <2> HIDE DEF f
  <2>2. /\ SocketOf(d) = "open"
        /\ FeedWire(r)' = [FeedWire(r) EXCEPT ![d] = Append(@, SaysOf(r, RobotUpdate(Record)))]
    <3>1. PICK m \in Messages : m = RobotUpdate(Record)
      BY <1>1
    <3>2. Reaches(d, c, m, f)
      BY <2>1, <3>1
    <3>3. /\ SocketOf(d) = "open"
          /\ FeedWire(r)' = [FeedWire(r) EXCEPT ![d] = Append(@, SaysOf(r, m))]
      BY <3>2, PostIsSeen DEF Reaches
    <3>4. QED
      BY <3>1, <3>3
  <2>3. CASE Record.robot = r
    <3>1. SaysOf(r, RobotUpdate(Record)) = [type |-> "robot_update", version |-> Reached(r)]
      BY <1>1, <2>3, SaysFacts, ReachedFacts DEF ReachedKnown
    <3>2. FeedOf(r)!PostUpdate(d)
      BY <1>3, <1>4, <2>2, <3>1 DEF FeedOf!PostUpdate, FeedOf!Post, FeedWire
    <3>3. QED
      BY <3>2
  <2>4. CASE Record.robot # r
    <3>1. SaysOf(r, RobotUpdate(Record)) = [type |-> "other", version |-> 0]
      BY <1>1, <2>4, SaysFacts
    <3>2. FeedOf(r)!PostOther(d)
      BY <1>3, <1>4, <2>2, <3>1 DEF FeedOf!PostOther, FeedOf!Post, FeedWire
    <3>3. QED
      BY <3>2
  <2>5. QED
    BY <2>3, <2>4
<1>7. QED
  BY <1>5, <1>6 DEF PostUpdate

\* The sockets and the requests as the feed has them.
FeedSocket == [d \in Dashboards |-> SocketOf(d)]
FeedRequest(r) == [d \in Dashboards |-> RequestOf(r, d)]
RequestOn(r, c) == [at |-> subscription[c].at, version |-> subscription[c].robots[r]]

\* What happens to the request of a connection happens to that of its dashboard, if the
\* connection is open, and is not seen by any other.
LEMMA RequestIsSeen ==
    ASSUME Typed, OneOwner, NEW r \in Robots, NEW c \in Conns, UNCHANGED socket,
           \A b \in Conns \ {c} : subscription'[b] = subscription[b]
    PROVE  /\ FeedSocket' = FeedSocket
           /\ \A d \in Dashboards : socket[d] = Open(c) =>
                 /\ FeedRequest(r)[d] = RequestOn(r, c)
                 /\ FeedRequest(r)' = [FeedRequest(r) EXCEPT ![d] = RequestOn(r, c)']
           /\ ~Reachable(c) => FeedRequest(r)' = FeedRequest(r)
<1>1. FeedSocket' = FeedSocket
  BY DEF FeedSocket, SocketOf
<1>2. ASSUME NEW e \in Dashboards, socket[e] # Open(c)
      PROVE  RequestOf(r, e)' = RequestOf(r, e)
  <2>1. CASE socket[e].at = "open"
    <3>1. socket[e].conn \in Conns /\ socket[e].conn # c
      BY <1>2, <2>1, SocketOfFacts DEF NoSocket
    <3>2. QED
      BY <2>1, <3>1 DEF RequestOf
  <2>2. CASE socket[e].at # "open"
    BY <2>2 DEF RequestOf
  <2>3. QED
    BY <2>1, <2>2
<1>3. ASSUME NEW d \in Dashboards, socket[d] = Open(c)
      PROVE  /\ FeedRequest(r)[d] = RequestOn(r, c)
             /\ FeedRequest(r)' = [FeedRequest(r) EXCEPT ![d] = RequestOn(r, c)']
  <2>1. socket[d].at = "open" /\ socket[d].conn = c /\ c # None
    BY <1>3, Assumed DEF Open, Assumptions
  <2>2. RequestOf(r, d) = RequestOn(r, c) /\ RequestOf(r, d)' = RequestOn(r, c)'
    BY <2>1 DEF RequestOf, RequestOn
  <2>3. \A e \in Dashboards \ {d} : socket[e] # Open(c)
    BY <2>1 DEF Open, OneOwner
  <2>4. \A e \in Dashboards \ {d} : RequestOf(r, e)' = RequestOf(r, e)
    BY <1>2, <2>3
  <2>5. QED
    BY <2>2, <2>4 DEF FeedRequest
<1>4. ~Reachable(c) => FeedRequest(r)' = FeedRequest(r)
  BY <1>2 DEF Reachable, FeedRequest
<1>5. QED
  BY <1>1, <1>3, <1>4

\* The steps of _send_current_state are the feed's if the socket is still open, and nothing
\* to it otherwise.
LEMMA RequestStepIsSeen ==
    ASSUME Typed, Typed', StreamGapless, StreamGapless', OneOwner, NEW r \in Robots,
           NEW c \in Conns, ReadState(c) \/ PostState(c) \/ SubscribeFails(c)
    PROVE  \/ \E d \in Dashboards :
                 FeedOf(r)!ReadState(d) \/ FeedOf(r)!PostState(d) \/ FeedOf(r)!RequestFails(d)
           \/ UNCHANGED FeedOf(r)!feed
<1>1. /\ UNCHANGED <<version, stream, broadcast, socket>>
      /\ subscription \in [Conns -> Subscriptions] /\ subscription' \in [Conns -> Subscriptions]
      /\ \A b \in Conns \ {c} : subscription'[b] = subscription[b]
  BY DEF ReadState, ReadRobots, PostState, SubscribeFails, table, browser, Typed
<1>2. Reached(r)' = Reached(r) /\ version'[r] = version[r]
  BY <1>1, ReachedStays DEF Turn, Broadcasting
<1>3. /\ FeedSocket' = FeedSocket
      /\ \A d \in Dashboards : socket[d] = Open(c) =>
            /\ FeedRequest(r)[d] = RequestOn(r, c)
            /\ FeedRequest(r)' = [FeedRequest(r) EXCEPT ![d] = RequestOn(r, c)']
      /\ ~Reachable(c) => FeedRequest(r)' = FeedRequest(r)
  BY <1>1, RequestIsSeen
<1>4. ASSUME ~Reachable(c), UNCHANGED wire
      PROVE  UNCHANGED FeedOf(r)!feed
  BY <1>2, <1>3, <1>4 DEF FeedOf!feed, FeedSocket, FeedRequest
<1>5. CASE ReadState(c)
  <2>1. PICK robots \in Readable : ReadRobots(c, robots)
    BY <1>5 DEF ReadState
  <2>2. /\ subscription[c].at = "sent" /\ UNCHANGED wire
        /\ RequestOn(r, c)' = [at |-> "read", version |-> robots[r]]
    BY <1>1, <2>1 DEF ReadRobots, browser, RequestOn
  <2>3. robots[r] \in 0..version[r]
    BY DataFacts DEF Readable, Typed
  <2>4. ASSUME NEW d \in Dashboards, socket[d] = Open(c)
        PROVE  FeedOf(r)!ReadState(d)
    <3>1. /\ FeedRequest(r)[d].at = "sent"
          /\ FeedRequest(r)' = [FeedRequest(r) EXCEPT
                                   ![d] = [at |-> "read", version |-> robots[r]]]
      BY <1>3, <2>2, <2>4 DEF RequestOn
    <3>2. QED
      BY <1>2, <1>3, <2>2, <2>3, <3>1 DEF FeedOf!ReadState, FeedSocket, FeedRequest
  <2>5. QED
    BY <1>4, <2>2, <2>4 DEF Reachable
<1>6. ASSUME subscription' = [subscription EXCEPT ![c] = NoSubscription]
      PROVE  RequestOn(r, c)' = [at |-> "none", version |-> 0]
  BY <1>1, <1>6 DEF RequestOn, NoSubscription, Nothing
<1>7. CASE SubscribeFails(c)
  <2>1. /\ subscription[c].at # "none" /\ UNCHANGED wire
        /\ RequestOn(r, c)' = [at |-> "none", version |-> 0]
    BY <1>1, <1>6, <1>7 DEF SubscribeFails, browser
  <2>2. ASSUME NEW d \in Dashboards, socket[d] = Open(c)
        PROVE  FeedOf(r)!RequestFails(d)
    <3>1. /\ FeedRequest(r)[d].at # "none"
          /\ FeedRequest(r)' = [FeedRequest(r) EXCEPT ![d] = [at |-> "none", version |-> 0]]
      BY <1>3, <2>1, <2>2 DEF RequestOn
    <3>2. QED
      BY <1>2, <1>3, <2>1, <3>1
         DEF FeedOf!RequestFails, FeedOf!NoRequest, FeedSocket, FeedRequest
  <2>3. QED
    BY <1>4, <2>1, <2>2 DEF Reachable
<1>8. CASE PostState(c)
  <2>1. PICK f \in Versions : f = subscription[c].robots
    BY <1>1 DEF Subscriptions
  <2>2. PICK m \in Messages : m = [type |-> "initial_state", robots |-> f]
    BY DataFacts
  <2>3. /\ subscription[c].at = "read"
        /\ RequestOn(r, c)' = [at |-> "none", version |-> 0]
        /\ RequestOn(r, c) = [at |-> "read", version |-> f[r]]
        /\ Posted(c, m, f) \/ (~Reachable(c) /\ UNCHANGED wire)
    BY <1>1, <1>6, <1>8, <2>1, <2>2 DEF PostState, RequestOn
  <2>4. CASE Posted(c, m, f)
    <3>1. PICK d \in Dashboards : Reaches(d, c, m, f)
      BY <2>4, PostedFacts
    <3>2. SocketOf(d) = "open" /\ FeedWire(r)' = [FeedWire(r) EXCEPT ![d] = Append(@, SaysOf(r, m))]
      BY <3>1, PostIsSeen DEF Reaches
    <3>3. SaysOf(r, m) = [type |-> "initial_state", version |-> f[r]]
      BY <2>2, SaysFacts
    <3>4. /\ FeedRequest(r)[d] = [at |-> "read", version |-> f[r]]
          /\ FeedRequest(r)' = [FeedRequest(r) EXCEPT ![d] = [at |-> "none", version |-> 0]]
      BY <1>3, <2>3, <3>1 DEF Reaches
    <3>5. FeedSocket[d] = "open"
      BY <3>2 DEF FeedSocket
    <3>6. FeedOf(r)!PostState(d)
      <4>1. /\ FeedRequest(r)[d].at = "read" /\ FeedRequest(r)[d].version = f[r]
            /\ SaysOf(r, m) = [type |-> "initial_state", version |-> FeedRequest(r)[d].version]
        BY <3>3, <3>4
      <4>2. FeedOf(r)!Post(d, "initial_state", FeedRequest(r)[d].version)
        BY <3>2, <3>5, <4>1 DEF FeedOf!Post, FeedSocket, FeedWire
      <4>3. QED
        BY <1>2, <1>3, <3>4, <4>1, <4>2
           DEF FeedOf!PostState, FeedOf!NoRequest, FeedSocket, FeedRequest
    <3>7. QED
      BY <3>6
  <2>5. QED
    BY <1>4, <2>3, <2>4
<1>9. QED
  BY <1>5, <1>7, <1>8

\* The steps of the sockets; the end of the handshake is not seen.
LEMMA SocketStepIsSeen ==
    ASSUME Typed, Typed', StreamGapless, StreamGapless', OneOwner, NotAsked, NEW r \in Robots,
           NEW d \in Dashboards,
           Connect(d) \/ OnConnect(d) \/ OnOpen(d) \/ OnMessage(d) \/ OnClose(d)
    PROVE  \/ FeedOf(r)!Connect(d) \/ FeedOf(r)!Open(d) \/ FeedOf(r)!Deliver(d)
           \/ FeedOf(r)!Close(d)
           \/ UNCHANGED FeedOf(r)!feed
<1>1. /\ UNCHANGED <<version, stream, broadcast>>
      /\ socket \in [Dashboards -> Sockets] /\ subscription \in [Conns -> Subscriptions]
      /\ wire \in [Dashboards -> Seq(Messages)]
  BY DEF Connect, OnConnect, OnOpen, OnMessage, OnClose, table, server, Typed
<1>2. Reached(r)' = Reached(r) /\ version'[r] = version[r]
  BY <1>1, ReachedStays DEF Turn, Broadcasting
<1>3. ASSUME \A e \in Dashboards \ {d} : socket'[e] = socket[e],
             \A e \in Dashboards \ {d} : socket[e].at = "open" =>
                 subscription'[socket[e].conn] = subscription[socket[e].conn]
      PROVE  \A e \in Dashboards \ {d} :
                 SocketOf(e)' = SocketOf(e) /\ RequestOf(r, e)' = RequestOf(r, e)
  BY <1>3 DEF SocketOf, RequestOf
<1>4. CASE Connect(d)
  <2>1. /\ socket[d] = NoSocket /\ UNCHANGED <<subscription, wire>>
        /\ \A e \in Dashboards \ {d} : socket'[e] = socket[e]
        /\ socket'[d].at = "connecting"
    BY <1>1, <1>4 DEF Connect, server
  <2>2. /\ SocketOf(d) = "waiting" /\ SocketOf(d)' = "connecting"
        /\ RequestOf(r, d) = RequestOf(r, d)'
    BY <2>1 DEF SocketOf, RequestOf, NoSocket
  <2>3. /\ FeedSocket[d] = "waiting" /\ FeedSocket' = [FeedSocket EXCEPT ![d] = "connecting"]
        /\ FeedRequest(r)' = FeedRequest(r)
    BY <1>3, <2>1, <2>2 DEF FeedSocket, FeedRequest
  <2>4. FeedOf(r)!Connect(d)
    BY <1>2, <2>1, <2>3 DEF FeedOf!Connect, FeedSocket, FeedRequest
  <2>5. QED
    BY <2>4
<1>5. CASE OnConnect(d)
  <2>1. /\ socket[d].at = "connecting" /\ UNCHANGED <<subscription, wire>>
        /\ \A e \in Dashboards \ {d} : socket'[e] = socket[e]
        /\ socket'[d].at = "accepted"
    BY <1>1, <1>5, SocketFacts DEF OnConnect, NoSocket
  <2>2. SocketOf(d)' = SocketOf(d) /\ RequestOf(r, d) = RequestOf(r, d)'
    BY <2>1 DEF SocketOf, RequestOf
  <2>3. FeedSocket' = FeedSocket /\ FeedRequest(r)' = FeedRequest(r)
    BY <1>3, <2>1, <2>2 DEF FeedSocket, FeedRequest
  <2>4. QED
    BY <1>2, <2>1, <2>3 DEF FeedOf!feed, FeedSocket, FeedRequest
<1>6. CASE OnOpen(d)
  <2>1. /\ socket[d].at = "accepted" /\ UNCHANGED wire
        /\ socket' = [socket EXCEPT ![d].at = "open"]
        /\ subscription' = [subscription EXCEPT ![socket[d].conn].at = "sent"]
    BY <1>6 DEF OnOpen
  <2>2. /\ socket[d] # NoSocket /\ socket[d].conn \in Conns /\ socket[d].conn # None
        /\ subscription[socket[d].conn] = NoSubscription
        /\ SocketOf(d) = "connecting"
    BY <1>1, <2>1, SocketFacts, SocketOfFacts DEF NotAsked
  <2>3. /\ socket'[d].at = "open" /\ socket'[d].conn = socket[d].conn
        /\ \A e \in Dashboards \ {d} : socket'[e] = socket[e]
    BY <1>1, <2>1, <2>2, SocketFacts
  <2>4. \A b \in Conns \ {socket[d].conn} : subscription'[b] = subscription[b]
    BY <1>1, <2>1
  <2>5. \A e \in Dashboards \ {d} : socket[e].at = "open" =>
           subscription'[socket[e].conn] = subscription[socket[e].conn]
    <3>1. ASSUME NEW e \in Dashboards \ {d}, socket[e].at = "open"
          PROVE  socket[e].conn \in Conns /\ socket[e].conn # socket[d].conn
      BY <2>2, <3>1, SocketOfFacts DEF OneOwner, NoSocket
    <3>2. QED
      BY <2>4, <3>1
  <2>6. /\ RequestOf(r, d) = [at |-> "none", version |-> 0]
        /\ RequestOf(r, d)' = [at |-> "sent", version |-> 0]
    <3>1. subscription'[socket[d].conn] = [at |-> "sent", robots |-> Nothing]
      BY <1>1, <2>1, <2>2 DEF NoSubscription
    <3>2. QED
      BY <2>1, <2>3, <3>1 DEF RequestOf, Nothing
  <2>7. SocketOf(d)' = "open"
    BY <2>3 DEF SocketOf
  <2>8. /\ FeedSocket[d] = "connecting" /\ FeedSocket' = [FeedSocket EXCEPT ![d] = "open"]
        /\ FeedRequest(r)' = [FeedRequest(r) EXCEPT ![d].at = "sent"]
    <3>1. \A e \in Dashboards \ {d} :
             SocketOf(e)' = SocketOf(e) /\ RequestOf(r, e)' = RequestOf(r, e)
      BY <1>3, <2>3, <2>5
    <3>2. RequestOf(r, d)' = [RequestOf(r, d) EXCEPT !.at = "sent"]
      BY <2>6
    <3>3. QED
      BY <2>2, <2>7, <3>1, <3>2 DEF FeedSocket, FeedRequest
  <2>9. FeedOf(r)!Open(d)
    BY <1>2, <2>1, <2>8 DEF FeedOf!Open, FeedSocket, FeedRequest
  <2>10. QED
    BY <2>9
<1>7. CASE OnMessage(d)
  <2>1. /\ wire[d] # <<>> /\ UNCHANGED <<socket, subscription>>
        /\ wire'[d] = Tail(wire[d]) /\ \A e \in Dashboards \ {d} : wire'[e] = wire[e]
    BY <1>1, <1>7 DEF OnMessage, server
  <2>2. /\ FeedSocket' = FeedSocket /\ FeedRequest(r)' = FeedRequest(r)
    BY <2>1 DEF FeedSocket, FeedRequest, SocketOf, RequestOf
  <2>3. Seen(r, wire[d]) # <<>> /\ Seen(r, wire'[d]) = Tail(Seen(r, wire[d]))
    BY <1>1, <2>1, SeenFacts
  <2>4. FeedWire(r)[d] # <<>> /\ FeedWire(r)' = [FeedWire(r) EXCEPT ![d] = Tail(@)]
    BY <2>1, <2>3 DEF FeedWire
  <2>5. FeedOf(r)!Deliver(d)
    BY <1>2, <2>2, <2>4 DEF FeedOf!Deliver, FeedSocket, FeedRequest, FeedWire
  <2>6. QED
    BY <2>5
<1>8. CASE OnClose(d)
  <2>1. /\ socket[d].conn # None /\ UNCHANGED subscription
        /\ socket'[d] = NoSocket /\ \A e \in Dashboards \ {d} : socket'[e] = socket[e]
        /\ wire'[d] = <<>> /\ \A e \in Dashboards \ {d} : wire'[e] = wire[e]
    BY <1>1, <1>8 DEF OnClose, server
  <2>2. /\ SocketOf(d) \notin {"none", "waiting"} /\ SocketOf(d)' = "waiting"
        /\ RequestOf(r, d)' = [at |-> "none", version |-> 0]
    <3>1. SocketOf(d) \in {"connecting", "open"}
      BY <2>1, SocketOfFacts
    <3>2. QED
      BY <2>1, <3>1 DEF SocketOf, RequestOf, NoSocket
  <2>3. /\ FeedSocket[d] \notin {"none", "waiting"}
        /\ FeedSocket' = [FeedSocket EXCEPT ![d] = "waiting"]
        /\ FeedRequest(r)' = [FeedRequest(r) EXCEPT ![d] = [at |-> "none", version |-> 0]]
    BY <1>3, <2>1, <2>2 DEF FeedSocket, FeedRequest
  <2>4. Seen(r, wire'[d]) = <<>>
    BY <1>1, <2>1, SeenFacts
  <2>5. FeedWire(r)' = [FeedWire(r) EXCEPT ![d] = <<>>]
    BY <2>1, <2>4 DEF FeedWire
  <2>6. FeedOf(r)!Close(d)
    BY <1>2, <2>3, <2>5
       DEF FeedOf!Close, FeedOf!NoRequest, FeedSocket, FeedRequest, FeedWire
  <2>7. QED
    BY <2>6
<1>9. QED
  BY <1>4, <1>5, <1>6, <1>7, <1>8

\* The steps of the table and of the batches: the broadcaster goes on, or back where a batch
\* has failed.
LEMMA TableStepIsSeen ==
    ASSUME Typed, Typed', StreamGapless, StreamGapless', NEW r \in Robots,
           \/ \E q \in Robots : UpsertRobot(q)
           \/ \E k \in 1..BatchSize, conns \in SUBSET Scannable : BeginBroadcast(k, conns)
           \/ EndRecord \/ BroadcastFails
    PROVE  \/ FeedOf(r)!Change \/ FeedOf(r)!Broadcast \/ FeedOf(r)!RepeatBatch
           \/ UNCHANGED FeedOf(r)!feed
<1>1. UNCHANGED <<socket, subscription, wire>>
  BY DEF UpsertRobot, BeginBroadcast, EndRecord, BroadcastFails, server, browser
<1>2. \A d \in Dashboards : SocketOf(d)' = SocketOf(d) /\ RequestOf(r, d)' = RequestOf(r, d)
  BY <1>1 DEF SocketOf, RequestOf
<1>3. /\ version[r] \in Nat /\ Len(stream) \in Nat
      /\ broadcast.batch \in Nat /\ broadcast.done \in Nat
  BY BatchFacts, DataFacts DEF Typed
<1>4. ASSUME NEW q \in Robots, UpsertRobot(q)
      PROVE  FeedOf(r)!Change \/ UNCHANGED FeedOf(r)!feed
  <2>1. Reached(r)' = Reached(r)
    BY <1>4, PutWaits
  <2>2. CASE q = r
    BY <1>1, <1>2, <1>4, <2>1, <2>2, PutFacts DEF FeedOf!Change
  <2>3. CASE q # r
    BY <1>1, <1>2, <1>4, <2>1, <2>3, PutFacts DEF FeedOf!feed
  <2>4. QED
    BY <2>2, <2>3
<1>5. ASSUME UNCHANGED version, NEW n \in Nat, n <= Len(stream), Len(stream') = Len(stream) - n,
             \A i \in 1..Len(stream') : stream'[i] = stream[n + i]
      PROVE  /\ Turn <= Turn' + n => FeedOf(r)!Broadcast \/ UNCHANGED FeedOf(r)!feed
             /\ Turn' + n <= Turn => FeedOf(r)!RepeatBatch
  <2>1. /\ Reached(r) \in 0..version[r] /\ Reached(r)' \in 0..version[r]
        /\ Turn <= Turn' + n => Reached(r) <= Reached(r)'
        /\ Turn' + n <= Turn => Reached(r)' <= Reached(r)
    BY <1>5, ReachedMoves
  <2>2. /\ Reached(r)' = Reached(r) => UNCHANGED FeedOf(r)!feed
        /\ Reached(r) < Reached(r)' => FeedOf(r)!Broadcast
        /\ Reached(r)' <= Reached(r) => FeedOf(r)!RepeatBatch
    BY <1>1, <1>2, <1>3, <1>5, <2>1, OnlyTheBroadcaster
  <2>3. Reached(r) <= Reached(r)' => Reached(r) < Reached(r)' \/ Reached(r)' = Reached(r)
    BY <1>3, <2>1
  <2>4. QED
    BY <2>1, <2>2, <2>3
<1>6. ASSUME UNCHANGED <<version, stream>>
      PROVE  /\ Turn <= Turn' + 0 => FeedOf(r)!Broadcast \/ UNCHANGED FeedOf(r)!feed
             /\ Turn' + 0 <= Turn => FeedOf(r)!RepeatBatch
  <2>1. /\ 0 \in Nat /\ 0 <= Len(stream) /\ Len(stream') = Len(stream) - 0
        /\ \A i \in 1..Len(stream') : stream'[i] = stream[0 + i]
    BY <1>3, <1>6
  <2>2. QED
    BY <1>5, <1>6, <2>1
<1>7. ASSUME NEW n \in Nat, n <= Len(stream), stream' = StreamAfter(n), UNCHANGED version
      PROVE  Turn <= Turn' + n => FeedOf(r)!Broadcast \/ UNCHANGED FeedOf(r)!feed
  <2>1. /\ Len(stream') = Len(stream) - n
        /\ \A i \in 1..Len(stream') : stream'[i] = stream[n + i]
    BY <1>7, StreamAfterFacts DEF Typed
  <2>2. QED
    BY <1>5, <1>7, <2>1
<1>8. ASSUME NEW k \in 1..BatchSize, NEW conns \in SUBSET Scannable, BeginBroadcast(k, conns)
      PROVE  FeedOf(r)!Broadcast \/ UNCHANGED FeedOf(r)!feed
  <2>1. k \in Nat /\ k <= Len(stream) /\ k > 0 /\ Turn = 0 /\ UNCHANGED version
    BY <1>8, Assumed DEF BeginBroadcast, Turn, Assumptions
  <2>2. CASE conns = {}
    <3>1. stream' = StreamAfter(k) /\ Turn' = 0
      BY <1>8, <2>1, <2>2 DEF BeginBroadcast, Turn, Broadcasting
    <3>2. Turn <= Turn' + k
      BY <2>1, <3>1
    <3>3. QED
      BY <1>7, <2>1, <3>1, <3>2
  <2>3. CASE conns # {}
    <3>1. UNCHANGED stream /\ Turn' = 1
      <4>1. UNCHANGED stream /\ broadcast' = BatchTo(k, conns)
        BY <1>8, <2>3 DEF BeginBroadcast
      <4>2. broadcast'.batch = k /\ broadcast'.done = 0
        BY <4>1, BatchBegins
      <4>3. QED
        BY <2>1, <4>1, <4>2 DEF Turn, Broadcasting
    <3>2. Turn <= Turn' + 0
      BY <2>1, <3>1
    <3>3. QED
      BY <1>6, <2>1, <3>1, <3>2
  <2>4. QED
    BY <2>2, <2>3
<1>9. CASE EndRecord
  <2>1. Broadcasting /\ UNCHANGED version /\ Turn = broadcast.done + 1
    BY <1>9 DEF EndRecord, Turn
  <2>2. CASE broadcast.done + 1 = broadcast.batch
    <3>1. stream' = StreamAfter(broadcast.batch) /\ Turn' = 0 /\ broadcast.batch <= Len(stream)
      BY <1>9, <2>2, BatchFacts DEF EndRecord, Turn, Broadcasting, Typed
    <3>2. Turn <= Turn' + broadcast.batch
      BY <1>3, <2>1, <2>2, <3>1
    <3>3. QED
      BY <1>3, <1>7, <2>1, <3>1, <3>2
  <2>3. CASE broadcast.done + 1 # broadcast.batch
    <3>1. UNCHANGED stream /\ Turn' = broadcast.done + 2
      <4>1. /\ UNCHANGED stream /\ broadcast'.batch = broadcast.batch
            /\ broadcast'.done = broadcast.done + 1
        BY <1>9, <2>3, BatchMoves DEF EndRecord
      <4>2. QED
        BY <1>3, <2>1, <4>1 DEF Turn, Broadcasting
    <3>2. Turn <= Turn' + 0
      BY <1>3, <2>1, <3>1
    <3>3. QED
      BY <1>6, <2>1, <3>1, <3>2
  <2>4. QED
    BY <2>2, <2>3
<1>10. CASE BroadcastFails
  <2>1. UNCHANGED <<version, stream>> /\ Turn' = 0 /\ Turn = broadcast.done + 1
    BY <1>10, BatchFacts DEF BroadcastFails, Turn, Broadcasting, table
  <2>2. Turn' + 0 <= Turn
    BY <1>3, <2>1
  <2>3. QED
    BY <1>6, <2>1, <2>2
<1>11. QED
  BY <1>4, <1>8, <1>9, <1>10
----------------------------------------------------------------------------
LEMMA InitGapless == Init => StreamGapless /\ NotAsked
<1> SUFFICES ASSUME Init
             PROVE  StreamGapless /\ NotAsked
  OBVIOUS
<1>1. /\ Len(stream) = 0 /\ \A r \in Robots : version[r] = 0
      /\ \A d \in Dashboards : socket[d].at = "waiting"
  BY DEF Init, Nothing, NoSocket
<1>2. \A r \in Robots, k \in 0..Len(stream) : UpTo(r, k, 0) /\ 0 \in 0..version[r]
  BY <1>1 DEF UpTo, LeftAfter
<1>3. QED
  BY <1>1, <1>2 DEF StreamGapless, NotAsked

LEMMA InitIsSeen == \A r \in Robots : Init => FeedOf(r)!FeedInit
<1> SUFFICES ASSUME NEW r \in Robots, Init
             PROVE  FeedOf(r)!FeedInit
  OBVIOUS
<1>1. /\ version[r] = 0 /\ \A d \in Dashboards : socket[d] = NoSocket /\ wire[d] = <<>>
  BY DEF Init, Nothing
<1>2. Reached(r) = 0
  <2>1. Typed /\ StreamGapless
    BY InitTyped, InitGapless
  <2>2. Reached(r) \in 0..version[r]
    BY <2>1, ReachedFacts DEF ReachedKnown
  <2>3. QED
    BY <1>1, <2>2
<1>3. \A d \in Dashboards :
         /\ SocketOf(d) = "waiting" /\ RequestOf(r, d) = [at |-> "none", version |-> 0]
         /\ Seen(r, wire[d]) = <<>>
  <2>1. <<>> \in Seq(Messages)
    OBVIOUS
  <2>2. Seen(r, <<>>) = <<>>
    BY <2>1, SeenFacts
  <2>3. QED
    BY <1>1, <2>2 DEF SocketOf, RequestOf, NoSocket
<1>4. QED
  BY <1>1, <1>2, <1>3 DEF FeedOf!FeedInit, FeedOf!NoRequest

LEMMA NextIsSeen ==
    ASSUME Typed, IInv, StreamGapless, NotAsked, [Next]_vars, NEW r \in Robots
    PROVE  [FeedOf(r)!FeedNext]_(FeedOf(r)!feed)
<1>1. Typed' /\ StreamGapless' /\ OneOwner
  BY NextKeepsTypes, StreamStaysGapless DEF IInv
<1>2. ASSUME NEW c \in Conns, PostUpdate(c)
      PROVE  [FeedOf(r)!FeedNext]_(FeedOf(r)!feed)
  BY <1>1, <1>2, PostUpdateIsSeen DEF FeedOf!FeedNext
<1>3. ASSUME NEW c \in Conns, ReadState(c) \/ PostState(c) \/ SubscribeFails(c)
      PROVE  [FeedOf(r)!FeedNext]_(FeedOf(r)!feed)
  BY <1>1, <1>3, RequestStepIsSeen DEF FeedOf!FeedNext
<1>4. ASSUME NEW d \in Dashboards,
             Connect(d) \/ OnConnect(d) \/ OnOpen(d) \/ OnMessage(d) \/ OnClose(d)
      PROVE  [FeedOf(r)!FeedNext]_(FeedOf(r)!feed)
  BY <1>1, <1>4, SocketStepIsSeen DEF FeedOf!FeedNext
<1>5. ASSUME \/ \E q \in Robots : UpsertRobot(q)
             \/ \E k \in 1..BatchSize, conns \in SUBSET Scannable : BeginBroadcast(k, conns)
             \/ EndRecord \/ BroadcastFails
      PROVE  [FeedOf(r)!FeedNext]_(FeedOf(r)!feed)
  BY <1>1, <1>5, TableStepIsSeen DEF FeedOf!FeedNext
<1>6. ASSUME \/ \E c \in Conns : PostUpdateFails(c) \/ OnDisconnect(c) \/ ExpireConnection(c)
             \/ UNCHANGED vars
      PROVE  [FeedOf(r)!FeedNext]_(FeedOf(r)!feed)
  <2>1. UNCHANGED <<version, stream, socket, subscription, wire>> /\ Turn' = Turn
    <3>1. ASSUME NEW c \in Conns, PostUpdateFails(c)
          PROVE  UNCHANGED <<version, stream, socket, subscription, wire>> /\ Turn' = Turn
      BY <3>1, BatchMoves DEF PostUpdateFails, table, browser, Turn, Broadcasting
    <3>2. ASSUME NEW c \in Conns, OnDisconnect(c) \/ ExpireConnection(c)
          PROVE  UNCHANGED <<version, stream, socket, subscription, wire>> /\ Turn' = Turn
      BY <3>2 DEF OnDisconnect, ExpireConnection, table, browser, Turn, Broadcasting
    <3>3. CASE UNCHANGED vars
      BY <3>3 DEF vars, table, server, browser, Turn, Broadcasting
    <3>4. QED
      BY <1>6, <3>1, <3>2, <3>3
  <2>2. Reached(r)' = Reached(r)
    BY <1>1, <2>1, ReachedStays
  <2>3. \A d \in Dashboards : SocketOf(d)' = SocketOf(d) /\ RequestOf(r, d)' = RequestOf(r, d)
    BY <2>1 DEF SocketOf, RequestOf
  <2>4. QED
    BY <2>1, <2>2, <2>3 DEF FeedOf!feed
<1>7. QED
  BY <1>2, <1>3, <1>4, <1>5, <1>6 DEF Next, Broadcast

LEMMA FeedInvariant == Spec => [](Typed /\ IInv /\ StreamGapless /\ NotAsked)
<1>1. Init => StreamGapless /\ NotAsked
  BY InitGapless
<1>2. Typed /\ IInv /\ StreamGapless /\ NotAsked /\ [Next]_vars => (StreamGapless /\ NotAsked)'
  BY StreamStaysGapless, NotAskedStays DEF IInv
<1>3. QED
  BY <1>1, <1>2, Invariant, PTL DEF Spec

\* To the sockets of each robot the broadcaster, the routes and API Gateway are a Feed,
\* however posts, failures, expiries and closing sockets interleave.
THEOREM DashboardImplementsFeed == Spec => ImplementsFeed
<1>1. Init => \A r \in Robots : FeedOf(r)!FeedInit
  BY InitIsSeen
<1>2. Typed /\ IInv /\ StreamGapless /\ NotAsked /\ [Next]_vars
         => [\A r \in Robots : [FeedOf(r)!FeedNext]_(FeedOf(r)!feed)]_vars
  BY NextIsSeen
<1>3. QED
  BY <1>1, <1>2, FeedInvariant, PTL DEF Spec, ImplementsFeed

\* The same, as the specification of the feed of one robot.
THEOREM EachRobotIsFed == \A r \in Robots : Spec => FeedOf(r)!FeedSpec
<1>1. ASSUME NEW r \in Robots
      PROVE  Spec => FeedOf(r)!FeedSpec
  <2>1. Init => FeedOf(r)!FeedInit
    BY InitIsSeen
  <2>2. Typed /\ IInv /\ StreamGapless /\ NotAsked /\ [Next]_vars
           => [FeedOf(r)!FeedNext]_(FeedOf(r)!feed)
    BY NextIsSeen
  <2>3. QED
    BY <2>1, <2>2, FeedInvariant, PTL DEF Spec, FeedOf!FeedSpec
<1>2. QED
  BY <1>1
=============================================================================
