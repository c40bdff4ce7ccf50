--------------------------- MODULE DashboardPage ----------------------------
(***************************************************************************)
(* One browser tab and what it shows of one robot: useWebSocket.ts, with   *)
(* the sockets of every time the dashboard page has been opened, and the   *)
(* query cache that useRobots.ts and the sockets fill.  Leaving the page   *)
(* closes its socket, but the close handler runs all the same and starts   *)
(* the timer again: a hook can outlive its page.                           *)
(*                                                                         *)
(* What reaches the tab is the Feed that Dashboard implements.             *)
(***************************************************************************)
EXTENDS Naturals, Sequences

CONSTANTS
    None,
    MaxMounts,    \* bound: how often the page is opened
    MaxVersion,   \* bound: changes of the robot's item
    MaxFailures,  \* bound: batches broadcast again, requests not answered, late reads
    MaxWire       \* bound: messages on a wire to which another update is added

ASSUME PageBounds == {MaxMounts, MaxVersion, MaxFailures, MaxWire} \subseteq Nat
ASSUME PageNone == None \notin Nat

Hooks == 1..MaxMounts   \* useWebSocket, one for each time the page is opened
Versions == 0..MaxVersion

VARIABLES
    version, stream, socket, request, wire,   \* of Feed
    failures,
    mounts,    \* how often the page has been opened
    page,      \* the hook of the page shown, 0 if the tab shows another page
    list,      \* the query cache: the robot in ['robots'], ...
    detail,    \* ... and ['robots', id]
    answer     \* the answer to a GET, for one of the two, on its way, or None

INSTANCE Feed

sockets == <<version, stream, socket, request, wire>>
tab == <<mounts, page>>
cache == <<list, detail>>
vars == <<sockets, failures, tab, cache, answer>>

Init ==
    /\ FeedInit
    /\ socket = [h \in Hooks |-> "none"]
    /\ failures = 0
    /\ mounts = 0 /\ page = 0
    /\ list = None /\ detail = None
    /\ answer = None

----------------------------------------------------------------------------
(* The server.                                                             *)

Unmoved == UNCHANGED <<failures, tab, cache, answer>>
Fails == failures < MaxFailures /\ failures' = failures + 1

\* A read may return what the item was before its latest puts, but not for ever.
ReadNow(h) == ReadState(h) /\ request'[h].version = version

Serve ==
    /\ \/ version < MaxVersion /\ Change
       \/ Broadcast
       \/ \E h \in Hooks :
             \/ Len(wire[h]) < MaxWire /\ PostUpdate(h)
             \/ ReadNow(h) \/ PostState(h)
    /\ Unmoved

ServeFails ==
    /\ Fails
    /\ RepeatBatch \/ \E h \in Hooks : RequestFails(h) \/ ReadState(h)
    /\ UNCHANGED <<tab, cache, answer>>

----------------------------------------------------------------------------
(* useWebSocket.                                                           *)

\* The page is opened: a new hook connects.
OpenPage ==
    /\ page = 0 /\ mounts < MaxMounts
    /\ mounts' = mounts + 1
    /\ page' = mounts'
    /\ Connect(mounts + 1)
    /\ UNCHANGED <<failures, cache, answer>>

\* The cleanup: clearTimeout, and close.  No message is taken up any more, but onclose is
\* still to run.
LeavePage ==
    /\ page # 0
    /\ page' = 0
    /\ socket' = [socket EXCEPT ![page] = IF @ = "waiting" THEN "none" ELSE "closing"]
    /\ wire' = [wire EXCEPT ![page] = <<>>]
    /\ UNCHANGED <<version, stream, request, failures, mounts, cache, answer>>

OnOpen(h) == Open(h) /\ Unmoved

Receives(h, type) ==
    /\ wire[h] # <<>> /\ Head(wire[h]).type = type
    /\ Deliver(h)
    /\ UNCHANGED <<failures, tab, answer>>

\* handleMessage: initial_state replaces the list and leaves the single robots alone.
OnInitialState(h) ==
    /\ Receives(h, "initial_state")
    /\ list' = Head(wire[h]).version
    /\ UNCHANGED detail

\* Mutant: only the list.
OnUpdateList(h) ==
    /\ Receives(h, "robot_update")
    /\ list' = Head(wire[h]).version
    /\ UNCHANGED detail

OnUpdate(h) ==
    /\ Receives(h, "robot_update")
    /\ list' = Head(wire[h]).version
    /\ detail' = list'

OnMessage(h) == OnInitialState(h) \/ OnUpdate(h)

\* onclose, also of a socket that the cleanup has closed.
OnClose(h) == Close(h) /\ Unmoved

\* The timer runs out, wherever the tab is by now.
Reconnect(h) == socket[h] = "waiting" /\ Connect(h) /\ Unmoved

----------------------------------------------------------------------------
(* useRobots and useRobot: fetched when shown, and when the tab gets the   *)
(* focus; both also by pages that have no socket.                          *)

Fetch(entry) ==
    /\ answer = None
    /\ \E v \in 0..version :
          /\ answer' = [entry |-> entry, version |-> v]
          /\ IF v = version THEN UNCHANGED failures ELSE Fails
    /\ UNCHANGED <<sockets, tab, cache>>

FetchList == Fetch("list")
FetchDetail == Fetch("detail")

\* An answer replaces the entry, whatever a socket has brought meanwhile.
Fetched ==
    /\ answer # None
    /\ list' = IF answer.entry = "list" THEN answer.version ELSE list
    /\ detail' = IF answer.entry = "detail" THEN answer.version ELSE detail
    /\ answer' = None
    /\ UNCHANGED <<sockets, failures, tab>>

Next ==
    \/ Serve \/ ServeFails
    \/ OpenPage \/ LeavePage \/ FetchList \/ FetchDetail \/ Fetched
    \/ \E h \in Hooks : OnOpen(h) \/ OnMessage(h) \/ OnClose(h) \/ Reconnect(h)

Spec == Init /\ [][Next]_vars

OfPage(Action(_)) == page # 0 /\ Action(page)
StateAt(h, i) == i <= Len(wire[h]) /\ wire[h][i].type = "initial_state"

\* The socket of the page shown closes in the end, but not each time before it has been told
\* the state.  Nobody has to fetch, no update has to be posted, and what becomes of the
\* sockets of earlier visits is open.
FairSpec ==
    /\ Spec
    /\ WF_vars(Broadcast /\ Unmoved)
    /\ WF_vars(OfPage(Reconnect) \/ OfPage(OnClose))
    /\ SF_vars(OfPage(OnOpen))
    /\ SF_vars(OfPage(ReadNow) /\ Unmoved) /\ SF_vars(OfPage(PostState) /\ Unmoved)
    /\ \A i \in 1..(MaxWire + 1) : SF_vars(OfPage(OnMessage) /\ StateAt(page, i))

----------------------------------------------------------------------------
(* Properties.                                                             *)

Messages == [type : {"initial_state", "robot_update"}, version : Versions]

TypeOK ==
    /\ version \in Versions /\ stream \in 0..version
    /\ socket \in [Hooks -> {"none", "connecting", "open", "closing", "waiting"}]
    /\ request \in [Hooks -> [at : {"none", "sent", "read"}, version : Versions]]
    /\ wire \in [Hooks -> Seq(Messages)]
    /\ failures \in 0..MaxFailures
    /\ mounts \in 0..MaxMounts /\ page \in 0..mounts
    /\ list \in Versions \cup {None} /\ detail \in Versions \cup {None}
    /\ answer \in [entry : {"list", "detail"}, version : Versions] \cup {None}

\* Once the robot is quiet, or gone, the page that is shown ends up with the table's state in
\* its list, whatever the sockets of earlier visits and old answers write into it.
ListIsShown == <>[](page # 0 => list = version)

\* The entry of a single robot is not part of initial_state: after a reconnect it keeps what
\* it had, but comes to the table's state as long as any updates reach the tab.
DetailIsShown ==
    []<><<\E h \in Hooks : OnUpdate(h)>>_vars => <>[](detail = version)
=============================================================================
