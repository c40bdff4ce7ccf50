------------------------------ MODULE Commands ------------------------------
(***************************************************************************)
(* Commands between an operator's screen, or the schedule trigger, and one *)
(* robot: CommandPanel.tsx, send_command (api/robots.py, iot_service.py),  *)
(* scheduler_trigger.py, the persistent MQTT session, and the connecting,  *)
(* subscribing and command callback of mqtt_client.py.                     *)
(*                                                                         *)
(* The robot itself is SharedLifecycle, what RobotThreads implements: the  *)
(* command callback runs in one thread and the tick in another.  The       *)
(* screen shows the robot as it was at some earlier moment.  SET_SPEED,    *)
(* which no screen sends, is left out.                                     *)
(***************************************************************************)
EXTENDS Qos1, Integers

CONSTANTS
    None,
    MaxCommands,   \* bound: commands published
    MaxDrops,      \* how often the connection drops
    MaxExpiries,   \* how often the broker gives the session up meanwhile
    MaxCrashes     \* how often the robot's process dies

ASSUME CommandsNone == None \notin {"START_CLEANING", "STOP_CLEANING", "RETURN_TO_DOCK"}
ASSUME CommandsBounds ==
    /\ MaxCommands \in Nat /\ MaxDrops \in Nat
    /\ MaxExpiries \in Nat /\ MaxCrashes \in Nat

VARIABLES
    shown,       \* what the screen shows of the robot, None until the table knows it
    issued,      \* how many commands have been published; they are numbered
    latest,      \* the last of them, or None
    inbox,       \* the session's messages for the robot
    subscribed,  \* the session holds the subscription to the commands topic
    link,        \* the MQTT connection is up
    process,     \* "off", "starting", "running", or "resubscribing" in a resumed callback
    status, low, acting, entering,   \* SharedLifecycle
    heard,       \* history: the numbers of the commands the callback was called for
    lost,        \* history: the numbers of those that can no longer reach it
    faults       \* drops, expiries and crashes so far

lifecycle == <<status, low, acting, entering>>
cloud == <<shown, issued, latest>>
session == <<inbox, subscribed, link>>
history == <<heard, lost>>
vars == <<cloud, session, process, lifecycle, history, faults>>

Robot == INSTANCE SharedLifecycle

Kinds == {"START_CLEANING", "STOP_CLEANING", "RETURN_TO_DOCK"}
Message(n, c) == [number |-> n, command |-> c]

Init ==
    /\ shown = None /\ issued = 0 /\ latest = None
    /\ inbox = EmptyChannel /\ subscribed = FALSE /\ link = FALSE
    /\ process = "off"
    /\ Robot!Init
    /\ heard = {} /\ lost = {}
    /\ faults = [drops |-> 0, expiries |-> 0, crashes |-> 0]

----------------------------------------------------------------------------
(* The senders.                                                            *)

\* publish_command: the broker keeps the message if the session subscribes to it.
Publish(c) ==
    /\ issued < MaxCommands
    /\ issued' = issued + 1
    /\ latest' = c
    /\ IF subscribed
         THEN inbox' = Put(inbox, Message(issued', c)) /\ UNCHANGED lost
         ELSE lost' = lost \cup {issued'} /\ UNCHANGED inbox
    /\ UNCHANGED <<shown, subscribed, link, process, lifecycle, heard, faults>>

\* The buttons of CommandPanel that are enabled.
Offers(c) ==
    CASE c = "START_CLEANING" -> shown.status = "IDLE" /\ ~shown.low
      [] c = "STOP_CLEANING"  -> shown.status = "CLEANING"
      [] c = "RETURN_TO_DOCK" -> shown.status \notin {"CHARGING", "RETURNING_TO_DOCK"}

\* An operator presses a button; send_command knows the robot if the table has it.
SendCommand(c) == shown # None /\ Offers(c) /\ Publish(c)

\* The schedule trigger asks nobody.
TriggerStart == Publish("START_CLEANING")

\* The robot's telemetry, table and screen, as one step that may be late.
Refresh ==
    /\ link /\ process = "running"
    /\ shown' = [status |-> status, low |-> low]
    /\ UNCHANGED <<issued, latest, session, process, lifecycle, history, faults>>

----------------------------------------------------------------------------
(* The robot.                                                              *)

Accepts(c) ==
    CASE c = "START_CLEANING" -> status = "IDLE" /\ ~low
      [] c = "STOP_CLEANING"  -> status = "CLEANING"
      [] c = "RETURN_TO_DOCK" -> status \notin {"CHARGING", "RETURNING_TO_DOCK"}

Obey(c) ==
    CASE c = "START_CLEANING" -> Robot!Start \/ Robot!AcceptStart
      [] c = "STOP_CLEANING"  -> Robot!Stop
      [] c = "RETURN_TO_DOCK" -> Robot!HeadHome

\* Mutant: the newest message first.
OnCommandReceivedNewest ==
    /\ link /\ process = "running" /\ ~entering /\ HasNext(inbox)
    /\ LET m == inbox.msgs[Len(inbox.msgs)]
       IN  /\ IF Accepts(m.command) THEN Obey(m.command) ELSE UNCHANGED lifecycle
           /\ heard' = heard \cup {m.number}
    /\ inbox' = [inbox EXCEPT !.msgs = SubSeq(@, 1, Len(@) - 1)]
    /\ UNCHANGED <<cloud, subscribed, link, process, lost, faults>>

\* _on_command_received: a rejected command is logged, and acknowledged like any other.
OnCommandReceived ==
    /\ link /\ process = "running" /\ ~entering /\ HasNext(inbox)
    /\ LET m == NextOf(inbox)
       IN  /\ IF Accepts(m.command) THEN Obey(m.command) ELSE UNCHANGED lifecycle
           /\ heard' = heard \cup {m.number}
    /\ inbox' = Handled(inbox)
    /\ UNCHANGED <<cloud, subscribed, link, process, lost, faults>>

\* The rest of a START_CLEANING that has been accepted.
EnterRoom ==
    /\ Robot!Enter
    /\ UNCHANGED <<cloud, session, process, history, faults>>

\* run_forever ticks in the main thread, beside whatever the callbacks do.
Tick ==
    /\ process \in {"running", "resubscribing"}
    /\ Robot!Tick
    /\ UNCHANGED <<cloud, session, process, history, faults>>

\* An OTA job comes to the callback thread.
ApplyOta ==
    /\ process = "running"
    /\ Robot!Update
    /\ UNCHANGED <<cloud, session, process, history, faults>>

\* connect, up to _subscribe_commands; a persistent session starts sending at once.
Connect ==
    /\ process = "off"
    /\ process' = "starting"
    /\ link' = TRUE
    /\ UNCHANGED <<cloud, inbox, subscribed, lifecycle, history, faults>>

\* A message that arrives before its callback is registered is acknowledged and lost.
Unheard ==
    /\ link /\ process = "starting" /\ HasNext(inbox)
    /\ lost' = lost \cup {NextOf(inbox).number}
    /\ inbox' = Handled(inbox)
    /\ UNCHANGED <<cloud, subscribed, link, process, lifecycle, heard, faults>>

SubscribeCommands ==
    /\ link /\ process \in {"starting", "resubscribing"}
    /\ process' = "running"
    /\ subscribed' = TRUE
    /\ UNCHANGED <<cloud, inbox, link, lifecycle, history, faults>>

\* Mutant: the test for session_present is the wrong way round.
OnConnectionResumedInverted ==
    /\ process \in {"running", "resubscribing"} /\ ~link /\ ~entering
    /\ link' = TRUE
    /\ process' = IF subscribed THEN "resubscribing" ELSE process
    /\ UNCHANGED <<cloud, inbox, subscribed, lifecycle, history, faults>>

\* awscrt reconnects by itself, and the callback subscribes again if the session is gone:
\* it waits for the answer in the thread that would receive it, so that the subscription
\* is made only after the callback has timed out.
OnConnectionResumed ==
    /\ process \in {"running", "resubscribing"} /\ ~link /\ ~entering
    /\ link' = TRUE
    /\ process' = IF subscribed THEN process ELSE "resubscribing"
    /\ UNCHANGED <<cloud, inbox, subscribed, lifecycle, history, faults>>

----------------------------------------------------------------------------
(* What goes wrong.                                                        *)

\* The new process starts with a new RobotState, in its dock.
LoseProcess ==
    /\ process' = "off"
    /\ link' = FALSE
    /\ status' = "IDLE" /\ low' = FALSE
    /\ acting' = Robot!Asleep /\ entering' = FALSE
    /\ inbox' \in Resent(inbox)
    /\ UNCHANGED <<cloud, subscribed, history>>

\* Mutant: the connection is made with clean_session=True.
DropLinkClean ==
    /\ link /\ faults.drops < MaxDrops
    /\ faults' = [faults EXCEPT !.drops = @ + 1]
    /\ link' = FALSE
    /\ inbox' = EmptyChannel
    /\ UNCHANGED <<cloud, subscribed, process, lifecycle, history>>

\* Mutant: handled messages are forgotten, but still counted.
DropLinkCounting ==
    /\ link /\ faults.drops < MaxDrops
    /\ faults' = [faults EXCEPT !.drops = @ + 1]
    /\ link' = FALSE
    /\ inbox' = [inbox EXCEPT !.msgs = SubSeq(@, inbox.done + 1, Len(@))]
    /\ UNCHANGED <<cloud, subscribed, process, lifecycle, history>>

\* While connect waits for its subscription its time-out ends the process.
DropLink ==
    /\ link /\ faults.drops < MaxDrops
    /\ faults' = [faults EXCEPT !.drops = @ + 1]
    /\ IF process = "starting"
         THEN LoseProcess
         ELSE /\ link' = FALSE
              /\ inbox' \in Resent(inbox)
              /\ UNCHANGED <<cloud, subscribed, process, lifecycle, history>>

\* The broker forgets the session of a robot that stays away for too long.
ExpireSession ==
    /\ ~link /\ subscribed /\ faults.expiries < MaxExpiries
    /\ faults' = [faults EXCEPT !.expiries = @ + 1]
    /\ subscribed' = FALSE
    /\ inbox' = EmptyChannel
    /\ lost' = lost \cup {inbox.msgs[i].number : i \in 1..Len(inbox.msgs)}
    /\ UNCHANGED <<cloud, link, process, lifecycle, heard>>

Crash ==
    /\ process # "off" /\ faults.crashes < MaxCrashes
    /\ faults' = [faults EXCEPT !.crashes = @ + 1]
    /\ LoseProcess

----------------------------------------------------------------------------

Next ==
    \/ \E c \in Kinds : SendCommand(c)
    \/ TriggerStart \/ Refresh
    \/ OnCommandReceived \/ EnterRoom \/ Tick \/ ApplyOta
    \/ Connect \/ Unheard \/ SubscribeCommands \/ OnConnectionResumed
    \/ DropLink \/ ExpireSession \/ Crash

Spec == Init /\ [][Next]_vars

\* The callback thread runs, docker restarts the process, awscrt reconnects and a
\* subscription is answered.  No room has to end, and nobody has to send a command.
FairSpec ==
    /\ Spec
    /\ WF_vars(OnCommandReceived)
    /\ WF_vars(EnterRoom)
    /\ WF_vars(Connect \/ SubscribeCommands \/ OnConnectionResumed)

----------------------------------------------------------------------------
(* Properties.                                                             *)

Statuses == {"IDLE", "CLEANING", "CHARGING", "RETURNING_TO_DOCK", "LOW_BATTERY"}

TypeOK ==
    /\ shown \in [status : Statuses, low : BOOLEAN] \cup {None}
    /\ issued \in 0..MaxCommands
    /\ latest \in Kinds \cup {None}
    /\ inbox \in ChannelOf([number : 1..MaxCommands, command : Kinds])
    /\ inbox.done <= Len(inbox.msgs)
    /\ subscribed \in BOOLEAN /\ link \in BOOLEAN
    /\ process \in {"off", "starting", "running", "resubscribing"}
    /\ status \in Statuses /\ low \in BOOLEAN
    /\ acting \in Statuses \cup {Robot!Asleep} /\ entering \in BOOLEAN
    /\ heard \subseteq 1..MaxCommands /\ lost \subseteq 1..MaxCommands
    /\ faults \in [drops : 0..MaxDrops, expiries : 0..MaxExpiries, crashes : 0..MaxCrashes]

\* A STOP_CLEANING or RETURN_TO_DOCK has the last word: when everything published has been
\* handled, no older START_CLEANING that was sent again, no late write of a tick and no
\* restart has left the robot cleaning or about to, as long as the session lived.  More
\* does not hold: a tick that read CLEANING puts LOW_BATTERY over a RETURN_TO_DOCK.
SettlesOnLast ==
    ~HasNext(inbox) /\ faults.expiries = 0 =>
        (latest \in {"STOP_CLEANING", "RETURN_TO_DOCK"} => status # "CLEANING" /\ ~entering)

\* Every command published reaches the robot, though maybe late and more than once, unless
\* there was no subscription, the session expired, or it came while the robot started.
CommandsArrive ==
    \A n \in 1..MaxCommands : issued >= n ~> n \in heard \cup lost

\* A STOP_CLEANING stops the robot whatever happens to connection and process, unless
\* another command follows it or the session expires.
StopWorks ==
    latest = "STOP_CLEANING"
        ~> \/ status # "CLEANING" \/ latest # "STOP_CLEANING"
           \/ faults.expiries > 0

\* However it lost its connection, its session or its process, the robot can be commanded
\* again.
HeardAgain == []<>(link /\ subscribed /\ process = "running")
=============================================================================
