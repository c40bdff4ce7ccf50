---------------------------- MODULE RobotThreads ----------------------------
(***************************************************************************)
(* One RobotState object, two threads and no lock: the main thread ticks   *)
(* it (mqtt_client.py, run_forever) and the event loop thread of awscrt    *)
(* runs the callbacks that command and update it (_on_command_received,    *)
(* _on_next_job).                                                          *)
(*                                                                         *)
(* The image runs CPython 3.12 (emulator/Dockerfile), which hands the GIL  *)
(* over only on entry to a Python function, after a call and on a backward *)
(* jump.  Code between two such points is one step here; a handler that    *)
(* calls something is several.  Only the main thread writes battery_level  *)
(* and position, so a hand-over inside their updates shows nothing; the    *)
(* reads of speed within one drive are taken together.  The two threads    *)
(* may interleave at any speed.                                            *)
(***************************************************************************)
EXTENDS RobotState

VARIABLES
    tick,    \* the main thread: where it is in tick(), and its locals
    handler  \* the callback thread: where it is in a START_CLEANING

tvars == <<vars, tick, handler>>

Sleeping == [at |-> "sleep", elapsed |-> 0, target |-> 0, total |-> 0]
Waiting == [at |-> "wait", room |-> None]

TInit == Init /\ tick = Sleeping /\ handler = Waiting

\* The main thread moves on inside tick(), or returns from it.
Goto(pc) == tick' = [tick EXCEPT !.at = pc]
EndTick == tick' = Sleeping

unmoved == <<settings, current_room, route, cleaning_progress>>

----------------------------------------------------------------------------
(* The main thread.                                                        *)

\* tick reads the status and calls the helper for it; the helper's body runs later.
Helper ==
    [CLEANING |-> "cleaning", CHARGING |-> "charging",
     RETURNING_TO_DOCK |-> "returning", LOW_BATTERY |-> "low"]

Dispatch(e) ==
    /\ tick.at = "sleep"
    /\ status \in DOMAIN Helper
    /\ tick' = [Sleeping EXCEPT !.at = Helper[status], !.elapsed = e]
    /\ UNCHANGED <<vars, handler>>

\* Mutant: LOW_BATTERY is not set, only the speed.
TickCleaningUnnoticed ==
    /\ tick.at = "cleaning"
    /\ battery_level' = Drained(CleaningDrain, tick.elapsed)
    /\ IF battery_level' <= Threshold
         THEN speed' = 0 /\ EndTick
         ELSE /\ Goto(IF PathDone THEN "stop" ELSE "loop")
              /\ UNCHANGED speed
    /\ UNCHANGED <<status, position, unmoved, handler>>

\* _tick_cleaning up to its loop.  LOW_BATTERY overwrites whatever the status is now.
TickCleaning ==
    /\ tick.at = "cleaning"
    /\ battery_level' = Drained(CleaningDrain, tick.elapsed)
    /\ IF battery_level' <= Threshold
         THEN /\ status' = "LOW_BATTERY"
              /\ speed' = 0
              /\ EndTick
         ELSE /\ Goto(IF PathDone THEN "stop" ELSE "loop")
              /\ UNCHANGED <<status, speed>>
    /\ UNCHANGED <<position, unmoved, handler>>

LoopTest ==
    /\ tick.at = "loop"
    /\ IF tick.elapsed > 0 /\ ~PathDone THEN Goto("fetch") ELSE EndTick
    /\ UNCHANGED <<vars, handler>>

\* The path may have changed since the loop's test: an IndexError ends the tick.
FetchTarget ==
    /\ tick.at = "fetch"
    /\ IF PathDone
         THEN EndTick
         ELSE tick' = [tick EXCEPT !.at = "drive", !.target = Target]
    /\ UNCHANGED <<vars, handler>>

\* Snap to the target and count it, on whatever path there is by now.
SnapToTarget ==
    /\ tick.at = "drive"
    /\ Dist(position, tick.target) < Arrival
    /\ position' = tick.target
    /\ waypoint_index' = waypoint_index + 1
    /\ tick' = [tick EXCEPT !.at = "progress", !.total = Len(waypoints)]
    /\ UNCHANGED <<status, battery_level, speed, settings, current_room,
                   waypoints, cleaning_progress, handler>>

DriveToTarget ==
    /\ tick.at = "drive"
    /\ Dist(position, tick.target) >= Arrival
    /\ position' = Toward(position, tick.target, tick.elapsed)
    /\ EndTick
    /\ UNCHANGED <<status, battery_level, speed, unmoved, handler>>

\* A path emptied before the snap makes total zero: a ZeroDivisionError ends the tick.
CountProgress ==
    /\ tick.at = "progress"
    /\ IF tick.total = 0
         THEN EndTick /\ UNCHANGED cleaning_progress
         ELSE /\ cleaning_progress' = Least(100, (100 * waypoint_index) \div tick.total)
              /\ Goto(IF waypoint_index >= tick.total THEN "stop" ELSE "loop")
    /\ UNCHANGED <<status, battery_level, position, speed, settings, current_room,
                   route, handler>>

\* Mutant: the end of the room stops the robot without another look at the status.
TickStopUnchecked ==
    /\ tick.at = "stop"
    /\ Stopped
    /\ EndTick
    /\ UNCHANGED <<battery_level, position, settings, cleaning_progress, handler>>

\* _cmd_stop_cleaning called by the tick checks the status again.
TickStop ==
    /\ tick.at = "stop"
    /\ \/ StopCleaning
       \/ status # "CLEANING" /\ UNCHANGED vars
    /\ EndTick
    /\ UNCHANGED handler

TickCharging ==
    /\ tick.at = "charging"
    /\ Charged(tick.elapsed)
    /\ EndTick
    /\ UNCHANGED handler

TickReturning ==
    /\ tick.at = "returning"
    /\ battery_level' = Drained(HalfDrain, tick.elapsed)
    /\ IF waypoints = <<>>
         THEN EndTick
         ELSE tick' = [tick EXCEPT !.at = "home", !.target = waypoints[1]]
    /\ UNCHANGED <<status, position, speed, unmoved, handler>>

DriveTick ==
    /\ tick.at = "home"
    /\ position' = Toward(position, tick.target, tick.elapsed)
    /\ IF Dist(position', tick.target) < DockRadius THEN Goto("dock") ELSE EndTick
    /\ UNCHANGED <<status, battery_level, speed, unmoved, handler>>

\* The jump to DOCK_POSITION and CHARGING, whatever happened since the distance test.
TickDock ==
    /\ tick.at = "dock"
    /\ Docked
    /\ EndTick
    /\ UNCHANGED <<battery_level, handler>>

TickLow ==
    /\ tick.at = "low"
    /\ \/ HeadHome
       \/ status \in {"CHARGING", "RETURNING_TO_DOCK"} /\ UNCHANGED vars
    /\ EndTick
    /\ UNCHANGED handler

TickStep ==
    \/ TickCleaning \/ LoopTest \/ FetchTarget \/ SnapToTarget \/ DriveToTarget
    \/ CountProgress \/ TickStop \/ TickCharging \/ TickReturning \/ DriveTick
    \/ TickDock \/ TickLow

Main == (\E e \in Elapsed : Dispatch(e)) \/ TickStep

----------------------------------------------------------------------------
(* The callback thread.  Callbacks run one after the other; the bodies of  *)
(* all commands but START_CLEANING are single steps.                       *)

Handle(A) ==
    /\ handler.at = "wait"
    /\ A
    /\ UNCHANGED <<tick, handler>>

\* START_CLEANING with a room: accepted and entered, then the path is computed.
BeginStart(r) ==
    /\ handler.at = "wait"
    /\ AcceptsStart
    /\ EnterRoom(r)
    /\ handler' = [at |-> "path", room |-> r]
    /\ UNCHANGED <<battery_level, position, settings, route, tick>>

\* START_CLEANING without a room: accepted, then _random_room is called.
BeginRandomStart ==
    /\ handler.at = "wait"
    /\ AcceptsStart
    /\ handler' = [handler EXCEPT !.at = "choose"]
    /\ UNCHANGED <<vars, tick>>

ChooseRoom(r) ==
    /\ handler.at = "choose"
    /\ EnterRoom(r)
    /\ handler' = [at |-> "path", room |-> r]
    /\ UNCHANGED <<battery_level, position, settings, route, tick>>

FinishStart ==
    /\ handler.at = "path"
    /\ TakePath(handler.room)
    /\ handler' = Waiting
    /\ UNCHANGED <<status, battery_level, position, speed, settings, current_room,
                   cleaning_progress, tick>>

EndStart == (\E r \in Rooms : ChooseRoom(r)) \/ FinishStart

Callbacks ==
    \/ \E r \in Rooms : BeginStart(r)
    \/ BeginRandomStart
    \/ EndStart
    \/ Handle(StopCleaning)
    \/ Handle(ReturnToDock)
    \/ \E s \in SpeedParams : Handle(SetSpeed(s))
    \/ \E s \in OtaSpeeds, v \in Versions : Handle(ApplyOta(s, v))

TNext == Main \/ Callbacks

TSpec == TInit /\ [][TNext]_tvars

\* The main loop keeps ticking and a callback that has begun returns; nobody has to
\* send a command.
FairTSpec == TSpec /\ WF_tvars(Main) /\ WF_tvars(EndStart)

----------------------------------------------------------------------------
(* Properties.                                                             *)

TickPlaces == {"sleep", "loop", "fetch", "drive", "progress", "stop", "home", "dock"}
                \cup {Helper[s] : s \in DOMAIN Helper}

TTypeOK ==
    /\ TypeOK
    /\ tick \in [at : TickPlaces, elapsed : Elapsed \cup {0}, target : Int, total : Nat]
    /\ handler \in [at : {"wait", "choose", "path"}, room : Rooms \cup {None}]

\* Whatever lands in the middle of a tick, a homing robot has a place to go ...
HomingHasTarget == status = "RETURNING_TO_DOCK" => waypoints # <<>>

\* ... and a speed to get there with, unless it is at the dock already: a charging
\* tick that runs over an OTA job and a RETURN_TO_DOCK stops the robot, but only there.
HomingMoves ==
    status = "RETURNING_TO_DOCK" /\ speed = 0 => position = Dock /\ waypoints = <<Dock>>

\* What _tick_returning needs to end in the dock, in every interleaving.
HomingPossible == HomingHasTarget /\ HomingMoves

\* The battery never charges away from the dock, although _tick_charging and the end
\* of _tick_returning write without looking at the status again.
ChargesOnlyInDock ==
    [][battery_level' > battery_level => position = Dock]_tvars

\* A race never leaves the robot driving: on its way home it docks, and a room ends, or a
\* command or a job takes the robot elsewhere.
DrivingEnds ==
    \A st \in {"CLEANING", "RETURNING_TO_DOCK"} : status = st ~> status # st

\* Seen from outside, the interleaved robot is the abstract one of two threads: a tick acts
\* on the status it has read, and the end of a room alone looks at it again.
ReadBy(pc) ==
    CASE pc = "sleep"    -> "asleep"
      [] pc = "low"      -> "LOW_BATTERY"
      [] pc = "charging" -> "CHARGING"
      [] pc \in {"returning", "home", "dock"} -> "RETURNING_TO_DOCK"
      [] OTHER           -> "CLEANING"

Shared == INSTANCE SharedLifecycle
    WITH low <- battery_level <= Threshold,
         acting <- ReadBy(tick.at),
         entering <- handler.at = "choose"
ImplementsShared == Shared!Spec

\* SPEC.md:404-405, of the interleaved robot.
NoJump ==
    [][\E e \in Elapsed : Dist(position, position') <= Reach(e)]_tvars
=============================================================================
