----------------------------- MODULE RobotState -----------------------------
(***************************************************************************)
(* The state machine of one robot: emulator/robot/robot_state.py.          *)
(*                                                                         *)
(* One action per handler, each handler atomic; RobotThreads takes the     *)
(* handlers apart.  The floor is a line: a position is the integer number  *)
(* of centimetres on it, the dock is Dock, and the zigzag path of a room   *)
(* is a sequence of positions.  What depends on two dimensions (the room   *)
(* label of a position) is left out; distances, arrival, docking and speed *)
(* are those of the code, in cm and cm/s.                                  *)
(***************************************************************************)
EXTENDS Integers, Sequences

CONSTANTS
    Rooms,        \* the rooms that can be cleaned (ROOMS without the dock)
    PathOf,       \* [Rooms -> waypoints], what _boustrophedon_path returns
    None,         \* Python's None
    Dock,         \* DOCK_POSITION
    Full,         \* 100 % of battery, in units of half a returning second's drain
    Threshold,    \* low_battery_threshold
    HalfDrain,    \* battery drained by a second of driving home
    ChargeRate,   \* battery gained by a second in the dock
    Elapsed,      \* the values now - _last_tick can have
    SpeedParams,  \* the speeds SET_SPEED commands carry
    OtaSpeeds,    \* the max_speed of the OTA jobs
    Versions,     \* the versions of the OTA jobs
    FactoryVersion, FactorySpeed

Arrival    == 15   \* ARRIVAL_THRESHOLD
DockRadius == 30   \* the 0.3 m of _tick_returning
MinSpeed   == 10
MaxSpeed   == 200

Statuses == {"IDLE", "CLEANING", "CHARGING", "RETURNING_TO_DOCK", "LOW_BATTERY"}

Dist(p, q) == IF p <= q THEN q - p ELSE p - q
Least(a, b) == IF a <= b THEN a ELSE b
Greatest(a, b) == IF a >= b THEN a ELSE b

\* Waypoints lie further apart than Arrival, so one tick snaps to at most one.
ASSUME PathAssumption ==
    /\ PathOf \in [Rooms -> Seq(Int) \ {<<>>}]
    /\ \A r \in Rooms : \A i \in 1..(Len(PathOf[r]) - 1) :
          Dist(PathOf[r][i], PathOf[r][i + 1]) > Arrival
ASSUME RoomsAssumption == None \notin Rooms
ASSUME DockAssumption == Dock \in Int
ASSUME BatteryAssumption ==
    /\ Full \in Nat /\ Threshold \in Nat /\ Threshold < Full
    /\ HalfDrain \in Nat /\ ChargeRate \in Nat
ASSUME ElapsedAssumption == Elapsed \subseteq Int
\* models/ota.py: new_speed is positive and at most 2 m/s.
ASSUME SpeedAssumption ==
    /\ SpeedParams \subseteq Int
    /\ OtaSpeeds \subseteq 1..MaxSpeed
    /\ FactorySpeed \in MinSpeed..MaxSpeed
ASSUME VersionAssumption == FactoryVersion \in Versions

VARIABLES
    status, battery_level, position, speed, max_speed, firmware_version,
    current_room, waypoints, waypoint_index, cleaning_progress

settings == <<max_speed, firmware_version>>
route == <<waypoints, waypoint_index>>
vars == <<status, battery_level, position, speed, settings, current_room,
          route, cleaning_progress>>

Init ==
    /\ status = "IDLE"
    /\ battery_level = Full
    /\ position = Dock
    /\ speed = 0
    /\ max_speed = FactorySpeed
    /\ firmware_version = FactoryVersion
    /\ current_room = None
    /\ waypoints = <<>>
    /\ waypoint_index = 0
    /\ cleaning_progress = 0

----------------------------------------------------------------------------
(* Commands.  A rejected command changes nothing and is no step.           *)

\* Mutant: 8 for 0.8.
HomingSpeedTimesEight == 8 * max_speed

\* 80 % of the maximum, rounded up: a speed is never zero for a positive maximum.
HomingSpeed == (4 * max_speed + 4) \div 5

\* Mutant: no look at the battery.
AcceptsStartAnyBattery == status = "IDLE"

AcceptsStart == status = "IDLE" /\ battery_level > Threshold

\* The first assignments of _cmd_start_cleaning, up to the call that makes the path.
EnterRoom(r) ==
    /\ current_room' = r
    /\ status' = "CLEANING"
    /\ speed' = max_speed
    /\ cleaning_progress' = 0

TakePath(r) ==
    /\ waypoints' = PathOf[r]
    /\ waypoint_index' = 0

StartCleaning(r) ==
    /\ AcceptsStart
    /\ EnterRoom(r)
    /\ TakePath(r)
    /\ UNCHANGED <<battery_level, position, settings>>

\* The body of _cmd_stop_cleaning once it is accepted.
Stopped ==
    /\ status' = "IDLE"
    /\ speed' = 0
    /\ current_room' = None
    /\ waypoints' = <<>>
    /\ waypoint_index' = 0

StopCleaning ==
    /\ status = "CLEANING"
    /\ Stopped
    /\ UNCHANGED <<battery_level, position, settings, cleaning_progress>>

\* Mutant: the old path is kept.
HeadHomeOnOldPath ==
    /\ status \notin {"CHARGING", "RETURNING_TO_DOCK"}
    /\ status' = "RETURNING_TO_DOCK"
    /\ speed' = HomingSpeed
    /\ UNCHANGED <<battery_level, position, settings, current_room, route,
                   cleaning_progress>>

\* Mutant: rejected in LOW_BATTERY too.
HeadHomeFromWork ==
    /\ status \in {"IDLE", "CLEANING"}
    /\ status' = "RETURNING_TO_DOCK"
    /\ speed' = HomingSpeed
    /\ waypoints' = <<Dock>>
    /\ waypoint_index' = 0
    /\ UNCHANGED <<battery_level, position, settings, current_room, cleaning_progress>>

\* The body of _cmd_return_to_dock, for the command and for a LOW_BATTERY tick.
HeadHome ==
    /\ status \notin {"CHARGING", "RETURNING_TO_DOCK"}
    /\ status' = "RETURNING_TO_DOCK"
    /\ speed' = HomingSpeed
    /\ waypoints' = <<Dock>>
    /\ waypoint_index' = 0
    /\ UNCHANGED <<battery_level, position, settings, current_room, cleaning_progress>>

ReturnToDock == HeadHome

\* Mutant: no upper limit.
ClampBelow(s) == Greatest(MinSpeed, s)

Clamp(s) == Greatest(MinSpeed, Least(MaxSpeed, s))

SetSpeed(s) ==
    /\ max_speed' = Clamp(s)
    /\ speed' = IF status = "CLEANING" THEN max_speed' ELSE speed
    /\ UNCHANGED <<status, battery_level, position, firmware_version,
                   current_room, route, cleaning_progress>>

\* Mutant: the speed is not restored after the update.
ApplyOtaStopping(s, v) ==
    /\ max_speed' = s
    /\ firmware_version' = v
    /\ status' = IF status = "CLEANING" THEN "CLEANING" ELSE "IDLE"
    /\ speed' = 0
    /\ UNCHANGED <<battery_level, position, current_room, route, cleaning_progress>>

\* UPDATING is entered and left within the call.
ApplyOta(s, v) ==
    /\ max_speed' = s
    /\ firmware_version' = v
    /\ status' = IF status = "CLEANING" THEN "CLEANING" ELSE "IDLE"
    /\ speed' = IF status = "CLEANING" THEN s ELSE 0
    /\ UNCHANGED <<battery_level, position, current_room, route, cleaning_progress>>

----------------------------------------------------------------------------
(* The tick, elapsed e.                                                    *)

\* Where _move_toward ends: never past the target, backwards if e is negative.
Toward(p, target, e) ==
    LET step == Least(speed * e, Dist(p, target))
    IN  CASE p < target -> p + step
          [] p > target -> p - step
          [] OTHER      -> p

Drained(rate, e) == Greatest(0, battery_level - rate * e)
CleaningDrain == 2 * HalfDrain

PathDone == waypoint_index >= Len(waypoints)
Target == waypoints[waypoint_index + 1]
Arrived == Dist(position, Target) < Arrival
Progress(i) == (100 * i) \div Len(waypoints)

Cleaning(e) ==
    /\ status = "CLEANING"
    /\ battery_level' = Drained(CleaningDrain, e)

RunLow(e) ==
    /\ Cleaning(e)
    /\ battery_level' <= Threshold
    /\ status' = "LOW_BATTERY"
    /\ speed' = 0
    /\ UNCHANGED <<position, settings, current_room, route, cleaning_progress>>

\* The tick that reaches the last waypoint, or finds no waypoint, stops the cleaning.
ReachesEnd(e) ==
    e > 0 /\ Arrived /\ waypoint_index + 1 >= Len(waypoints)

FinishRoom(e) ==
    /\ Cleaning(e)
    /\ battery_level' > Threshold
    /\ PathDone \/ ReachesEnd(e)
    /\ position' = IF PathDone THEN position ELSE Target
    /\ cleaning_progress' = IF PathDone THEN cleaning_progress ELSE 100
    /\ Stopped
    /\ UNCHANGED settings

\* Snap to a waypoint and spend the tick on the way to the next one.
PassWaypoint(e) ==
    /\ Cleaning(e)
    /\ battery_level' > Threshold
    /\ ~PathDone /\ e > 0 /\ Arrived
    /\ waypoint_index + 1 < Len(waypoints)
    /\ waypoint_index' = waypoint_index + 1
    /\ cleaning_progress' = Progress(waypoint_index')
    /\ position' = Toward(Target, waypoints[waypoint_index' + 1], e)
    /\ UNCHANGED <<status, speed, settings, current_room, waypoints>>

CrossRoom(e) ==
    /\ Cleaning(e)
    /\ battery_level' > Threshold
    /\ ~PathDone
    /\ e > 0 => ~Arrived
    /\ position' = IF e > 0 THEN Toward(position, Target, e) ELSE position
    /\ UNCHANGED <<status, speed, settings, current_room, route, cleaning_progress>>

\* _cmd_return_to_dock from the tick.
LeaveLowBattery ==
    /\ status = "LOW_BATTERY"
    /\ HeadHome

\* The writes of _tick_charging, whatever the status has become meanwhile.
Charged(e) ==
    /\ battery_level' = Least(Full, battery_level + ChargeRate * e)
    /\ speed' = 0
    /\ status' = IF battery_level' >= Full THEN "IDLE" ELSE status
    /\ UNCHANGED <<position, settings, current_room, route, cleaning_progress>>

Charge(e) ==
    /\ status = "CHARGING"
    /\ Charged(e)

Returning(e) ==
    /\ status = "RETURNING_TO_DOCK"
    /\ battery_level' = Drained(HalfDrain, e)

\* Mutant: the position is left where the robot stopped.
DockedInPlace ==
    /\ status' = "CHARGING"
    /\ speed' = 0
    /\ waypoints' = <<>>
    /\ UNCHANGED <<position, settings, current_room, waypoint_index, cleaning_progress>>

\* Mutant: the status is not set.
DockedSilently ==
    /\ position' = Dock
    /\ speed' = 0
    /\ waypoints' = <<>>
    /\ UNCHANGED <<status, settings, current_room, waypoint_index, cleaning_progress>>

\* The body of _tick_returning once the robot is near its target.
Docked ==
    /\ position' = Dock
    /\ status' = "CHARGING"
    /\ speed' = 0
    /\ waypoints' = <<>>
    /\ UNCHANGED <<settings, current_room, waypoint_index, cleaning_progress>>

DriveHome(e) ==
    /\ Returning(e)
    /\ waypoints # <<>> => Dist(Toward(position, waypoints[1], e), waypoints[1]) >= DockRadius
    /\ position' = IF waypoints = <<>> THEN position
                                       ELSE Toward(position, waypoints[1], e)
    /\ UNCHANGED <<status, speed, settings, current_room, route, cleaning_progress>>

\* Mutant: no distance test.
EnterDockFromAfar(e) ==
    /\ Returning(e)
    /\ waypoints # <<>>
    /\ Docked

EnterDock(e) ==
    /\ Returning(e)
    /\ waypoints # <<>>
    /\ Dist(Toward(position, waypoints[1], e), waypoints[1]) < DockRadius
    /\ Docked

Tick(e) ==
    \/ RunLow(e)
    \/ FinishRoom(e)
    \/ PassWaypoint(e)
    \/ CrossRoom(e)
    \/ LeaveLowBattery
    \/ Charge(e)
    \/ DriveHome(e)
    \/ EnterDock(e)

AnyTick == \E e \in Elapsed : Tick(e)

Command ==
    \/ \E r \in Rooms : StartCleaning(r)
    \/ StopCleaning
    \/ ReturnToDock
    \/ \E s \in SpeedParams : SetSpeed(s)

Ota == \E s \in OtaSpeeds, v \in Versions : ApplyOta(s, v)

Next == AnyTick \/ Command \/ Ota

Spec == Init /\ [][Next]_vars

\* run_forever calls tick in an endless loop; nobody has to send a command.
FairSpec == Spec /\ WF_vars(AnyTick)

----------------------------------------------------------------------------
(* Properties.                                                             *)

TypeOK ==
    /\ status \in Statuses
    /\ battery_level \in Int
    /\ position \in Int
    /\ speed \in 0..MaxSpeed
    /\ max_speed \in 1..MaxSpeed
    /\ firmware_version \in Versions
    /\ current_room \in Rooms \cup {None}
    /\ waypoints \in Seq(Int)
    /\ waypoint_index \in Nat
    /\ cleaning_progress \in Int

\* A robot that drives home has the dock as its only waypoint and a speed to get
\* there with; _tick_returning would otherwise do nothing, forever.
HomewardBound ==
    status = "RETURNING_TO_DOCK" => waypoints = <<Dock>> /\ speed > 0

\* The battery only ever charges in the dock: CHARGING is entered after the jump
\* to DOCK_POSITION and nothing moves the robot before it leaves that status.
ChargingAtDock == status = "CHARGING" => position = Dock

\* While it cleans, the robot follows the path of current_room, has a waypoint
\* left on it, drives at max_speed (also after an OTA or SET_SPEED in mid-room)
\* and has more battery than the threshold at the end of every handler.
CleaningOnCourse ==
    status = "CLEANING" =>
        /\ current_room \in Rooms
        /\ waypoints = PathOf[current_room]
        /\ waypoint_index < Len(waypoints)
        /\ speed = max_speed
        /\ battery_level > Threshold

\* Whichever commands, OTA jobs and ticks met in whatever order, a driving robot is on
\* the way its status says, to the dock or along its room, and able to go on.
OnCourse == HomewardBound /\ CleaningOnCourse

\* Outside CLEANING and RETURNING_TO_DOCK the reported speed is zero, whichever
\* of the ten ways into those statuses was taken.
StandsStill ==
    status \in {"IDLE", "CHARGING", "LOW_BATTERY"} => speed = 0

\* The invariants above together: inductive, and what the proofs carry.
Safe == HomewardBound /\ ChargingAtDock /\ CleaningOnCourse /\ StandsStill

\* With a clock that never steps back the battery stays within its scale.
BatteryInScale == battery_level \in 0..Full

\* SPEC.md:404-405: the robot never jumps.  A step covers what its speed allows in
\* the longest tick, plus the radius within which it is snapped to its target.
Reach(e) == speed * e + DockRadius
NoTeleport ==
    [][\E e \in Elapsed : Dist(position, position') <= Reach(e)]_vars

\* Every status but IDLE is left: a room ends, a charge completes, a homing robot arrives
\* and a drained one gets home by itself, as the module docstring's state diagram has it,
\* unless an OTA job lands on the way and leaves the robot in IDLE.
OnlyIdleLasts ==
    /\ \A st \in {"CLEANING", "CHARGING"} : status = st ~> status # st
    /\ status \in {"RETURNING_TO_DOCK", "LOW_BATTERY"} ~> status \in {"CHARGING", "IDLE"}

\* Seen from outside, the robot is the abstract one: in particular it never starts a
\* room at or under the threshold, and only in its dock does a low battery recover.
Lifecycle == INSTANCE RobotLifecycle
    WITH docked <- position = Dock, low <- battery_level <= Threshold
ImplementsLifecycle == Lifecycle!Spec
=============================================================================
