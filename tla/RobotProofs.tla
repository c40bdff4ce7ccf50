--------------------------- MODULE RobotProofs -------------------------------
(***************************************************************************)
(* Theorems about the robot, for every floor plan, battery, set of         *)
(* commands, jobs and clock readings that the assumptions of RobotState    *)
(* allow: first about RobotState, whose methods run one at a time, then    *)
(* about RobotThreads, for every interleaving of its two threads.          *)
(***************************************************************************)
EXTENDS RobotThreads, TLAPS

Assumptions ==
    /\ PathOf \in [Rooms -> Seq(Int) \ {<<>>}]
    /\ None \notin Rooms
    /\ Dock \in Int
    /\ Full \in Nat /\ Threshold \in Nat /\ Threshold < Full
    /\ HalfDrain \in Nat /\ ChargeRate \in Nat
    /\ Elapsed \subseteq Int
    /\ SpeedParams \subseteq Int
    /\ OtaSpeeds \subseteq 1..MaxSpeed
    /\ FactorySpeed \in MinSpeed..MaxSpeed
    /\ FactoryVersion \in Versions

\* The assumptions of RobotState, under one name.
LEMMA Assumed == Assumptions
BY PathAssumption, RoomsAssumption, DockAssumption, BatteryAssumption,
   ElapsedAssumption, SpeedAssumption, VersionAssumption
   DEF Assumptions

\* A path is a sequence of integer positions with at least one waypoint.
LEMMA PathFacts ==
    ASSUME NEW r \in Rooms
    PROVE  /\ PathOf[r] \in Seq(Int)
           /\ Len(PathOf[r]) \in Nat /\ Len(PathOf[r]) > 0
BY PathAssumption

\* The speed home is positive whenever the maximum is, and never above it.
LEMMA HomingSpeedFacts ==
    ASSUME max_speed \in 1..MaxSpeed
    PROVE  HomingSpeed \in 1..MaxSpeed
BY DEF HomingSpeed, MaxSpeed

\* _cmd_set_speed keeps the maximum between 0.1 and 2 m/s for every parameter.
LEMMA ClampFacts ==
    ASSUME NEW s \in Int
    PROVE  Clamp(s) \in MinSpeed..MaxSpeed
BY DEF Clamp, Greatest, Least, MinSpeed, MaxSpeed

\* A drive from a position toward a target ends at a position.
LEMMA TowardInt ==
    ASSUME NEW p \in Int, NEW t \in Int, NEW e \in Int, speed \in Int
    PROVE  Toward(p, t, e) \in Int
<1> DEFINE step == Least(speed * e, Dist(p, t))
<1>1. speed * e \in Int
  OBVIOUS
<1>2. step \in Int
  BY <1>1 DEF Least, Dist
<1>3. Toward(p, t, e) = CASE p < t -> p + step [] p > t -> p - step [] OTHER -> p
  BY DEF Toward
<1> HIDE DEF step
<1>4. QED
  BY <1>2, <1>3

\* The battery a tick leaves behind is a number that is not negative.
LEMMA DrainedNat ==
    ASSUME NEW rate \in Int, NEW e \in Int, battery_level \in Int
    PROVE  Drained(rate, e) \in Nat
<1>1. rate * e \in Int
  OBVIOUS
<1>2. QED
  BY <1>1 DEF Drained, Greatest

-----------------------------------------------------------------------------
\* Every handler leaves each variable with its type.
LEMMA NextKeepsTypes ==
    ASSUME TypeOK, [Next]_vars
    PROVE  TypeOK'
<1> USE Assumed DEF Assumptions
<1> USE DEF TypeOK, Statuses, settings, route
<1>1. ASSUME NEW r \in Rooms, StartCleaning(r)
      PROVE  TypeOK'
  BY <1>1, PathFacts DEF StartCleaning, EnterRoom, TakePath, MaxSpeed
<1>2. CASE StopCleaning
  BY <1>2 DEF StopCleaning, Stopped, MaxSpeed
<1>3. CASE HeadHome
  BY <1>3, HomingSpeedFacts DEF HeadHome, MaxSpeed
<1>4. ASSUME NEW s \in SpeedParams, SetSpeed(s)
      PROVE  TypeOK'
  <2>1. Clamp(s) \in MinSpeed..MaxSpeed
    BY ClampFacts
  <2>2. max_speed' \in 1..MaxSpeed
    BY <1>4, <2>1 DEF SetSpeed, MaxSpeed, MinSpeed
  <2>3. speed' \in 0..MaxSpeed
    BY <1>4, <2>2 DEF SetSpeed, MaxSpeed
  <2>4. QED
    BY <1>4, <2>2, <2>3 DEF SetSpeed
<1>5. ASSUME NEW s \in OtaSpeeds, NEW v \in Versions, ApplyOta(s, v)
      PROVE  TypeOK'
  BY <1>5 DEF ApplyOta, MaxSpeed
<1>6. ASSUME NEW e \in Elapsed, Tick(e)
      PROVE  TypeOK'
  <2>1. e \in Int /\ speed \in Int /\ CleaningDrain \in Int
    BY DEF CleaningDrain, MaxSpeed
  <2>2. Drained(CleaningDrain, e) \in Nat /\ Drained(HalfDrain, e) \in Nat
    <3>1. battery_level \in Int /\ HalfDrain \in Int
      OBVIOUS
    <3>2. QED
      BY <2>1, <3>1, DrainedNat
  <2>3. ~PathDone => Target \in Int
    BY DEF PathDone, Target
  <2>4. CASE RunLow(e)
    BY <2>2, <2>4 DEF RunLow, Cleaning, MaxSpeed
  <2>5. CASE FinishRoom(e)
    BY <2>2, <2>3, <2>5 DEF FinishRoom, Cleaning, Stopped, MaxSpeed
  <2>6. CASE PassWaypoint(e)
    <3>1. waypoint_index' \in Nat /\ waypoint_index' + 1 \in 1..Len(waypoints)
      BY <2>6 DEF PassWaypoint
    <3>2. waypoints[waypoint_index' + 1] \in Int
      BY <3>1
    <3>3. position' \in Int
      BY <2>1, <2>3, <2>6, <3>2, TowardInt DEF PassWaypoint
    <3>4. cleaning_progress' \in Int
      BY <2>6, <3>1 DEF PassWaypoint, Progress
    <3>5. QED
      BY <2>2, <2>6, <3>1, <3>3, <3>4 DEF PassWaypoint, Cleaning
  <2>7. CASE CrossRoom(e)
    BY <2>1, <2>2, <2>3, <2>7, TowardInt DEF CrossRoom, Cleaning
  <2>8. CASE LeaveLowBattery
    BY <1>3, <2>8 DEF LeaveLowBattery
  <2>9. CASE Charge(e)
    <3>1. ChargeRate * e \in Int
      BY <2>1
    <3>2. QED
      BY <2>9, <3>1 DEF Charge, Charged, Least, MaxSpeed
  <2>10. waypoints # <<>> => waypoints[1] \in Int
    OBVIOUS
  <2>11. CASE DriveHome(e)
    <3>1. waypoints # <<>> => Toward(position, waypoints[1], e) \in Int
      BY <2>1, <2>10, TowardInt
    <3>2. position' \in Int
      BY <2>11, <3>1 DEF DriveHome
    <3>3. QED
      BY <2>2, <2>11, <3>2 DEF DriveHome, Returning
  <2>12. CASE EnterDock(e)
    BY <2>2, <2>12 DEF EnterDock, Returning, Docked, MaxSpeed
  <2>13. QED
    BY <1>6, <2>4, <2>5, <2>6, <2>7, <2>8, <2>9, <2>11, <2>12 DEF Tick
<1>7. CASE UNCHANGED vars
  BY <1>7 DEF vars
<1>8. QED
  BY <1>1, <1>2, <1>3, <1>4, <1>5, <1>6, <1>7
     DEF Next, Command, Ota, AnyTick, ReturnToDock

\* Every variable keeps its type; in particular no handler ends in UPDATING or
\* ERROR, and no speed is negative or above 2 m/s.
THEOREM TypeCorrect == Spec => []TypeOK
<1>1. Init => TypeOK
  BY Assumed DEF Assumptions, Init, TypeOK, Statuses, MinSpeed, MaxSpeed
<1>2. TypeOK /\ [Next]_vars => TypeOK'
  BY NextKeepsTypes
<1>3. QED
  BY <1>1, <1>2, PTL DEF Spec

-----------------------------------------------------------------------------
\* Whatever commands, OTA jobs and ticks arrive, in whatever order: a homing robot
\* is bound for the dock and moving, a charging one is at the dock, a cleaning one
\* is on the path of its room with battery to spare, the others stand still.  The
\* conjunction is inductive (given TypeOK); no reading of the clock can break it.
THEOREM SafeAlways ==
    Spec => [](HomewardBound /\ ChargingAtDock /\ CleaningOnCourse /\ StandsStill)
<1> USE Assumed DEF Assumptions
<1>1. Init => Safe
  BY DEF Init, Safe, HomewardBound, ChargingAtDock, CleaningOnCourse, StandsStill
<1>2. TypeOK /\ Safe /\ [Next]_vars => Safe'
  <2> SUFFICES ASSUME TypeOK, Safe, [Next]_vars
               PROVE  Safe'
    OBVIOUS
  <2> USE DEF Safe, HomewardBound, ChargingAtDock, CleaningOnCourse, StandsStill,
              settings, route
  <2>1. ASSUME NEW r \in Rooms, StartCleaning(r)
        PROVE  Safe'
    <3>1. Len(PathOf[r]) > 0
      BY PathFacts
    <3>2. QED
      BY <2>1, <3>1 DEF StartCleaning, AcceptsStart, EnterRoom, TakePath
  <2>2. CASE StopCleaning
    BY <2>2 DEF StopCleaning, Stopped
  <2>3. CASE HeadHome
    <3>1. HomingSpeed > 0
      BY HomingSpeedFacts DEF TypeOK
    <3>2. QED
      BY <2>3, <3>1 DEF HeadHome
  <2>4. ASSUME NEW s \in SpeedParams, SetSpeed(s)
        PROVE  Safe'
    BY <2>4 DEF SetSpeed
  <2>5. ASSUME NEW s \in OtaSpeeds, NEW v \in Versions, ApplyOta(s, v)
        PROVE  Safe'
    BY <2>5 DEF ApplyOta
  <2>6. ASSUME NEW e \in Elapsed, Tick(e)
        PROVE  Safe'
    <3>1. CASE RunLow(e)
      BY <3>1 DEF RunLow
    <3>2. CASE FinishRoom(e)
      BY <3>2 DEF FinishRoom, Stopped
    <3>3. CASE PassWaypoint(e)
      BY <3>3 DEF PassWaypoint, Cleaning
    <3>4. CASE CrossRoom(e)
      BY <3>4 DEF CrossRoom, Cleaning
    <3>5. CASE LeaveLowBattery
      BY <2>3, <3>5 DEF LeaveLowBattery
    <3>6. CASE Charge(e)
      BY <3>6 DEF Charge, Charged
    <3>7. CASE DriveHome(e)
      BY <3>7 DEF DriveHome, Returning
    <3>8. CASE EnterDock(e)
      BY <3>8 DEF EnterDock, Docked
    <3>9. QED
      BY <2>6, <3>1, <3>2, <3>3, <3>4, <3>5, <3>6, <3>7, <3>8 DEF Tick
  <2>7. CASE UNCHANGED vars
    BY <2>7 DEF vars
  <2>8. QED
    BY <2>1, <2>2, <2>3, <2>4, <2>5, <2>6, <2>7
       DEF Next, Command, Ota, AnyTick, ReturnToDock
<1>3. QED
  BY <1>1, <1>2, TypeCorrect, PTL DEF Spec, Safe

\* Of these: a robot that drives is on the way its status says and able to go on,
\* whichever command, battery level or OTA job made it turn round or change speed.
THEOREM StaysOnCourse == Spec => []OnCourse
BY SafeAlways, PTL DEF OnCourse

-----------------------------------------------------------------------------
\* With a clock that never steps back the battery stays between empty and full:
\* draining stops at zero, charging at Full.
THEOREM BatteryStaysInScale ==
    ASSUME Elapsed \subseteq Nat
    PROVE  Spec => []BatteryInScale
<1> USE Assumed DEF Assumptions
<1>1. Init => BatteryInScale
  BY DEF Init, BatteryInScale
<1>2. BatteryInScale /\ [Next]_vars => BatteryInScale'
  <2> SUFFICES ASSUME BatteryInScale, [Next]_vars
               PROVE  BatteryInScale'
    OBVIOUS
  <2> USE DEF BatteryInScale
  <2>1. ASSUME NEW rate \in Nat, NEW e \in Nat
        PROVE  Drained(rate, e) \in 0..Full
    <3>1. rate * e \in Nat
      OBVIOUS
    <3>2. QED
      BY <3>1 DEF Drained, Greatest
  <2>2. CleaningDrain \in Nat
    BY DEF CleaningDrain
  <2>3. CASE Command
    BY <2>3 DEF Command, StartCleaning, StopCleaning, ReturnToDock, HeadHome, SetSpeed
  <2>4. CASE Ota
    BY <2>4 DEF Ota, ApplyOta
  <2>5. ASSUME NEW e \in Elapsed, Tick(e)
        PROVE  BatteryInScale'
    <3>1. e \in Nat
      OBVIOUS
    <3>2. CASE RunLow(e) \/ FinishRoom(e) \/ PassWaypoint(e) \/ CrossRoom(e)
      BY <2>1, <2>2, <3>1, <3>2
         DEF RunLow, FinishRoom, PassWaypoint, CrossRoom, Cleaning
    <3>3. CASE DriveHome(e) \/ EnterDock(e)
      BY <2>1, <3>1, <3>3 DEF DriveHome, EnterDock, Returning
    <3>4. CASE LeaveLowBattery
      BY <3>4 DEF LeaveLowBattery, HeadHome
    <3>5. CASE Charge(e)
      <4>1. ChargeRate * e \in Nat
        BY <3>1
      <4>2. QED
        BY <3>5, <4>1 DEF Charge, Charged, Least
    <3>6. QED
      BY <2>5, <3>2, <3>3, <3>4, <3>5 DEF Tick
  <2>6. CASE UNCHANGED vars
    BY <2>6 DEF vars
  <2>7. QED
    BY <2>3, <2>4, <2>5, <2>6 DEF Next, AnyTick
<1>3. QED
  BY <1>1, <1>2, PTL DEF Spec

-----------------------------------------------------------------------------
\* _move_toward never drives further than speed * elapsed, and not past its target.
LEMMA TowardReach ==
    ASSUME NEW p \in Int, NEW t \in Int, NEW e \in Nat, speed \in Nat
    PROVE  /\ Toward(p, t, e) \in Int
           /\ Dist(p, Toward(p, t, e)) <= speed * e
<1> DEFINE reach == speed * e
<1>1. reach \in Nat
  OBVIOUS
<1>2. Toward(p, t, e) =
        LET step == Least(reach, Dist(p, t))
        IN  CASE p < t -> p + step [] p > t -> p - step [] OTHER -> p
  BY DEF Toward
<1> HIDE DEF reach
<1>3. Toward(p, t, e) \in Int /\ Dist(p, Toward(p, t, e)) <= reach
  BY <1>1, <1>2 DEF Least, Dist
<1>4. QED
  BY <1>3 DEF reach

\* Distances on the line: a number, zero from a point to itself, and no longer than
\* the way over a third point.
LEMMA DistFacts ==
    ASSUME NEW p \in Int, NEW q \in Int, NEW r \in Int
    PROVE  /\ Dist(p, q) \in Nat
           /\ Dist(p, p) = 0
           /\ Dist(p, r) <= Dist(p, q) + Dist(q, r)
BY DEF Dist

\* SPEC.md:404-405 for every floor plan: with a clock that never steps back, no step
\* takes the robot further than its speed allows, plus the 0.3 m of the dock's snap.
THEOREM RobotNeverTeleports ==
    ASSUME Elapsed \subseteq Nat, Elapsed # {}
    PROVE  Spec => NoTeleport
<1> USE Assumed DEF Assumptions
<1>1. TypeOK /\ Safe /\ [Next]_vars
        => [\E e \in Elapsed : Dist(position, position') <= Reach(e)]_vars
  <2> SUFFICES ASSUME TypeOK, Safe, Next
               PROVE  \E e \in Elapsed : Dist(position, position') <= Reach(e)
    OBVIOUS
  <2> USE DEF TypeOK
  <2>1. ASSUME position' = position
        PROVE  \E e \in Elapsed : Dist(position, position') <= Reach(e)
    <3>1. PICK e \in Elapsed : TRUE
      OBVIOUS
    <3>2. e \in Nat /\ speed \in Nat
      BY DEF MaxSpeed
    <3> DEFINE reach == speed * e
    <3>3. reach \in Nat /\ Reach(e) = reach + DockRadius
      BY <3>2 DEF Reach
    <3>4. Dist(position, position') = 0
      BY <2>1, DistFacts
    <3> HIDE DEF reach
    <3>5. QED
      BY <3>3, <3>4 DEF DockRadius
  <2>2. CASE Command \/ Ota
    BY <2>1, <2>2 DEF Command, Ota, StartCleaning, StopCleaning, ReturnToDock,
                      HeadHome, SetSpeed, ApplyOta
  <2>3. ASSUME NEW e \in Elapsed, Tick(e)
        PROVE  \E x \in Elapsed : Dist(position, position') <= Reach(x)
    <3>1. e \in Nat /\ speed \in Nat /\ position \in Int
      BY DEF MaxSpeed
    <3>2. speed * e \in Nat
      BY <3>1
    <3>3. ~PathDone => Target \in Int
      BY DEF PathDone, Target
    <3> DEFINE reach == speed * e
    <3>4. reach \in Nat /\ Reach(e) = reach + DockRadius
      BY <3>2 DEF Reach
    <3>5. \A p, t \in Int : /\ Toward(p, t, e) \in Int
                            /\ Dist(p, Toward(p, t, e)) <= reach
      BY <3>1, TowardReach
    <3> HIDE DEF reach
    <3>6. CASE RunLow(e) \/ LeaveLowBattery \/ Charge(e)
      BY <2>1, <3>6 DEF RunLow, LeaveLowBattery, HeadHome, Charge, Charged
    <3>7. CASE FinishRoom(e)
      <4>1. CASE PathDone
        BY <2>1, <3>7, <4>1 DEF FinishRoom
      <4>2. CASE ~PathDone
        BY <3>1, <3>3, <3>4, <3>7, <4>2
           DEF FinishRoom, ReachesEnd, Arrived, Arrival, Dist, DockRadius
      <4>3. QED
        BY <4>1, <4>2
    <3>8. CASE PassWaypoint(e)
      <4>1. waypoints[waypoint_index' + 1] \in Int
        BY <3>8 DEF PassWaypoint
      <4>2. position' \in Int /\ Dist(Target, position') <= reach
        BY <3>3, <3>5, <3>8, <4>1 DEF PassWaypoint
      <4>3. Dist(position, Target) < Arrival
        BY <3>8 DEF PassWaypoint, Arrived
      <4>4. Target \in Int
        BY <3>3, <3>8 DEF PassWaypoint
      <4>5. Dist(position, position') <= Dist(position, Target) + Dist(Target, position')
        BY <3>1, <4>2, <4>4, DistFacts
      <4>6. Dist(position, Target) \in Nat /\ Dist(Target, position') \in Nat
        BY <3>1, <4>2, <4>4, DistFacts
      <4>7. Dist(position, position') \in Nat
        BY <3>1, <4>2, DistFacts
      <4>8. Dist(position, position') <= Reach(e)
        BY <3>4, <4>2, <4>3, <4>5, <4>6, <4>7 DEF Arrival, DockRadius
      <4>9. QED
        BY <4>8
    <3>9. CASE CrossRoom(e)
      <4>1. CASE e > 0
        <5>1. position' = Toward(position, Target, e) /\ Target \in Int
          BY <3>3, <3>9, <4>1 DEF CrossRoom
        <5>2. position' \in Int /\ Dist(position, position') <= reach
          BY <3>1, <3>5, <5>1
        <5>3. Dist(position, position') \in Nat
          BY <3>1, <5>2, DistFacts
        <5>4. QED
          BY <3>4, <5>2, <5>3 DEF DockRadius
      <4>2. CASE ~(e > 0)
        BY <2>1, <3>9, <4>2 DEF CrossRoom
      <4>3. QED
        BY <4>1, <4>2
    <3>10. status = "RETURNING_TO_DOCK" => waypoints[1] = Dock
      BY DEF Safe, HomewardBound
    <3>11. CASE DriveHome(e)
      <4>1. position' = position \/ position' = Toward(position, Dock, e)
        BY <3>10, <3>11 DEF DriveHome, Returning
      <4>2. Toward(position, Dock, e) \in Int /\ Dist(position, Toward(position, Dock, e)) <= reach
        BY <3>1, <3>5
      <4>3. QED
        BY <2>1, <3>1, <3>4, <4>1, <4>2 DEF DockRadius, Dist
    <3>12. CASE EnterDock(e)
      <4> DEFINE there == Toward(position, Dock, e)
      <4>1. there \in Int /\ Dist(position, there) <= reach
        BY <3>1, <3>5
      <4>2. Dist(there, Dock) < DockRadius /\ position' = Dock
        BY <3>10, <3>12 DEF EnterDock, Returning, Docked
      <4> HIDE DEF there
      <4>3. /\ Dist(position, Dock) <= Dist(position, there) + Dist(there, Dock)
            /\ Dist(position, Dock) \in Nat /\ Dist(position, there) \in Nat
            /\ Dist(there, Dock) \in Nat
        BY <3>1, <4>1, DistFacts
      <4>4. Dist(position, position') <= Reach(e)
        BY <3>4, <4>1, <4>2, <4>3 DEF DockRadius
      <4>5. QED
        BY <4>4
    <3>13. QED
      BY <2>3, <3>6, <3>7, <3>8, <3>9, <3>11, <3>12 DEF Tick
  <2>4. QED
    BY <2>2, <2>3 DEF Next, AnyTick
<1>2. QED
  BY <1>1, TypeCorrect, SafeAlways, PTL DEF Spec, Safe, NoTeleport

-----------------------------------------------------------------------------
\* The robot implements the abstract lifecycle: every handler is one of its steps or
\* invisible in it.  So a robot never starts a room with a low battery, and a low
\* battery recovers nowhere but in the dock.
THEOREM RobotImplementsLifecycle ==
    ASSUME Elapsed \subseteq Nat
    PROVE  Spec => ImplementsLifecycle
<1> USE Assumed DEF Assumptions
<1> DEFINE low == battery_level <= Threshold
           docked == position = Dock
<1>1. Init => Lifecycle!Init
  BY DEF Init, Lifecycle!Init
<1>2. TypeOK /\ Safe /\ BatteryInScale /\ [Next]_vars => [Lifecycle!Next]_(Lifecycle!vars)
  <2> SUFFICES ASSUME TypeOK, Safe, BatteryInScale, [Next]_vars
               PROVE  Lifecycle!Next \/ UNCHANGED Lifecycle!vars
    OBVIOUS
  <2> USE DEF Lifecycle!Next, Lifecycle!vars, Safe
  <2>1. ASSUME NEW r \in Rooms, StartCleaning(r)
        PROVE  Lifecycle!Start
    BY <2>1 DEF StartCleaning, AcceptsStart, EnterRoom, Lifecycle!Start, TypeOK
  <2>2. CASE StopCleaning
    BY <2>2 DEF StopCleaning, Stopped, Lifecycle!Stop
  <2>3. ASSUME HeadHome
        PROVE  Lifecycle!HeadHome
    BY <2>3 DEF HeadHome, Lifecycle!HeadHome
  <2>4. ASSUME NEW s \in SpeedParams, SetSpeed(s)
        PROVE  UNCHANGED Lifecycle!vars
    BY <2>4 DEF SetSpeed
  <2>5. ASSUME NEW s \in OtaSpeeds, NEW v \in Versions, ApplyOta(s, v)
        PROVE  Lifecycle!Update \/ UNCHANGED Lifecycle!vars
    BY <2>5 DEF ApplyOta, Lifecycle!Update
  <2>6. ASSUME NEW e \in Elapsed, Tick(e)
        PROVE  Lifecycle!Next
    <3>1. e \in Nat /\ HalfDrain * e \in Nat /\ ChargeRate * e \in Nat
      BY <2>6
    <3>2. status = "CLEANING" => ~low
      BY DEF CleaningOnCourse, TypeOK
    <3>3. CASE RunLow(e)
      BY <3>3 DEF RunLow, Cleaning, Lifecycle!RunLow
    <3>4. CASE FinishRoom(e)
      <4>1. Drained(CleaningDrain, e) \in Int
        BY <3>1, DrainedNat DEF CleaningDrain, TypeOK
      <4>2. ~low'
        BY <3>4, <4>1 DEF FinishRoom, Cleaning
      <4>3. QED
        BY <3>2, <3>4, <4>2 DEF FinishRoom, Cleaning, Stopped, Lifecycle!Stop
    <3>5. CASE PassWaypoint(e) \/ CrossRoom(e)
      <4>1. Drained(CleaningDrain, e) \in Int
        BY <3>1, DrainedNat DEF CleaningDrain, TypeOK
      <4>2. ~low'
        BY <3>5, <4>1 DEF PassWaypoint, CrossRoom, Cleaning
      <4>3. QED
        BY <3>2, <3>5, <4>2 DEF PassWaypoint, CrossRoom, Cleaning, Lifecycle!Clean
    <3>6. CASE LeaveLowBattery
      BY <2>3, <3>6 DEF LeaveLowBattery
    <3>7. CASE Charge(e)
      <4>1. battery_level' >= battery_level \/ battery_level' = Full
        BY <3>1, <3>7 DEF Charge, Charged, Least, BatteryInScale
      <4>2. battery_level' \in Int
        BY <3>1, <3>7 DEF Charge, Charged, Least, BatteryInScale
      <4>3. low' => low
        BY <4>1, <4>2 DEF BatteryInScale
      <4>4. /\ status = "CHARGING" /\ UNCHANGED position
            /\ status' \in {"CHARGING", "IDLE"}
            /\ low' => status' = "CHARGING"
        BY <3>7, <4>2 DEF Charge, Charged
      <4>5. QED
        BY <4>3, <4>4 DEF Lifecycle!Charge
    <3>8. CASE DriveHome(e) \/ EnterDock(e)
      <4>1. battery_level' <= battery_level
        BY <3>1, <3>8 DEF DriveHome, EnterDock, Returning, Drained, Greatest, BatteryInScale
      <4>2. battery_level' \in Int
        BY <3>1, <3>8, DrainedNat DEF DriveHome, EnterDock, Returning, TypeOK
      <4>3. low => low'
        BY <4>1, <4>2 DEF TypeOK
      <4>4. /\ status = "RETURNING_TO_DOCK"
            /\ status' \in {"RETURNING_TO_DOCK", "CHARGING"}
            /\ status' = "CHARGING" => docked'
        BY <3>8 DEF DriveHome, EnterDock, Returning, Docked
      <4>5. QED
        BY <4>3, <4>4 DEF Lifecycle!Drive
    <3>9. QED
      BY <2>6, <3>3, <3>4, <3>5, <3>6, <3>7, <3>8 DEF Tick
  <2>7. CASE UNCHANGED vars
    BY <2>7 DEF vars
  <2>8. QED
    BY <2>1, <2>2, <2>3, <2>4, <2>5, <2>6, <2>7
       DEF Next, Command, Ota, AnyTick, ReturnToDock
<1>3. QED
  BY <1>1, <1>2, TypeCorrect, SafeAlways, BatteryStaysInScale, PTL
     DEF Spec, Safe, ImplementsLifecycle, Lifecycle!Spec

----------------------------------------------------------------------------
(* RobotThreads: the same methods, cut where the threads can meet.         *)

\* The places of a tick, and the helper for each status, spelled out.
LEMMA Places ==
    /\ DOMAIN Helper = {"CLEANING", "CHARGING", "RETURNING_TO_DOCK", "LOW_BATTERY"}
    /\ Helper["CLEANING"] = "cleaning" /\ Helper["CHARGING"] = "charging"
    /\ Helper["RETURNING_TO_DOCK"] = "returning" /\ Helper["LOW_BATTERY"] = "low"
    /\ {"cleaning", "charging", "returning", "low"} \subseteq TickPlaces
    /\ {"sleep", "loop", "fetch", "drive", "progress", "stop", "home", "dock"}
          \subseteq TickPlaces
<1>1. /\ DOMAIN Helper = {"CLEANING", "CHARGING", "RETURNING_TO_DOCK", "LOW_BATTERY"}
      /\ Helper["CLEANING"] = "cleaning" /\ Helper["CHARGING"] = "charging"
      /\ Helper["RETURNING_TO_DOCK"] = "returning" /\ Helper["LOW_BATTERY"] = "low"
  BY DEF Helper
<1>2. QED
  BY <1>1 DEF TickPlaces

TickType == [at : TickPlaces, elapsed : Elapsed \cup {0}, target : Int, total : Nat]

\* The main thread's place and locals keep their types when it moves on or returns.
LEMMA TickMoves ==
    ASSUME tick \in TickType
    PROVE  /\ tick.at \in TickPlaces /\ tick.elapsed \in Int
           /\ tick.target \in Int /\ tick.total \in Nat
           /\ Sleeping \in TickType
           /\ \A pc \in TickPlaces : Goto(pc) => tick' \in TickType
<1>1. Elapsed \subseteq Int
  BY Assumed DEF Assumptions
<1>2. "sleep" \in TickPlaces
  BY Places
<1>3. QED
  BY <1>1, <1>2 DEF TickType, Sleeping, Goto

\* Each step of the main thread leaves its place and locals with their types: it fetches a
\* target only where there is one.
LEMMA TickKeepsType ==
    ASSUME tick \in TickType, waypoints \in Seq(Int), waypoint_index \in Nat, Main
    PROVE  tick' \in TickType
<1>1. ASSUME NEW e \in Elapsed, Dispatch(e)
      PROVE  tick' \in TickType
  <2>1. Helper[status] \in TickPlaces
    <3>1. status \in DOMAIN Helper
      BY <1>1 DEF Dispatch
    <3>2. QED
      BY <3>1, Places
  <2>2. tick' = [at |-> Helper[status], elapsed |-> e, target |-> 0, total |-> 0]
    BY <1>1 DEF Dispatch, Sleeping
  <2>3. QED
    BY <2>1, <2>2 DEF TickType
<1>2. CASE FetchTarget
  <2>1. CASE PathDone
    BY <1>2, <2>1, TickMoves DEF FetchTarget, EndTick
  <2>2. CASE ~PathDone
    <3>1. Target \in Int
      BY <2>2 DEF PathDone, Target
    <3>2. tick' = [tick EXCEPT !.at = "drive", !.target = Target]
      BY <1>2, <2>2 DEF FetchTarget
    <3>3. QED
      BY <3>1, <3>2, Places DEF TickType
  <2>3. QED
    BY <2>1, <2>2
<1>3. CASE SnapToTarget
  <2>1. tick' = [tick EXCEPT !.at = "progress", !.total = Len(waypoints)]
    BY <1>3 DEF SnapToTarget
  <2>2. Len(waypoints) \in Nat /\ "progress" \in TickPlaces
    BY Places
  <2>3. QED
    BY <2>1, <2>2 DEF TickType
<1>4. CASE TickReturning
  <2>1. CASE waypoints = <<>>
    BY <1>4, <2>1, TickMoves DEF TickReturning, EndTick
  <2>2. CASE waypoints # <<>>
    <3>1. tick' = [tick EXCEPT !.at = "home", !.target = waypoints[1]]
      BY <1>4, <2>2 DEF TickReturning
    <3>2. waypoints[1] \in Int /\ "home" \in TickPlaces
      BY <2>2, Places
    <3>3. QED
      BY <3>1, <3>2 DEF TickType
  <2>3. QED
    BY <2>1, <2>2
<1>5. TickStep => \/ TickReturning \/ FetchTarget \/ SnapToTarget
                  \/ EndTick \/ Goto("stop") \/ Goto("loop") \/ Goto("fetch") \/ Goto("dock")
  BY DEF TickStep, TickCleaning, LoopTest, DriveToTarget, CountProgress, TickStop,
         TickCharging, DriveTick, TickDock, TickLow
<1>6. EndTick => tick' \in TickType
  BY TickMoves DEF EndTick
<1>7. ASSUME Goto("stop") \/ Goto("loop") \/ Goto("fetch") \/ Goto("dock")
      PROVE  tick' \in TickType
  BY <1>7, TickMoves, Places
<1>8. QED
  BY <1>1, <1>2, <1>3, <1>4, <1>5, <1>6, <1>7 DEF Main

\* Each step of the main thread leaves the variables of the robot with their types.
LEMMA MainKeepsTypes ==
    ASSUME TypeOK, tick \in TickType, Main
    PROVE  TypeOK'
<1>1. /\ HalfDrain \in Int /\ CleaningDrain \in Int /\ speed \in Int
      /\ battery_level \in Int /\ position \in Int
  BY Assumed DEF Assumptions, CleaningDrain, MaxSpeed, TypeOK
<1>2. tick.elapsed \in Int /\ tick.target \in Int /\ tick.total \in Nat
  BY TickMoves
<1>3. /\ Drained(CleaningDrain, tick.elapsed) \in Nat
      /\ Drained(HalfDrain, tick.elapsed) \in Nat
  BY <1>1, <1>2, DrainedNat
<1>4. Toward(position, tick.target, tick.elapsed) \in Int
  BY <1>1, <1>2, TowardInt
<1>5. UNCHANGED vars => TypeOK'
  BY NextKeepsTypes
<1>6. StopCleaning \/ HeadHome => TypeOK'
  BY NextKeepsTypes DEF Next, Command, ReturnToDock
<1>7. CASE \E e \in Elapsed : Dispatch(e)
  BY <1>5, <1>7 DEF Dispatch
<1>8. CASE LoopTest \/ FetchTarget
  BY <1>5, <1>8 DEF LoopTest, FetchTarget
<1>9. CASE TickStop \/ TickLow
  BY <1>5, <1>6, <1>9 DEF TickStop, TickLow
<1> USE DEF TypeOK, Statuses, MaxSpeed, settings, route, unmoved
<1>10. CASE TickCleaning
  <2>1. status' \in {status, "LOW_BATTERY"} /\ speed' \in {speed, 0}
    BY <1>10 DEF TickCleaning
  <2>2. battery_level' \in Int /\ UNCHANGED <<position, unmoved>>
    BY <1>3, <1>10 DEF TickCleaning
  <2>3. QED
    BY <2>1, <2>2
<1>11. CASE SnapToTarget
  BY <1>2, <1>11 DEF SnapToTarget
<1>12. CASE DriveToTarget
  BY <1>4, <1>12 DEF DriveToTarget
<1>13. CASE CountProgress
  <2>1. tick.total # 0 => Least(100, (100 * waypoint_index) \div tick.total) \in Int
    <3>1. tick.total # 0 => (100 * waypoint_index) \div tick.total \in Int
      BY <1>2
    <3>2. QED
      BY <3>1 DEF Least
  <2>2. cleaning_progress' \in Int
    BY <1>13, <2>1 DEF CountProgress
  <2>3. QED
    BY <1>13, <2>2 DEF CountProgress
<1>14. CASE TickCharging
  <2>1. battery_level' \in Int
    <3>1. ChargeRate * tick.elapsed \in Int /\ Full \in Int
      BY <1>2, Assumed DEF Assumptions
    <3>2. QED
      BY <1>1, <1>14, <3>1 DEF TickCharging, Charged, Least
  <2>2. QED
    BY <1>14, <2>1 DEF TickCharging, Charged
<1>15. CASE TickReturning
  BY <1>3, <1>15 DEF TickReturning
<1>16. CASE DriveTick
  BY <1>4, <1>16 DEF DriveTick
<1>17. CASE TickDock
  BY <1>17, Assumed DEF Assumptions, TickDock, Docked
<1>18. QED
  BY <1>7, <1>8, <1>9, <1>10, <1>11, <1>12, <1>13, <1>14, <1>15, <1>16, <1>17
     DEF Main, TickStep

\* A START_CLEANING that is making its path knows which room it is for.
OnItsWay == handler.at = "path" => handler.room \in Rooms

Typed == TTypeOK /\ OnItsWay

\* What Typed says of each variable.
LEMMA TypedFacts ==
    ASSUME Typed
    PROVE  /\ TypeOK /\ tick \in TickType
           /\ handler \in [at : {"wait", "choose", "path"}, room : Rooms \cup {None}]
BY DEF Typed, TTypeOK, TickType

\* Each step of the callback thread leaves everything with its type; all commands but
\* START_CLEANING, and apply_ota, are steps of RobotState.
LEMMA CallbacksKeepTypes ==
    ASSUME Typed, Callbacks
    PROVE  Typed'
<1>1. /\ TypeOK /\ tick \in TickType
      /\ handler \in [at : {"wait", "choose", "path"}, room : Rooms \cup {None}]
      /\ OnItsWay
  BY TypedFacts DEF Typed
<1>2. ASSUME TypeOK', UNCHANGED tick,
             \/ UNCHANGED handler
             \/ handler' = Waiting
             \/ handler' = [handler EXCEPT !.at = "choose"]
             \/ \E r \in Rooms : handler' = [at |-> "path", room |-> r]
      PROVE  Typed'
  BY <1>1, <1>2 DEF Typed, TTypeOK, TickType, OnItsWay, Waiting
<1>3. ASSUME NEW A, Handle(A), A => [Next]_vars
      PROVE  Typed'
  BY <1>1, <1>2, <1>3, NextKeepsTypes DEF Handle
<1>4. ASSUME NEW r \in Rooms, BeginStart(r) \/ ChooseRoom(r)
      PROVE  Typed'
  <2>1. /\ current_room' = r /\ status' = "CLEANING"
        /\ speed' = max_speed /\ cleaning_progress' = 0
        /\ UNCHANGED <<battery_level, position, settings, route>>
    BY <1>4 DEF BeginStart, ChooseRoom, EnterRoom
  <2>2. TypeOK'
    BY <1>1, <2>1 DEF TypeOK, Statuses, MaxSpeed, settings, route
  <2>3. QED
    BY <1>2, <1>4, <2>2 DEF BeginStart, ChooseRoom
<1>5. CASE BeginRandomStart
  BY <1>1, <1>2, <1>5, NextKeepsTypes DEF BeginRandomStart
<1>6. CASE FinishStart
  <2>1. handler.room \in Rooms
    BY <1>1, <1>6 DEF FinishStart, OnItsWay
  <2>2. PathOf[handler.room] \in Seq(Int)
    BY <2>1, PathFacts
  <2>3. TypeOK'
    BY <1>1, <1>6, <2>2 DEF FinishStart, TakePath, TypeOK, settings
  <2>4. QED
    BY <1>2, <1>6, <2>3 DEF FinishStart
<1>7. CASE Handle(StopCleaning)
  BY <1>3, <1>7 DEF Next, Command
<1>8. CASE Handle(ReturnToDock)
  BY <1>3, <1>8 DEF Next, Command
<1>9. ASSUME NEW s \in SpeedParams, Handle(SetSpeed(s))
      PROVE  Typed'
  BY <1>3, <1>9 DEF Next, Command
<1>10. ASSUME NEW s \in OtaSpeeds, NEW v \in Versions, Handle(ApplyOta(s, v))
       PROVE  Typed'
  BY <1>3, <1>10 DEF Next, Ota
<1>11. QED
  BY <1>4, <1>5, <1>6, <1>7, <1>8, <1>9, <1>10 DEF Callbacks, EndStart

\* Typed is inductive.
LEMMA TNextKeepsTypes ==
    ASSUME Typed, [TNext]_tvars
    PROVE  Typed'
<1>1. CASE Main
  <2>1. TypeOK' /\ tick' \in TickType
    BY <1>1, TypedFacts, MainKeepsTypes, TickKeepsType DEF TypeOK
  <2>2. UNCHANGED handler
    BY <1>1 DEF Main, TickStep, Dispatch, TickCleaning, LoopTest, FetchTarget,
                SnapToTarget, DriveToTarget, CountProgress, TickStop, TickCharging,
                TickReturning, DriveTick, TickDock, TickLow
  <2>3. QED
    BY <2>1, <2>2 DEF Typed, TTypeOK, TickType, OnItsWay
<1>2. CASE Callbacks
  BY <1>2, CallbacksKeepTypes
<1>3. CASE UNCHANGED tvars
  <2>1. TypeOK'
    BY <1>3, TypedFacts, NextKeepsTypes DEF tvars
  <2>2. UNCHANGED <<tick, handler>>
    BY <1>3 DEF tvars
  <2>3. QED
    BY <2>1, <2>2 DEF Typed, TTypeOK, OnItsWay
<1>4. QED
  BY <1>1, <1>2, <1>3 DEF TNext

-----------------------------------------------------------------------------
\* Wherever the two threads interleave, every variable of the robot and both threads'
\* locals keep their types: no tick works on a target that is none, and a START_CLEANING
\* that finishes has a room.
THEOREM ThreadsTypeCorrect == TSpec => []TTypeOK
<1>1. TInit => Typed
  BY Assumed, Places
     DEF Assumptions, TInit, Init, Typed, TTypeOK, TypeOK, OnItsWay, Sleeping, Waiting,
         Statuses, MinSpeed, MaxSpeed
<1>2. Typed /\ [TNext]_tvars => Typed'
  BY TNextKeepsTypes
<1>3. Typed => TTypeOK
  BY DEF Typed
<1>4. QED
  BY <1>1, <1>2, <1>3, PTL DEF TSpec

-----------------------------------------------------------------------------
\* A charging robot is only ticked by _tick_charging, which always finds it in the dock.
ChargingInDock ==
    /\ status = "CHARGING" => tick.at \in {"sleep", "charging"} /\ position = Dock
    /\ tick.at = "charging" => position = Dock

\* What can run over a homing robot: a charging tick that began before it set off, while
\* no START_CLEANING is under way; and a homing robot that such a tick has stopped is
\* only ticked by _tick_returning.
HomingUndisturbed ==
    status = "RETURNING_TO_DOCK" =>
        /\ tick.at = "charging" => handler.at = "wait" /\ waypoints = <<Dock>>
        /\ speed = 0 => handler.at = "wait"
                          /\ tick.at \in {"sleep", "returning", "home", "dock"}

TInv == ChargingInDock /\ HomingUndisturbed /\ HomingHasTarget /\ HomingMoves

\* A robot that stands still stays where it is, whatever its target.
LEMMA TowardStopped ==
    ASSUME speed = 0, NEW p \in Int, NEW t \in Int, NEW e \in Int
    PROVE  Toward(p, t, e) = p
<1>1. speed * e = 0
  OBVIOUS
<1>2. Dist(p, t) \in Int /\ Dist(p, t) >= 0
  BY DEF Dist
<1>3. Least(speed * e, Dist(p, t)) = 0
  BY <1>1, <1>2 DEF Least
<1>4. QED
  BY <1>3 DEF Toward

\* No step of the main thread breaks TInv.
LEMMA MainKeepsTInv ==
    ASSUME Typed, TInv, Main
    PROVE  TInv'
<1>1. /\ tick \in TickType /\ tick.elapsed \in Int /\ tick.target \in Int
      /\ position \in Int /\ waypoints \in Seq(Int) /\ speed \in Int
  <2>1. TypeOK /\ tick \in TickType
    BY TypedFacts
  <2>2. QED
    BY <2>1, TickMoves DEF TypeOK, MaxSpeed
<1> USE DEF TInv, ChargingInDock, HomingUndisturbed, HomingHasTarget, HomingMoves,
            settings, route, unmoved, vars, Goto
<1>2. Sleeping.at = "sleep" /\ \A pc : [tick EXCEPT !.at = pc].at = pc
  BY <1>1 DEF Sleeping, TickType
<1>3. ASSUME NEW e \in Elapsed, Dispatch(e)
      PROVE  TInv'
  <2>1. tick'.at = Helper[status]
    BY <1>3 DEF Dispatch, Sleeping
  <2>2. /\ tick'.at = "charging" => status = "CHARGING"
        /\ status = "CHARGING" => tick'.at = "charging"
        /\ status = "RETURNING_TO_DOCK" => tick'.at = "returning"
    <3>1. status \in DOMAIN Helper
      BY <1>3 DEF Dispatch
    <3>2. QED
      BY <2>1, <3>1, Places
  <2>3. QED
    BY <1>3, <2>2 DEF Dispatch
<1>4. CASE TickCleaning
  BY <1>2, <1>4 DEF TickCleaning, EndTick
<1>5. CASE LoopTest
  BY <1>2, <1>5 DEF LoopTest, EndTick
<1>6. CASE FetchTarget
  <2>1. tick'.at \in {"sleep", "drive"}
    BY <1>1, <1>2, <1>6 DEF FetchTarget, EndTick, TickType
  <2>2. QED
    BY <1>6, <2>1 DEF FetchTarget
<1>7. CASE SnapToTarget
  <2>1. tick'.at = "progress"
    BY <1>1, <1>7 DEF SnapToTarget, TickType
  <2>2. QED
    BY <1>7, <2>1 DEF SnapToTarget
<1>8. CASE DriveToTarget
  BY <1>2, <1>8 DEF DriveToTarget, EndTick
<1>9. CASE CountProgress
  BY <1>2, <1>9 DEF CountProgress, EndTick
<1>10. CASE TickStop
  BY <1>2, <1>10 DEF TickStop, EndTick, StopCleaning, Stopped
<1>11. CASE TickCharging
  BY <1>2, <1>11 DEF TickCharging, EndTick, Charged
<1>12. CASE TickReturning
  <2>1. tick'.at \in {"sleep", "home"}
    BY <1>1, <1>2, <1>12 DEF TickReturning, EndTick, TickType
  <2>2. QED
    BY <1>12, <2>1 DEF TickReturning
<1>13. CASE DriveTick
  <2>1. speed = 0 => position' = position
    BY <1>1, <1>13, TowardStopped DEF DriveTick
  <2>2. QED
    BY <1>2, <1>13, <2>1 DEF DriveTick, EndTick
<1>14. CASE TickDock
  BY <1>2, <1>14 DEF TickDock, Docked, EndTick
<1>15. CASE TickLow
  <2>1. CASE HeadHome
    <3>1. HomingSpeed # 0 /\ <<Dock>> # <<>>
      BY TypedFacts, HomingSpeedFacts DEF TypeOK
    <3>2. QED
      BY <1>2, <1>15, <2>1, <3>1 DEF TickLow, HeadHome, EndTick
  <2>2. CASE UNCHANGED vars
    BY <1>2, <1>15, <2>2 DEF TickLow, EndTick
  <2>3. QED
    BY <1>15, <2>1, <2>2 DEF TickLow
<1>16. QED
  BY <1>3, <1>4, <1>5, <1>6, <1>7, <1>8, <1>9, <1>10, <1>11, <1>12, <1>13, <1>14, <1>15
     DEF Main, TickStep

\* Nor does a callback.
LEMMA CallbacksKeepTInv ==
    ASSUME Typed, TInv, Callbacks
    PROVE  TInv'
<1> USE DEF TInv, ChargingInDock, HomingUndisturbed, HomingHasTarget, HomingMoves,
            settings, route, vars
<1>1. ASSUME NEW r \in Rooms, BeginStart(r) \/ ChooseRoom(r)
      PROVE  TInv'
  <2>1. status' = "CLEANING" /\ UNCHANGED <<tick, position>>
    BY <1>1 DEF BeginStart, ChooseRoom, EnterRoom
  <2>2. QED
    BY <2>1
<1>2. CASE BeginRandomStart
  BY <1>2 DEF BeginRandomStart, AcceptsStart
<1>3. CASE FinishStart
  <2>1. handler.room \in Rooms
    BY <1>3 DEF FinishStart, Typed, OnItsWay
  <2>2. PathOf[handler.room] # <<>>
    BY <2>1, PathAssumption
  <2>3. QED
    BY <1>3, <2>2 DEF FinishStart, TakePath
<1>4. CASE Handle(StopCleaning)
  BY <1>4 DEF Handle, StopCleaning, Stopped
<1>5. CASE Handle(ReturnToDock)
  <2>1. HomingSpeed # 0 /\ <<Dock>> # <<>>
    BY TypedFacts, HomingSpeedFacts DEF TypeOK
  <2>2. QED
    BY <1>5, <2>1 DEF Handle, ReturnToDock, HeadHome
<1>6. ASSUME NEW s \in SpeedParams, Handle(SetSpeed(s))
      PROVE  TInv'
  BY <1>6 DEF Handle, SetSpeed
<1>7. ASSUME NEW s \in OtaSpeeds, NEW v \in Versions, Handle(ApplyOta(s, v))
      PROVE  TInv'
  BY <1>7 DEF Handle, ApplyOta
<1>8. QED
  BY <1>1, <1>2, <1>3, <1>4, <1>5, <1>6, <1>7 DEF Callbacks, EndStart

\* TInv is inductive, given Typed.
LEMMA TNextKeepsTInv ==
    ASSUME Typed, TInv, [TNext]_tvars
    PROVE  TInv'
<1>1. UNCHANGED tvars => TInv'
  BY DEF tvars, vars, route, TInv, ChargingInDock, HomingUndisturbed, HomingHasTarget,
         HomingMoves
<1>2. QED
  BY <1>1, MainKeepsTInv, CallbacksKeepTInv DEF TNext

\* Both hold of a robot that has just been created.
LEMMA TInvInit == TInit => Typed /\ TInv
<1>1. TInit => TInv
  BY DEF TInit, Init, Sleeping, TInv, ChargingInDock, HomingUndisturbed,
         HomingHasTarget, HomingMoves
<1>2. TInit => Typed
  BY Assumed, Places
     DEF Assumptions, TInit, Init, Typed, TTypeOK, TypeOK, OnItsWay, Sleeping, Waiting,
         Statuses, MinSpeed, MaxSpeed
<1>3. QED
  BY <1>1, <1>2

\* However the callbacks run over the ticks: a charging robot is in its dock, a homing
\* robot has somewhere to go and, unless it is in its dock already, a speed to get there.
THEOREM ThreadsSafe == TSpec => [](ChargingAtDock /\ HomingPossible)
<1>1. Typed /\ TInv /\ [TNext]_tvars => (Typed /\ TInv)'
  BY TNextKeepsTypes, TNextKeepsTInv
<1>2. TInv => ChargingAtDock /\ HomingPossible
  BY DEF TInv, ChargingInDock, ChargingAtDock, HomingPossible
<1>3. QED
  BY <1>1, <1>2, TInvInit, PTL DEF TSpec

-----------------------------------------------------------------------------
\* Three of the ticks' helpers write the battery level, and nothing else does.
LEMMA BatteryWriters ==
    ASSUME [TNext]_tvars
    PROVE  TickCleaning \/ TickReturning \/ TickCharging \/ UNCHANGED battery_level
<1>1. ASSUME TickStep
      PROVE  TickCleaning \/ TickReturning \/ TickCharging \/ UNCHANGED battery_level
  BY <1>1 DEF TickStep, LoopTest, FetchTarget, SnapToTarget, DriveToTarget,
      CountProgress, TickStop, DriveTick, TickDock, TickLow, StopCleaning, HeadHome, vars
<1>2. ASSUME NEW e \in Elapsed, Dispatch(e)
      PROVE  UNCHANGED battery_level
  BY <1>2 DEF Dispatch, vars
<1>3. ASSUME NEW r \in Rooms, BeginStart(r) \/ ChooseRoom(r)
      PROVE  UNCHANGED battery_level
  BY <1>3 DEF BeginStart, ChooseRoom
<1>4. CASE BeginRandomStart \/ FinishStart
  BY <1>4 DEF BeginRandomStart, FinishStart, vars
<1>5. CASE Handle(StopCleaning) \/ Handle(ReturnToDock)
  BY <1>5 DEF Handle, StopCleaning, ReturnToDock, HeadHome
<1>6. ASSUME NEW s \in SpeedParams, Handle(SetSpeed(s))
      PROVE  UNCHANGED battery_level
  BY <1>6 DEF Handle, SetSpeed
<1>7. ASSUME NEW s \in OtaSpeeds, NEW v \in Versions, Handle(ApplyOta(s, v))
      PROVE  UNCHANGED battery_level
  BY <1>7 DEF Handle, ApplyOta
<1>8. CASE UNCHANGED tvars
  BY <1>8 DEF tvars, vars
<1>9. QED
  BY <1>1, <1>2, <1>3, <1>4, <1>5, <1>6, <1>7, <1>8 DEF TNext, Main, Callbacks, EndStart

\* The elapsed time of a tick, which is zero between ticks.
LEMMA ElapsedNat ==
    ASSUME Elapsed \subseteq Nat, NEW x \in Elapsed \cup {0}
    PROVE  x \in Nat
<1>1. CASE x \in Elapsed
  BY <1>1, Zenon
<1>2. CASE x = 0
  BY <1>2
<1>3. QED
  BY <1>1, <1>2

\* With a clock that does not step back the battery level is never negative ...
LEMMA BatteryNat ==
    ASSUME Elapsed \subseteq Nat, Typed, battery_level \in Nat, [TNext]_tvars
    PROVE  battery_level' \in Nat
<1>1. tick.elapsed \in Nat /\ battery_level \in Int
  <2>1. TypeOK /\ tick \in TickType
    BY TypedFacts
  <2>2. tick.elapsed \in Elapsed \cup {0}
    BY <2>1 DEF TickType
  <2>3. QED
    BY <2>1, <2>2, ElapsedNat DEF TypeOK
<1>2. HalfDrain \in Int /\ CleaningDrain \in Int /\ ChargeRate \in Nat /\ Full \in Nat
  BY Assumed DEF Assumptions, CleaningDrain
<1>3. CASE TickCleaning \/ TickReturning
  BY <1>1, <1>2, <1>3, DrainedNat DEF TickCleaning, TickReturning
<1>4. CASE TickCharging
  <2>1. ChargeRate * tick.elapsed \in Nat
    BY <1>1, <1>2
  <2>2. QED
    BY <1>2, <1>4, <2>1 DEF TickCharging, Charged, Least
<1>5. QED
  BY <1>3, <1>4, BatteryWriters

\* ... and the battery charges only in the dock, although the writes of _tick_charging
\* are made whatever the status has become.
THEOREM ThreadsChargeInDock ==
    ASSUME Elapsed \subseteq Nat
    PROVE  TSpec => ChargesOnlyInDock
<1>1. TInit => battery_level \in Nat
  BY Assumed DEF Assumptions, TInit, Init
<1>2. Typed /\ TInv /\ battery_level \in Nat /\ [TNext]_tvars
        => (Typed /\ TInv /\ battery_level \in Nat)'
  BY TNextKeepsTypes, TNextKeepsTInv, BatteryNat
<1>3. ASSUME Typed, TInv, battery_level \in Nat, [TNext]_tvars
      PROVE  [battery_level' > battery_level => position = Dock]_tvars
  <2>1. tick.elapsed \in Nat
    <3>1. tick \in TickType
      BY <1>3, TypedFacts
    <3>2. tick.elapsed \in Elapsed \cup {0}
      BY <3>1 DEF TickType
    <3>3. QED
      BY <3>2, ElapsedNat
  <2>2. HalfDrain \in Nat /\ CleaningDrain \in Nat
    BY Assumed DEF Assumptions, CleaningDrain
  <2>3. ASSUME NEW rate \in Nat
        PROVE  Drained(rate, tick.elapsed) <= battery_level
    <3>1. rate * tick.elapsed \in Nat
      BY <2>1
    <3>2. QED
      BY <1>3, <3>1 DEF Drained, Greatest
  <2>4. TickCleaning \/ TickReturning => battery_level' <= battery_level
    BY <2>2, <2>3 DEF TickCleaning, TickReturning
  <2>5. TickCharging => position = Dock
    BY <1>3 DEF TickCharging, TInv, ChargingInDock
  <2>6. battery_level' \in Nat
    BY <1>3, BatteryNat
  <2>7. battery_level' > battery_level => position = Dock
    BY <1>3, <2>4, <2>5, <2>6, BatteryWriters
  <2>8. QED
    BY <2>7
<1>4. QED
  BY <1>1, <1>2, <1>3, TInvInit, PTL DEF TSpec, ChargesOnlyInDock

-----------------------------------------------------------------------------
(* The abstract robot of two threads.                                      *)

low == battery_level <= Threshold
acting == ReadBy(tick.at)
entering == handler.at = "choose"

LEMMA ReadByFacts ==
    /\ ReadBy("sleep") = "asleep" /\ ReadBy("low") = "LOW_BATTERY"
    /\ ReadBy("charging") = "CHARGING"
    /\ \A pc \in {"returning", "home", "dock"} : ReadBy(pc) = "RETURNING_TO_DOCK"
    /\ \A pc \in {"cleaning", "loop", "fetch", "drive", "progress", "stop"} :
          ReadBy(pc) = "CLEANING"
BY DEF ReadBy

\* Where a step leaves the main thread, as the abstract robot sees it.
LEMMA ActingMoves ==
    ASSUME tick \in TickType
    PROVE  /\ EndTick => acting' = "asleep"
           /\ \A pc \in TickPlaces : Goto(pc) => acting' = ReadBy(pc)
<1>1. EndTick => tick'.at = "sleep"
  BY DEF EndTick, Sleeping
<1>2. \A pc \in TickPlaces : Goto(pc) => tick'.at = pc
  BY DEF Goto, TickType
<1>3. QED
  BY <1>1, <1>2, ReadByFacts DEF acting

\* A drained battery is no higher than before.
LEMMA DrainLowers ==
    ASSUME Elapsed \subseteq Nat, Typed, battery_level \in Nat, NEW rate \in Nat
    PROVE  Drained(rate, tick.elapsed) \in Int /\ Drained(rate, tick.elapsed) <= battery_level
<1>1. tick.elapsed \in Nat
  <2>1. tick \in TickType
    BY TypedFacts
  <2>2. tick.elapsed \in Elapsed \cup {0}
    BY <2>1 DEF TickType
  <2>3. QED
    BY <2>2, ElapsedNat
<1>2. rate * tick.elapsed \in Nat
  BY <1>1
<1>3. QED
  BY <1>2 DEF Drained, Greatest

\* A step of the main thread is a step of the abstract tick, or does not show.
LEMMA TickIsShared ==
    ASSUME Elapsed \subseteq Nat, Typed, battery_level \in Nat, Main
    PROVE  Shared!Tick \/ UNCHANGED Shared!vars
<1> USE DEF Shared!Tick, Shared!vars, Shared!EndTick, Shared!Asleep
<1>1. tick \in TickType /\ status \in Statuses /\ battery_level \in Int
  BY TypedFacts DEF TypeOK
<1>2. /\ Full \in Nat /\ Threshold \in Nat /\ Threshold < Full
      /\ HalfDrain \in Nat /\ CleaningDrain \in Nat /\ ChargeRate \in Nat
  BY Assumed DEF Assumptions, CleaningDrain
\* A step that only moves the main thread, within its tick or out of it.
<1>3. ASSUME acting = "CLEANING" \/ acting = "RETURNING_TO_DOCK",
             acting' = acting \/ acting' = "asleep",
             UNCHANGED <<status, battery_level, handler>>
      PROVE  Shared!Return \/ UNCHANGED Shared!vars
  BY <1>3 DEF Shared!Return, acting
<1>4. ASSUME NEW e \in Elapsed, Dispatch(e)
      PROVE  Shared!BeginTick
  <2>1. tick'.at = Helper[status] /\ tick.at = "sleep" /\ status \in DOMAIN Helper
    BY <1>4 DEF Dispatch, Sleeping
  <2>2. ReadBy(Helper[status]) = status /\ status # "IDLE"
    BY <2>1, Places, ReadByFacts
  <2>3. UNCHANGED <<status, battery_level, handler>>
    BY <1>4 DEF Dispatch, vars
  <2>4. QED
    BY <2>1, <2>2, <2>3, ReadByFacts DEF Shared!BeginTick
<1>5. CASE TickCleaning
  <2>1. acting = "CLEANING" /\ UNCHANGED handler
    BY <1>5, ReadByFacts DEF TickCleaning, acting
  <2>2. battery_level' \in Int /\ battery_level' <= battery_level
    BY <1>2, <1>5, DrainLowers DEF TickCleaning
  <2>3. CASE battery_level' <= Threshold
    <3>1. acting' = "asleep" /\ status' = "LOW_BATTERY"
      BY <1>1, <1>5, <2>3, ActingMoves DEF TickCleaning
    <3>2. QED
      BY <2>1, <2>3, <3>1 DEF Shared!RunLow, acting
  <2>4. CASE ~(battery_level' <= Threshold)
    <3>1. UNCHANGED status /\ (Goto("stop") \/ Goto("loop"))
      BY <1>5, <2>4 DEF TickCleaning
    <3>2. acting' = "CLEANING"
      BY <1>1, <3>1, ActingMoves, Places, ReadByFacts
    <3>3. ~(battery_level <= Threshold)
      BY <1>1, <1>2, <2>2, <2>4
    <3>4. QED
      BY <2>1, <2>4, <3>1, <3>2, <3>3 DEF acting
  <2>5. QED
    BY <2>3, <2>4
<1>6. CASE LoopTest \/ FetchTarget \/ SnapToTarget \/ DriveToTarget \/ CountProgress
  <2>1. acting = "CLEANING"
    BY <1>6, ReadByFacts
       DEF LoopTest, FetchTarget, SnapToTarget, DriveToTarget, CountProgress, acting
  <2>2. UNCHANGED <<status, battery_level, handler>>
    BY <1>6 DEF LoopTest, FetchTarget, SnapToTarget, DriveToTarget, CountProgress, vars
  <2>3. \/ EndTick \/ Goto("stop") \/ Goto("loop") \/ Goto("fetch")
        \/ tick' = [tick EXCEPT !.at = "drive", !.target = Target]
        \/ tick' = [tick EXCEPT !.at = "progress", !.total = Len(waypoints)]
    BY <1>6 DEF LoopTest, FetchTarget, SnapToTarget, DriveToTarget, CountProgress
  <2>4. CASE EndTick \/ Goto("stop") \/ Goto("loop") \/ Goto("fetch")
    BY <1>1, <1>3, <2>1, <2>2, <2>4, ActingMoves, Places, ReadByFacts
  <2>5. CASE \/ tick' = [tick EXCEPT !.at = "drive", !.target = Target]
             \/ tick' = [tick EXCEPT !.at = "progress", !.total = Len(waypoints)]
    <3>1. tick'.at \in {"drive", "progress"}
      BY <1>1, <2>5 DEF TickType
    <3>2. acting' = "CLEANING"
      BY <3>1, ReadByFacts DEF acting
    <3>3. QED
      BY <1>3, <2>1, <2>2, <3>2
  <2>6. QED
    BY <2>3, <2>4, <2>5
<1>7. CASE TickStop
  <2>1. acting = "CLEANING" /\ acting' = "asleep" /\ UNCHANGED handler
    BY <1>1, <1>7, ActingMoves, ReadByFacts DEF TickStop, acting
  <2>2. CASE StopCleaning
    BY <2>1, <2>2 DEF StopCleaning, Stopped, Shared!EndRoom, acting
  <2>3. CASE UNCHANGED vars
    BY <1>3, <2>1, <2>3 DEF vars
  <2>4. QED
    BY <1>7, <2>2, <2>3 DEF TickStop
<1>8. CASE TickCharging
  <2>1. acting = "CHARGING" /\ acting' = "asleep" /\ UNCHANGED handler
    BY <1>1, <1>8, ActingMoves, ReadByFacts DEF TickCharging, acting
  <2>2. tick.elapsed \in Nat
    <3>1. tick.elapsed \in Elapsed \cup {0}
      BY <1>1 DEF TickType
    <3>2. QED
      BY <3>1, ElapsedNat
  <2>3. ChargeRate * tick.elapsed \in Nat
    BY <1>2, <2>2
  <2>4. /\ battery_level' \in Int
        /\ battery_level' >= battery_level \/ battery_level' = Full
    BY <1>1, <1>2, <1>8, <2>3 DEF TickCharging, Charged, Least
  <2>5. CASE battery_level' >= Full
    <3>1. status' = "IDLE" /\ ~(battery_level' <= Threshold)
      BY <1>2, <1>8, <2>4, <2>5 DEF TickCharging, Charged
    <3>2. QED
      BY <2>1, <3>1 DEF Shared!Charge, acting
  <2>6. CASE ~(battery_level' >= Full)
    <3>1. status' = status
      BY <1>8, <2>6 DEF TickCharging, Charged
    <3>2. battery_level' <= Threshold => battery_level <= Threshold
      BY <1>1, <1>2, <2>4, <2>6
    <3>3. QED
      BY <2>1, <3>1, <3>2 DEF Shared!Charge, acting
  <2>7. QED
    BY <2>5, <2>6
<1>9. CASE TickReturning
  <2>1. acting = "RETURNING_TO_DOCK" /\ UNCHANGED <<status, handler>>
    BY <1>9, ReadByFacts DEF TickReturning, acting
  <2>2. battery_level' \in Int /\ battery_level' <= battery_level
    BY <1>2, <1>9, DrainLowers DEF TickReturning
  <2>3. battery_level <= Threshold => battery_level' <= Threshold
    BY <1>1, <1>2, <2>2
  <2>4. acting' = "asleep" \/ acting' = acting
    <3>1. EndTick \/ tick'.at = "home"
      BY <1>1, <1>9 DEF TickReturning, TickType
    <3>2. QED
      BY <1>1, <2>1, <3>1, ActingMoves, ReadByFacts DEF acting
  <2>5. QED
    BY <2>1, <2>3, <2>4 DEF Shared!Drain, acting
<1>10. CASE DriveTick
  <2>1. acting = "RETURNING_TO_DOCK" /\ UNCHANGED <<status, battery_level, handler>>
    BY <1>10, ReadByFacts DEF DriveTick, acting
  <2>2. EndTick \/ Goto("dock")
    BY <1>10 DEF DriveTick
  <2>3. acting' = acting \/ acting' = "asleep"
    BY <1>1, <2>1, <2>2, ActingMoves, Places, ReadByFacts
  <2>4. QED
    BY <1>3, <2>1, <2>3
<1>11. CASE TickDock
  <2>1. acting = "RETURNING_TO_DOCK" /\ acting' = "asleep"
    BY <1>1, <1>11, ActingMoves, ReadByFacts DEF TickDock, acting
  <2>2. status' = "CHARGING" /\ UNCHANGED <<battery_level, handler>>
    BY <1>11 DEF TickDock, Docked
  <2>3. QED
    BY <2>1, <2>2 DEF Shared!ReachDock, acting
<1>12. CASE TickLow
  <2>1. acting = "LOW_BATTERY" /\ acting' = "asleep" /\ UNCHANGED handler
    BY <1>1, <1>12, ActingMoves, ReadByFacts DEF TickLow, acting
  <2>2. CASE HeadHome
    BY <2>1, <2>2 DEF HeadHome, Shared!GoHome, acting
  <2>3. CASE UNCHANGED vars
    BY <2>1, <2>3 DEF vars, Shared!Return, acting
  <2>4. QED
    BY <1>12, <2>2, <2>3 DEF TickLow
<1>13. QED
  BY <1>3, <1>4, <1>5, <1>6, <1>7, <1>8, <1>9, <1>10, <1>11, <1>12 DEF Main, TickStep

\* A step of the callback thread is an abstract callback, or does not show.
LEMMA CallbackIsShared ==
    ASSUME Typed, Callbacks
    PROVE  Shared!Callback \/ UNCHANGED Shared!vars
<1> USE DEF Shared!Callback, Shared!vars
<1>1. battery_level \in Int /\ Threshold \in Nat
  BY TypedFacts, Assumed DEF TypeOK, Assumptions
<1>2. AcceptsStart => Shared!AcceptsStart
  BY <1>1 DEF AcceptsStart, Shared!AcceptsStart
<1>3. ASSUME NEW r \in Rooms, BeginStart(r)
      PROVE  Shared!Start
  BY <1>2, <1>3 DEF BeginStart, EnterRoom, Shared!Start
<1>4. CASE BeginRandomStart
  <2>1. handler.at = "wait" /\ handler' = [handler EXCEPT !.at = "choose"]
    BY <1>4 DEF BeginRandomStart
  <2>2. handler'.at = "choose"
    BY <2>1, TypedFacts DEF Typed, TTypeOK
  <2>3. QED
    BY <1>2, <1>4, <2>1, <2>2 DEF BeginRandomStart, Shared!AcceptStart, vars
<1>5. ASSUME NEW r \in Rooms, ChooseRoom(r)
      PROVE  Shared!Enter
  BY <1>5 DEF ChooseRoom, EnterRoom, Shared!Enter
<1>6. CASE FinishStart
  BY <1>6 DEF FinishStart, Waiting
<1>7. CASE Handle(StopCleaning)
  BY <1>7 DEF Handle, StopCleaning, Stopped, Shared!Stop
<1>8. CASE Handle(ReturnToDock)
  BY <1>8 DEF Handle, ReturnToDock, HeadHome, Shared!HeadHome
<1>9. ASSUME NEW s \in SpeedParams, Handle(SetSpeed(s))
      PROVE  UNCHANGED Shared!vars
  BY <1>9 DEF Handle, SetSpeed
<1>10. ASSUME NEW s \in OtaSpeeds, NEW v \in Versions, Handle(ApplyOta(s, v))
       PROVE  Shared!Update \/ UNCHANGED Shared!vars
  BY <1>10 DEF Handle, ApplyOta, Shared!Update
<1>11. QED
  BY <1>3, <1>4, <1>5, <1>6, <1>7, <1>8, <1>9, <1>10 DEF Callbacks, EndStart

\* However the threads interleave, what the robot shows is the lifecycle of SharedLifecycle:
\* a late tick can still put LOW_BATTERY over a command it has not seen, but none starts
\* to clean, and the battery recovers only in ticks that read CHARGING.
THEOREM ThreadsImplementShared ==
    ASSUME Elapsed \subseteq Nat
    PROVE  TSpec => ImplementsShared
<1>1. TInit => battery_level \in Nat /\ Shared!Init
  BY Assumed, ReadByFacts
     DEF Assumptions, TInit, Init, Sleeping, Waiting, Shared!Init, Shared!Asleep
<1>2. Typed /\ battery_level \in Nat /\ [TNext]_tvars => (Typed /\ battery_level \in Nat)'
  BY TNextKeepsTypes, BatteryNat
<1>3. Typed /\ battery_level \in Nat /\ [TNext]_tvars => [Shared!Next]_(Shared!vars)
  <2>1. UNCHANGED tvars => UNCHANGED Shared!vars
    BY DEF tvars, vars, Shared!vars
  <2>2. QED
    BY <2>1, TickIsShared, CallbackIsShared DEF TNext, Shared!Next
<1>4. QED
  BY <1>1, <1>2, <1>3, TInvInit, PTL DEF TSpec, ImplementsShared, Shared!Spec
=============================================================================
