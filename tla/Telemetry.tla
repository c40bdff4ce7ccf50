----------------------------- MODULE Telemetry ------------------------------
(***************************************************************************)
(* One robot's telemetry from its main loop to the robots table and the    *)
(* history: run_forever (mqtt_client.py), the IoT rule that invokes        *)
(* telemetry_processor.py once per message, and telemetry_service.py.      *)
(*                                                                         *)
(* A reading is the robot's state, a number that grows with every change,  *)
(* and the second of its timestamp, which is the sort key of the history.  *)
(* The robot publishes the same state again and again.  Invocations of the *)
(* processor run at the same time, begin in any order and may be repeated  *)
(* (AWS Lambda, invoked asynchronously).                                   *)
(***************************************************************************)
EXTENDS Integers, FiniteSets

CONSTANTS
    None,
    Workers,      \* how many invocations run at the same time
    MaxState,     \* bound: changes of the robot's state
    MaxSecond,    \* bound: seconds the clock goes on for
    MaxRepeats,   \* how often a message or an invocation is repeated
    MaxFailures   \* how often DynamoDB fails

ASSUME TelemetryBounds ==
    MaxState \in Nat /\ MaxSecond \in Nat /\ MaxRepeats \in Nat /\ MaxFailures \in Nat

States == 0..MaxState
Seconds == 0..MaxSecond
Readings == [state : States, second : Seconds]
ASSUME TelemetryNone == None \notin Readings

VARIABLES
    robot,     \* the reading the robot would publish now
    waiting,   \* the readings published, whose invocation has not begun
    worker,    \* what each invocation is doing, and with which reading
    table,     \* the robots table: the reading in the robot's item, or None
    rows,      \* the telemetry table: the reading in each second's item, or None
    faults,    \* repeats and failures so far
    handled    \* history: the seconds of the readings an invocation has returned for

vars == <<robot, waiting, worker, table, rows, faults, handled>>

Free == [at |-> "free", reading |-> None]

Init ==
    /\ robot = [state |-> 0, second |-> 0]
    /\ waiting = {}
    /\ worker = [w \in Workers |-> Free]
    /\ table = None
    /\ rows = [s \in Seconds |-> None]
    /\ faults = [repeats |-> 0, failures |-> 0]
    /\ handled = {}

\* A tick, a command or an OTA job changes what the robot is doing; the clock goes on.
Change ==
    /\ robot.state < MaxState
    /\ robot' = [robot EXCEPT !.state = @ + 1]
    /\ UNCHANGED <<waiting, worker, table, rows, faults, handled>>

ClockTick ==
    /\ robot.second < MaxSecond
    /\ robot' = [robot EXCEPT !.second = @ + 1]
    /\ UNCHANGED <<waiting, worker, table, rows, faults, handled>>

\* _publish_telemetry.
Publish ==
    /\ waiting' = waiting \cup {robot}
    /\ UNCHANGED <<robot, worker, table, rows, faults, handled>>

\* The IoT rule invokes the processor, for any of the messages; QoS 1 or Lambda may
\* deliver the message once more.
Invoke(w, r) ==
    /\ worker[w] = Free /\ r \in waiting
    /\ worker' = [worker EXCEPT ![w] = [at |-> "upsert", reading |-> r]]
    /\ \/ waiting' = waiting \ {r} /\ UNCHANGED faults
       \/ /\ faults.repeats < MaxRepeats
          /\ faults' = [faults EXCEPT !.repeats = @ + 1]
          /\ UNCHANGED waiting
    /\ UNCHANGED <<robot, table, rows, handled>>

\* Mutant: the item is put only if there is none yet.
UpsertRobotOnce(w) ==
    /\ worker[w].at = "upsert"
    /\ table' = IF table = None THEN worker[w].reading ELSE table
    /\ worker' = [worker EXCEPT ![w].at = "write"]
    /\ UNCHANGED <<robot, waiting, rows, faults, handled>>

\* Mutant: the first write uses the event up.
UpsertRobotForgetful(w) ==
    /\ worker[w].at = "upsert"
    /\ table' = worker[w].reading
    /\ worker' = [worker EXCEPT ![w] = [at |-> "write", reading |-> None]]
    /\ UNCHANGED <<robot, waiting, rows, faults, handled>>

\* upsert_robot replaces the item, whatever reading it holds.
UpsertRobot(w) ==
    /\ worker[w].at = "upsert"
    /\ table' = worker[w].reading
    /\ worker' = [worker EXCEPT ![w].at = "write"]
    /\ UNCHANGED <<robot, waiting, rows, faults, handled>>

\* An exception of upsert_robot ends the invocation, and Lambda invokes it again.
UpsertFails(w) ==
    /\ worker[w].at = "upsert" /\ faults.failures < MaxFailures
    /\ faults' = [faults EXCEPT !.failures = @ + 1]
    /\ waiting' = waiting \cup {worker[w].reading}
    /\ worker' = [worker EXCEPT ![w] = Free]
    /\ UNCHANGED <<robot, table, rows, handled>>

\* Mutant: the key is the time of writing, not the reading's.
WriteTelemetryNow(w) ==
    /\ worker[w].at = "write"
    /\ rows' = [rows EXCEPT ![robot.second] = worker[w].reading]
    /\ handled' = handled \cup {worker[w].reading.second}
    /\ worker' = [worker EXCEPT ![w] = Free]
    /\ UNCHANGED <<robot, waiting, table, faults>>

\* Mutant: a state that has a row already gets no other.
WriteTelemetryOnChange(w) ==
    /\ worker[w].at = "write"
    /\ LET r == worker[w].reading
       IN  /\ rows' = IF \E s \in Seconds : rows[s] # None /\ rows[s].state = r.state
                        THEN rows ELSE [rows EXCEPT ![r.second] = r]
           /\ handled' = handled \cup {r.second}
    /\ worker' = [worker EXCEPT ![w] = Free]
    /\ UNCHANGED <<robot, waiting, table, faults>>

\* write_telemetry: the readings of one second share an item.
WriteTelemetry(w) ==
    /\ worker[w].at = "write"
    /\ LET r == worker[w].reading
       IN  /\ rows' = [rows EXCEPT ![r.second] = r]
           /\ handled' = handled \cup {r.second}
    /\ worker' = [worker EXCEPT ![w] = Free]
    /\ UNCHANGED <<robot, waiting, table, faults>>

\* An exception of write_telemetry is logged, and the invocation has succeeded.
WriteFails(w) ==
    /\ worker[w].at = "write" /\ faults.failures < MaxFailures
    /\ faults' = [faults EXCEPT !.failures = @ + 1]
    /\ handled' = handled \cup {worker[w].reading.second}
    /\ worker' = [worker EXCEPT ![w] = Free]
    /\ UNCHANGED <<robot, waiting, table, rows>>

Process(w) ==
    \/ \E r \in Readings : Invoke(w, r)
    \/ UpsertRobot(w) \/ WriteTelemetry(w)

Next ==
    \/ Change \/ ClockTick \/ Publish
    \/ \E w \in Workers : Process(w) \/ UpsertFails(w) \/ WriteFails(w)

Spec == Init /\ [][Next]_vars

\* Lambda invokes the processor for every message in the end, and invocations end.
\* Whether the robot goes on publishing is left to the properties.
FairSpec ==
    /\ Spec
    /\ \A w \in Workers : WF_vars(UpsertRobot(w) \/ WriteTelemetry(w))
    /\ \A r \in Readings : SF_vars(\E w \in Workers : Invoke(w, r))

----------------------------------------------------------------------------
(* Properties.                                                             *)

TypeOK ==
    /\ robot \in Readings
    /\ waiting \subseteq Readings
    /\ worker \in [Workers -> [at : {"free", "upsert", "write"}, reading : Readings \cup {None}]]
    /\ \A w \in Workers : worker[w].at # "free" => worker[w].reading \in Readings
    /\ table \in Readings \cup {None}
    /\ rows \in [Seconds -> Readings \cup {None}]
    /\ faults \in [repeats : 0..MaxRepeats, failures : 0..MaxFailures]
    /\ handled \subseteq Seconds

\* The history shows the robot's states in the order in which the robot went through them,
\* in whatever order the invocations ran: a row belongs to its reading's second.  The clock
\* does not step back here.
HistoryInOrder ==
    \A s, t \in Seconds :
        s < t /\ rows[s] # None /\ rows[t] # None => rows[s].state <= rows[t].state

\* Every second of which a reading was handled has a row, unless a write failed: readings
\* of one second replace each other, but none takes another second's row.
SecondsRecorded ==
    faults.failures = 0 => \A s \in handled : rows[s] # None

\* The history as a whole: in order, and with no gap that no failing write made.
HistoryKept == HistoryInOrder /\ SecondsRecorded

\* As long as the robot goes on publishing, the table ends up with its present state, although
\* invocations that run late put older readings over newer ones for a while.
TableCatchesUp ==
    []<><<Publish>>_vars => <>[](table # None /\ table.state = robot.state)
=============================================================================
