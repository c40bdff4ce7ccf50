-------------------------- MODULE TelemetryProofs ---------------------------
(***************************************************************************)
(* For any number of invocations at the same time, repeats, failures,      *)
(* states and seconds: Telemetry is type correct, its history is in order  *)
(* and, while nothing fails, complete.                                     *)
(*                                                                         *)
(* The order of the rows rests on that of all readings anywhere between    *)
(* the robot and the history, in whatever order they are handled: none is  *)
(* ahead of the robot, and a later second never shows an earlier state.    *)
(*                                                                         *)
(* The table can fall behind the robot; that it does so only for what is   *)
(* under way is proved last.                                               *)
(***************************************************************************)
EXTENDS Telemetry, TLAPS

Faults == [repeats : 0..MaxRepeats, failures : 0..MaxFailures]
WorkerStates == [at : {"free", "upsert", "write"}, reading : Readings \cup {None}]

\* The readings under way and recorded.
Seen ==
    waiting \cup {worker[w].reading : w \in {x \in Workers : worker[x].at # "free"}}
            \cup {rows[s] : s \in {x \in Seconds : rows[x] # None}}

NotAhead == \A r \in Seen : r.state <= robot.state /\ r.second <= robot.second
Ordered == \A r, q \in Seen : r.second < q.second => r.state <= q.state
OwnSecond == \A s \in Seconds : rows[s] # None => rows[s].second = s

IInv == NotAhead /\ Ordered /\ OwnSecond /\ SecondsRecorded

Assumptions ==
    /\ MaxState \in Nat /\ MaxSecond \in Nat /\ MaxRepeats \in Nat /\ MaxFailures \in Nat
    /\ None \notin Readings

LEMMA Assumed == Assumptions
BY TelemetryBounds, TelemetryNone DEF Assumptions

----------------------------------------------------------------------------
LEMMA FaultsFacts ==
    ASSUME NEW f \in Faults
    PROVE  /\ f.repeats < MaxRepeats =>
                 /\ [f EXCEPT !.repeats = @ + 1] \in Faults
                 /\ [f EXCEPT !.repeats = @ + 1].failures = f.failures
           /\ f.failures < MaxFailures =>
                 /\ [f EXCEPT !.failures = @ + 1] \in Faults
                 /\ [f EXCEPT !.failures = @ + 1].failures # 0
BY Assumed DEF Assumptions, Faults

LEMMA ReadingFacts ==
    ASSUME NEW r \in Readings
    PROVE  /\ r # None /\ r.state \in Nat /\ r.second \in Seconds /\ r.second \in Nat
           /\ r.state < MaxState => [r EXCEPT !.state = @ + 1] \in Readings
           /\ [r EXCEPT !.state = @ + 1].state = r.state + 1
           /\ [r EXCEPT !.state = @ + 1].second = r.second
           /\ r.second < MaxSecond => [r EXCEPT !.second = @ + 1] \in Readings
           /\ [r EXCEPT !.second = @ + 1].second = r.second + 1
           /\ [r EXCEPT !.second = @ + 1].state = r.state
BY Assumed DEF Assumptions, Readings, States, Seconds

\* What an invocation is doing next, with the same reading or none.
LEMMA WorkerFacts ==
    ASSUME NEW p \in WorkerStates, p.at # "free" => p.reading \in Readings,
           NEW a \in {"upsert", "write"}
    PROVE  /\ [p EXCEPT !.at = a] \in WorkerStates
           /\ [p EXCEPT !.at = a].at = a /\ [p EXCEPT !.at = a].reading = p.reading
           /\ Free \in WorkerStates /\ Free.at = "free"
           /\ \A r \in Readings : /\ [at |-> a, reading |-> r] \in WorkerStates
                                  /\ [at |-> a, reading |-> r].at = a
BY DEF WorkerStates, Free

Typed ==
    /\ robot \in Readings /\ waiting \subseteq Readings
    /\ worker \in [Workers -> WorkerStates]
    /\ \A w \in Workers : worker[w].at # "free" => worker[w].reading \in Readings
    /\ table \in Readings \cup {None}
    /\ rows \in [Seconds -> Readings \cup {None}]
    /\ faults \in Faults
    /\ handled \subseteq Seconds

LEMMA TypeFacts == TypeOK <=> Typed
BY DEF TypeOK, Typed, WorkerStates, Faults

----------------------------------------------------------------------------
LEMMA NextKeepsTypes == TypeOK /\ [Next]_vars => TypeOK'
<1> SUFFICES ASSUME Typed, [Next]_vars
             PROVE  Typed'
  BY DEF TypeOK, Typed, WorkerStates, Faults
<1> USE DEF Typed
<1>1. CASE Change
  BY <1>1, ReadingFacts DEF Change
<1>2. CASE ClockTick
  BY <1>2, ReadingFacts DEF ClockTick
<1>3. CASE Publish
  BY <1>3 DEF Publish
<1>4. ASSUME NEW w \in Workers, NEW r \in Readings, Invoke(w, r)
      PROVE  Typed'
  <2>1. faults' \in Faults /\ waiting' \subseteq Readings
    BY <1>4, FaultsFacts DEF Invoke
  <2>2. worker' \in [Workers -> WorkerStates]
        /\ \A x \in Workers : worker'[x].at # "free" => worker'[x].reading \in Readings
    BY <1>4, WorkerFacts DEF Invoke
  <2>3. QED
    BY <1>4, <2>1, <2>2 DEF Invoke
<1>5. ASSUME NEW w \in Workers, UpsertRobot(w)
      PROVE  Typed'
  <2>1. worker' \in [Workers -> WorkerStates]
        /\ \A x \in Workers : worker'[x].at # "free" => worker'[x].reading \in Readings
    BY <1>5, WorkerFacts DEF UpsertRobot
  <2>2. QED
    BY <1>5, <2>1 DEF UpsertRobot
<1>6. ASSUME NEW w \in Workers, worker' = [worker EXCEPT ![w] = Free]
      PROVE  worker' \in [Workers -> WorkerStates]
             /\ \A x \in Workers : worker'[x].at # "free" => worker'[x].reading \in Readings
  <2>1. Free \in WorkerStates /\ Free.at = "free"
    BY DEF WorkerStates, Free
  <2>2. QED
    BY <1>6, <2>1
<1>7. ASSUME NEW w \in Workers, UpsertFails(w)
      PROVE  Typed'
  BY <1>6, <1>7, FaultsFacts DEF UpsertFails
<1>8. ASSUME NEW w \in Workers, WriteTelemetry(w)
      PROVE  Typed'
  BY <1>6, <1>8, ReadingFacts DEF WriteTelemetry
<1>9. ASSUME NEW w \in Workers, WriteFails(w)
      PROVE  Typed'
  BY <1>6, <1>9, FaultsFacts, ReadingFacts DEF WriteFails
<1>10. CASE UNCHANGED vars
  BY <1>10 DEF vars
<1>11. QED
  BY <1>1, <1>2, <1>3, <1>4, <1>5, <1>7, <1>8, <1>9, <1>10 DEF Next, Process

\* The stores and the invocations keep their types; no invocation is without its reading.
THEOREM TypeCorrect == Spec => []TypeOK
<1>1. Init => TypeOK
  <2>1. Free \in WorkerStates /\ Free.at = "free"
    BY DEF WorkerStates, Free
  <2>2. /\ [state |-> 0, second |-> 0] \in Readings
        /\ [repeats |-> 0, failures |-> 0] \in Faults
    BY Assumed DEF Assumptions, Readings, States, Seconds, Faults
  <2>3. Init => Typed
    BY <2>1, <2>2 DEF Init, Typed
  <2>4. QED
    BY <2>3, TypeFacts
<1>2. QED
  BY <1>1, NextKeepsTypes, PTL DEF Spec

----------------------------------------------------------------------------
(* The history.                                                            *)

\* Where there are no new readings, and no row in another's second, the order stays.
LEMMA FewerReadings ==
    ASSUME IInv, Seen' \subseteq Seen, UNCHANGED robot, OwnSecond', SecondsRecorded'
    PROVE  IInv'
BY DEF IInv, NotAhead, Ordered

\* No invocation brings readings that are ahead of the robot or out of order.
LEMMA InvariantAlways == Spec => []IInv
<1>1. Init => IInv
  <2>1. Init => Seen = {}
    BY DEF Init, Seen, Free
  <2>2. QED
    BY <2>1 DEF Init, IInv, NotAhead, Ordered, OwnSecond, SecondsRecorded
<1>2. TypeOK /\ IInv /\ [Next]_vars => IInv'
  <2> SUFFICES ASSUME Typed, IInv, [Next]_vars
               PROVE  IInv'
    BY TypeFacts
  <2>1. /\ robot \in Readings /\ Seen \subseteq Readings /\ faults \in Faults
        /\ \A w \in Workers : worker[w].at # "free" => worker[w].reading \in Seen
        /\ \A s \in Seconds : rows[s] # None => rows[s] \in Seen
        /\ waiting \subseteq Seen
    BY DEF Typed, Seen
  <2>2. \A r \in Readings : r.state \in Nat /\ r.second \in Nat /\ r # None
    BY ReadingFacts
  <2>3. CASE Change \/ ClockTick
    <3>1. /\ robot'.state \in Nat /\ robot'.second \in Nat
          /\ robot.state <= robot'.state /\ robot.second <= robot'.second
      <4>1. /\ robot.state \in Nat /\ robot.second \in Nat
            /\ [robot EXCEPT !.state = @ + 1].state = robot.state + 1
            /\ [robot EXCEPT !.state = @ + 1].second = robot.second
            /\ [robot EXCEPT !.second = @ + 1].state = robot.state
            /\ [robot EXCEPT !.second = @ + 1].second = robot.second + 1
        BY <2>1, <2>2, ReadingFacts
      <4>2. CASE Change
        BY <4>1, <4>2 DEF Change
      <4>3. CASE ClockTick
        BY <4>1, <4>3 DEF ClockTick
      <4>4. QED
        BY <2>3, <4>2, <4>3
    <3>2. UNCHANGED <<Seen, rows, faults, handled>>
      BY <2>3 DEF Change, ClockTick, Seen
    <3>3. NotAhead'
      BY <2>1, <2>2, <3>1, <3>2 DEF IInv, NotAhead
    <3>4. QED
      BY <3>2, <3>3 DEF IInv, Ordered, OwnSecond, SecondsRecorded
  <2>4. CASE Publish
    <3>1. Seen' = Seen \cup {robot} /\ UNCHANGED <<robot, rows, faults, handled>>
      BY <2>4 DEF Publish, Seen
    <3>2. NotAhead'
      BY <2>1, <2>2, <3>1 DEF IInv, NotAhead
    <3>3. Ordered'
      BY <2>1, <2>2, <3>1 DEF IInv, NotAhead, Ordered
    <3>4. QED
      BY <3>1, <3>2, <3>3 DEF IInv, OwnSecond, SecondsRecorded
  <2>5. ASSUME NEW w \in Workers, NEW r \in Readings, Invoke(w, r)
        PROVE  IInv'
    <3>1. /\ UNCHANGED <<robot, rows, handled>> /\ faults'.failures = faults.failures
          /\ waiting' \subseteq waiting /\ r \in waiting
          /\ \A x \in Workers : \/ worker'[x] = worker[x]
                                \/ worker'[x].reading = r
      BY <2>1, <2>5, FaultsFacts DEF Invoke, Typed
    <3>2. Seen' \subseteq Seen
      BY <2>1, <3>1 DEF Seen
    <3>3. QED
      BY <3>1, <3>2, FewerReadings DEF IInv, OwnSecond, SecondsRecorded
  <2>6. ASSUME NEW w \in Workers, UpsertRobot(w)
        PROVE  IInv'
    <3>1. /\ UNCHANGED <<robot, waiting, rows, faults, handled>>
          /\ \A x \in Workers : worker'[x].reading = worker[x].reading
          /\ \A x \in Workers : worker'[x].at # "free" => worker[x].at # "free"
      BY <2>6 DEF UpsertRobot, Typed, WorkerStates
    <3>2. Seen' \subseteq Seen
      BY <2>1, <3>1 DEF Seen
    <3>3. QED
      BY <3>1, <3>2, FewerReadings DEF IInv, OwnSecond, SecondsRecorded
  \* The invocation of w ends.
  <2>7. ASSUME NEW w \in Workers, worker' = [worker EXCEPT ![w] = Free]
        PROVE  \A x \in Workers : worker'[x].at # "free" => worker'[x] = worker[x]
    BY <2>7 DEF Typed, Free
  <2>8. ASSUME NEW w \in Workers, UpsertFails(w)
        PROVE  IInv'
    <3>1. /\ UNCHANGED <<robot, rows, handled>> /\ faults'.failures # 0
          /\ waiting' \subseteq Seen
          /\ \A x \in Workers : worker'[x].at # "free" => worker'[x] = worker[x]
      BY <2>1, <2>7, <2>8, FaultsFacts DEF UpsertFails
    <3>2. Seen' \subseteq Seen
      BY <2>1, <3>1 DEF Seen
    <3>3. QED
      BY <3>1, <3>2, FewerReadings DEF IInv, OwnSecond, SecondsRecorded
  <2>9. ASSUME NEW w \in Workers, WriteTelemetry(w)
        PROVE  IInv'
    <3> DEFINE r == worker[w].reading
    <3>1. /\ UNCHANGED <<robot, waiting, faults>>
          /\ handled' = handled \cup {r.second}
          /\ worker[w].at = "write"
          /\ \A x \in Workers : worker'[x].at # "free" => worker'[x] = worker[x]
      BY <2>7, <2>9 DEF WriteTelemetry
    <3>2. r \in Seen /\ r \in Readings /\ r # None /\ r.second \in Seconds
      BY <2>1, <2>2, <3>1, ReadingFacts
    <3>3. \A s \in Seconds : rows'[s] = IF s = r.second THEN r ELSE rows[s]
      BY <2>9, <3>2 DEF WriteTelemetry, Typed
    <3>4. OwnSecond'
      BY <3>2, <3>3 DEF IInv, OwnSecond
    <3>5. SecondsRecorded'
      BY <3>1, <3>2, <3>3 DEF IInv, SecondsRecorded, Typed
    <3>6. Seen' \subseteq Seen
      BY <2>1, <3>1, <3>2, <3>3 DEF Seen
    <3>7. QED
      BY <3>1, <3>4, <3>5, <3>6, FewerReadings
  <2>10. ASSUME NEW w \in Workers, WriteFails(w)
         PROVE  IInv'
    <3>1. /\ UNCHANGED <<robot, waiting, rows>> /\ faults'.failures # 0
          /\ \A x \in Workers : worker'[x].at # "free" => worker'[x] = worker[x]
      BY <2>1, <2>7, <2>10, FaultsFacts DEF WriteFails
    <3>2. Seen' \subseteq Seen
      BY <2>1, <3>1 DEF Seen
    <3>3. QED
      BY <3>1, <3>2, FewerReadings DEF IInv, OwnSecond, SecondsRecorded
  <2>11. CASE UNCHANGED vars
    BY <2>11 DEF vars, IInv, NotAhead, Ordered, OwnSecond, SecondsRecorded, Seen
  <2>12. QED
    BY <2>3, <2>4, <2>5, <2>6, <2>8, <2>9, <2>10, <2>11 DEF Next, Process
<1>3. QED
  BY <1>1, <1>2, TypeCorrect, PTL DEF Spec

\* In whatever order the invocations run, are repeated and fail: the rows show the robot's
\* states in the order in which it went through them, and as long as nothing fails, no
\* second of a reading handled lacks its row.
THEOREM HistoryIsTrue == Spec => []HistoryKept
<1>1. IInv => HistoryInOrder
  BY DEF IInv, Ordered, OwnSecond, HistoryInOrder, Seen
<1>2. IInv => SecondsRecorded
  BY DEF IInv
<1>3. QED
  BY <1>1, <1>2, InvariantAlways, PTL DEF HistoryKept

----------------------------------------------------------------------------
(* The table.                                                              *)

\* The table shows the robot's state, and so does every reading that can still be put.
CaughtUp ==
    /\ table # None /\ table.state = robot.state
    /\ \A r \in waiting : r.state = robot.state
    /\ \A w \in Workers : worker[w].at = "upsert" => worker[w].reading.state = robot.state

\* Once caught up, the table falls behind only because the robot changes.
StaysCaughtUp == [][CaughtUp /\ UNCHANGED robot.state => CaughtUp']_vars

\* The safety core of TableCatchesUp: no repeat, failure or late invocation brings an older
\* reading back when none is on its way any more.
THEOREM TableStays == Spec => StaysCaughtUp
<1>1. TypeOK /\ [Next]_vars => (CaughtUp /\ UNCHANGED robot.state => CaughtUp')
  <2> SUFFICES ASSUME Typed, [Next]_vars, CaughtUp, robot'.state = robot.state
               PROVE  CaughtUp'
    BY TypeFacts
  <2> USE DEF CaughtUp
  <2>1. ASSUME UNCHANGED <<table, waiting, worker>>
        PROVE  CaughtUp'
    BY <2>1
  <2>2. CASE Change \/ ClockTick \/ UNCHANGED vars
    BY <2>1, <2>2 DEF Change, ClockTick, vars
  <2>3. CASE Publish
    BY <2>3 DEF Publish
  <2>4. ASSUME NEW w \in Workers, NEW p, worker' = [worker EXCEPT ![w] = p],
               p.at = "upsert" => p.reading.state = robot.state
        PROVE  \A x \in Workers :
                  worker'[x].at = "upsert" => worker'[x].reading.state = robot'.state
    BY <2>4 DEF Typed
  <2>5. ASSUME NEW w \in Workers, NEW r \in Readings, Invoke(w, r)
        PROVE  CaughtUp'
    <3>1. worker' = [worker EXCEPT ![w] = [at |-> "upsert", reading |-> r]]
          /\ r \in waiting /\ waiting' \subseteq waiting /\ UNCHANGED table
      BY <2>5 DEF Invoke
    <3>2. QED
      BY <2>4, <3>1
  <2>6. ASSUME NEW w \in Workers, UpsertRobot(w)
        PROVE  CaughtUp'
    <3>1. /\ table' = worker[w].reading /\ worker[w].at = "upsert" /\ UNCHANGED waiting
          /\ worker[w].reading \in Readings
      BY <2>6 DEF UpsertRobot, Typed
    <3>2. \A x \in Workers : worker'[x].at = "upsert" => worker'[x] = worker[x]
      BY <2>6 DEF UpsertRobot, Typed, WorkerStates
    <3>3. QED
      BY <3>1, <3>2, ReadingFacts
  <2>7. Free.at # "upsert"
    BY DEF Free
  <2>8. ASSUME NEW w \in Workers, UpsertFails(w)
        PROVE  CaughtUp'
    <3>1. /\ worker' = [worker EXCEPT ![w] = Free] /\ worker[w].at = "upsert"
          /\ waiting' = waiting \cup {worker[w].reading} /\ UNCHANGED table
      BY <2>8 DEF UpsertFails
    <3>2. QED
      BY <2>4, <2>7, <3>1
  <2>9. ASSUME NEW w \in Workers, WriteTelemetry(w) \/ WriteFails(w)
        PROVE  CaughtUp'
    <3>1. worker' = [worker EXCEPT ![w] = Free] /\ UNCHANGED <<waiting, table>>
      BY <2>9 DEF WriteTelemetry, WriteFails
    <3>2. QED
      BY <2>4, <2>7, <3>1
  <2>10. QED
    BY <2>2, <2>3, <2>5, <2>6, <2>8, <2>9 DEF Next, Process
<1>2. QED
  BY <1>1, TypeCorrect, PTL DEF Spec, StaysCaughtUp
=============================================================================
