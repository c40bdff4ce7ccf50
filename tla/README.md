# RobOps platform: TLA+ models, checks and proofs

RobOps operates cleaning robots: emulated robots publish telemetry and take
commands and OTA jobs over AWS IoT Core; a serverless backend keeps their state
in DynamoDB and offers a REST and a WebSocket API; a React dashboard shows the
fleet.  This directory holds TLA+ models of that program, the TLC configurations
that check them on small instances, and TLAPS proofs of the properties that
matter most.

## The system

| Part | Source | State | Operations | Talks to |
|---|---|---|---|---|
| Robot state machine | `emulator/robot/robot_state.py` | status, battery, position, speed, path, settings | four commands, `apply_ota`, `tick` | nobody: pure logic |
| Robot process | `emulator/robot/mqtt_client.py`, `main.py` | the connection, its session at the broker, the `RobotState` object | main loop (tick, publish), callbacks for commands, jobs, reconnects | IoT Core, in two threads |
| OTA API | `backend/app/api/ota.py`, `services/iot_service.py`, `services/dynamodb_service.py` | OTA table, manifests | create, list, get (both synchronise) | S3, IoT Jobs, DynamoDB |
| Commands | `frontend/.../CommandPanel.tsx`, `backend/app/api/robots.py`, `services/iot_service.py` | what the screen shows | offer, publish | DynamoDB, IoT Core |
| Schedules | `backend/app/api/schedules.py`, `services/scheduler_service.py`, `lambda_handlers/scheduler_trigger.py` | schedules table, EventBridge schedules | create, delete, trigger | EventBridge, DynamoDB, IoT Core |
| Telemetry pipeline | `lambda_handlers/telemetry_processor.py`, `services/telemetry_service.py` | robots table, history | upsert, append, query | called by an IoT rule |
| WebSocket | `backend/app/websocket/handler.py`, `lambda_handlers/websocket_broadcaster.py` | connections table | connect, disconnect, subscribe, broadcast | API Gateway, DynamoDB streams |
| Dashboard | `frontend/src/hooks` | query cache, sockets | apply a message, reconnect, fetch | REST and WebSocket API |

How they interact: a robot's telemetry goes through an IoT rule to the
processor, into the robots table, out of its stream to the broadcaster and on to
every connected dashboard.  A command goes from a dashboard, or from an
EventBridge schedule through the trigger, to the robot's command topic.  An OTA
job goes from the API through IoT Jobs to the robot, whose updates of the job's
execution come back into the OTA table when somebody lists the jobs.

What is hard in it, and what makes each part correct:

* *State machine.*  Every command can arrive in every status and in mid-room.
  The robot must be on the path of its room while it cleans, bound for the dock
  and moving while it homes, at the dock while it charges, standing otherwise;
  and every status other than `IDLE` must be left.
* *Threads.*  `tick` runs in the main thread, commands and jobs run in the event
  loop thread of awscrt, on one object without a lock.
* *Jobs.*  QoS 1 sends messages again, the persistent session outlives the
  process or expires, the process dies anywhere, jobs cannot be applied.  A
  reported outcome must be true, and every job must be taken up.
* *OTA records.*  Requests interleave between calls of three services, fail
  between any two, and write items they read earlier.
* *Schedules.*  The table and EventBridge change one after the other without a
  transaction, requests stop between the two, and a trigger may be under way
  while its schedule is deleted.  A schedule the API lists must run, one that was
  deleted must never run again.
* *WebSocket and dashboard.*  A batch is broadcast to the connections as they were
  when it began, while clients connect, close and expire; the state for a new client
  is read before and posted after an update; REST answers overtake messages.  A
  connected client must miss nothing that the reads show, and when the robots are quiet every screen
  must come to show the table.
* *Telemetry.*  Every message is an invocation of its own; invocations run at the
  same time, in any order, twice, and fail between their two writes.  The history must
  show what the robot went through, the table come back to its present state.
* *Commands.*  They are sent on what a screen shows, which is the past, or by a
  schedule that looks at nothing; QoS 1 sends them again, a session keeps them for a
  robot that is away and expires, the process starts anew.  A STOP_CLEANING must stop
  the robot, and stay the last word; no way of losing a connection may make the robot deaf.
* *The page.*  The hook of a page that was left can go on reconnecting and writing into
  the cache that the next page reads.

`PROJECT.json` lists the hazards at their lines, with the properties that cover
them.

## Modules

| Module | Models | Kind |
|---|---|---|
| `RobotLifecycle` | what the telemetry of a robot may show | abstract specification |
| `RobotState` | `RobotState`, every handler atomic | specification and properties |
| `SharedLifecycle` | the same when the ticks and the callbacks share the robot | abstract specification |
| `FloorPlan` | the rooms, `_boustrophedon_path`, `_room_at` | operators, and what a path must achieve |
| `RobotThreads` | the same object, handlers taken apart between two threads | extends `RobotState` |
| `RobotProofs` | | theorems about `RobotState` and `RobotThreads` |
| `JobQueue` | what OTA jobs promise to those who create them | abstract specification |
| `OtaJobs` | the robot's jobs agent, over IoT Jobs, QoS 1 and the session | specification and properties |
| `OtaRecords` | the OTA endpoints over S3, IoT Jobs and the OTA table | specification and properties |
| `OtaRecordsProofs` | | theorems about `OtaRecords` |
| `Schedules` | the schedule endpoints over EventBridge and the schedules table | specification and properties |
| `SchedulesProofs` | | theorems about `Schedules` |
| `Qos1` | one direction of an MQTT connection over a persistent session | operators |
| `Qos1Proofs` | | lemmas about them |
| `OtaJobsProofs` | | theorems about `OtaJobs` |
| `Commands` | from the command panel and the trigger to the robot's callback; composes `Qos1` and `SharedLifecycle` | specification and properties |
| `CommandsProofs` | | theorems about `Commands` |
| `Telemetry` | from the robot's loop through concurrent invocations to the table and the history | specification and properties |
| `TelemetryProofs` | | theorems about `Telemetry` |
| `Dashboard` | broadcaster, WebSocket routes and the sockets of dashboards, over API Gateway and the robots table | specification and properties |
| `Feed` | what the sockets of a dashboard may see of one robot | abstract specification |
| `DashboardProofs` | | theorems about `Dashboard`, which implements `Feed` |
| `DashboardPage` | one browser tab: its sockets, its query cache, and the page that comes and goes; composes them with `Feed` | specification and properties |
| `MC*` | constants of the instances | instances |

Operators commented *Mutant* are not part of a specification: each is a plausible
bug of the definition that follows it, used to show that a property can fail.

### RobotState

The variables are the fields of the Python object.  `Tick(e)` is `tick()` with
`elapsed = e`, split into disjuncts by what the tick does: `RunLow`, `FinishRoom`,
`PassWaypoint`, `CrossRoom` for `_tick_cleaning`, `Charge`, `DriveHome` and
`EnterDock`, `LeaveLowBattery`.  A command that is rejected changes nothing and is
no step.  `Command` and `Ota` may happen at any time.

Abstractions: the floor is a line in centimetres, since no condition of the code
looks at anything but a distance to a waypoint; the room label of a position is
left out.  A path is any sequence of positions further apart than the arrival
threshold, which is so in every path `_boustrophedon_path` makes (see `FloorPlan`).  Battery is counted in units of half the homing drain
per second.  Speeds are integers in cm/s, the homing speed (80 %) is rounded up
so that rounding never makes it zero where the code has a positive number.
Elapsed times are integers and may be negative in the theorems, because
`time.time()` may step back.  `UPDATING` is entered and left within `apply_ota`
and never seen here; `ERROR` is never set by the code.

The refinement mapping to `RobotLifecycle` keeps `status` and maps `docked` to
`position = Dock` and `low` to `battery_level <= Threshold`.

### FloorPlan

The paths of the code in two dimensions, in centimetres, as a definition of the n-th
waypoint instead of the code's loop, and, independently of it, what a path is for.
Assumptions that TLC evaluates in the run `robot_state` compare the two on the five
rooms of the floor and on 700 other boxes: a path keeps its margin from the walls,
passes every reachable place of the room within a strip's width, and is spaced as
`RobotState` assumes; every waypoint carries the label of its own room.

### RobotThreads

`tick` is where the main thread is inside `tick()`, with its locals; `handler` is
where the callback thread is inside a `START_CLEANING`.  CPython 3.12 (the image
of `emulator/Dockerfile`) hands the GIL over only on entry to a function, after a
call and on backward jumps; a step here is the code between two such points.  All
other commands and `apply_ota` contain no such point once they have begun to
write.  An `IndexError` or `ZeroDivisionError` that a changed path causes ends
the tick, as the handler in `run_forever` makes it.

What the robot shows is `SharedLifecycle` (`ImplementsShared`): a tick acts on the status it has
read (`acting`), so that `RunLow` or `ReachDock` can put `LOW_BATTERY` or `CHARGING` over what a callback
has written since; only the end of a room looks at the status again.  A START_CLEANING without a room is
accepted in one step and carried out in another (`entering`).  The mapping keeps `status`, maps
`low` as in `RobotState`, `acting` to the helper the tick is in, and `entering` to the handler that
chooses its room.

### Qos1

A channel is the messages of a direction with the number of those handled but not
yet acknowledged; a drop makes any suffix of them new again.  `Window` bounds that
number.  `OtaJobs` and `Commands` send over it.

### OtaJobs

IoT Jobs hands out
the execution in progress before a queued one, oldest first, and notifies the
robot when its list of pending executions changes.  The robot's actions are
`Connect`, `SubscribeJobs`, `OnPendingJobsResponse`, `OnJobsChanged`,
`OnNextJob`/`ApplyOta`/`ReportJob` and `OnConnectionResumed`.  The four
subscriptions of `_subscribe_jobs` are one step: what can arrive before the last
of them is covered by `Unheard`, which loses it.  A dying process loses
everything it holds, firmware included: `RobotState` is created anew.

`ReportJob` is the rest of the `try` in `_on_next_job`.  A job in `BadJobs` raises before it is
applied and is reported `FAILED`.  Any job in `Unreported` may be applied and then raise when its
success is published: the same handler catches that, and reports `FAILED` for a job that was
applied.  Exceptions of the publishes that nothing catches (`IN_PROGRESS`, `FAILED`, the
start-next request) are left out.

External, and modelled from how the code uses it: IoT Jobs, the broker, the
session, docker's restart policy.

The refinement mapping to `JobQueue` forgets everything but `execution` and `applied`.  What is left is
a queue without messages: a job starts when all created before it have ended, is applied
while it is in progress, and ends as `SUCCEEDED` only if it was applied.  It may end as `FAILED` although it
was, which is what the code does when it cannot publish the success.

### OtaRecords

`request[r]` is what request `r` is doing; each call of S3, IoT Jobs or DynamoDB
is a step, and a request may end between any two (`Abort`).  An item is reduced
to its status; `progress` and `completed_at` are written with it.  `Advance` is
IoT Jobs, which can also remove an execution together with its robot (`REMOVED`): `status_map` of
`_sync_status` does not know that status and keeps the item's own (`Mapped`), so that the record of a
removed execution stays at its last status and is written again by each listing.  Job ids are random, so
an id is new when it is drawn.

### Schedules

`rules` is EventBridge, `records` the table.  `create_schedule` is `Draw`,
`Register` (the rule), `PutRecord` and `AnswerCreated`; `delete_schedule` is
`Find`, `Unregister`, `Erase` and `AnswerDeleted`.  `request[r]` is what request
`r` is doing, and `Abort` ends it between any two of its calls, so that one store
stays as it is.  `Fire` is EventBridge invoking the trigger, `Trigger` the trigger
publishing its command, however late.  What a schedule says (robot, room, cron
expression) never changes and is left out; the history variables `confirmed`,
`begun` and `deleted` record what callers were told.  An id is random, so it
belongs to one creation only.  EventBridge Scheduler is external.

### Commands

A message carries its number and its command; rooms are left out, as nothing that is
checked depends on them.  `SendCommand` is a button the panel enables, judged by `shown`,
followed by `send_command` and `publish_command`; `TriggerStart` is
`scheduler_trigger.handler`.  `Publish` puts the message into the session if that holds
the subscription, and otherwise loses it.  `Refresh` is everything between the robot's
telemetry and the screen, which `Telemetry`, `Dashboard` and `DashboardPage` look at,
as one step that may be late.

The robot is `SharedLifecycle`, so that what is shown here holds of everything that
implements it; `RobotProofs!ThreadsImplementShared` says `RobotThreads` does.  The ticks (`Tick`) run
beside the callbacks: a command can arrive anywhere inside one.  `EnterRoom` is the rest of an accepted
START_CLEANING, during which the callback thread takes up nothing else.
`Accepts` and `Obey` are the tests and effects of the command handlers on what the
lifecycle knows.  A rejected command is only logged, and acknowledged.

`Connect` stands for `connect` up to the subscription: the broker sends what the session
kept at once, and `Unheard` loses what arrives before its callback is registered.
`OnConnectionResumed` without a session calls `_subscribe_commands` in a callback of the
event loop thread and waits there for an answer that the same thread must receive: the
call times out after five seconds, and the subscription is complete only afterwards
(`process = "resubscribing"`).

### Telemetry

`robot` is the reading the robot would publish now: a number for its state that grows
with each change, and the second of `to_telemetry`'s timestamp, the sort key of the
history.  `Publish`, `Invoke`, `UpsertRobot` and `WriteTelemetry` are the loop, the IoT
rule, and the two writes of the processor; `UpsertFails` ends the invocation, which Lambda
repeats, `WriteFails` is logged.  An older reading can replace a newer one in the table, since
`put_item` has no condition; `rows` holds one reading per second.

### Dashboard

The broadcaster is `BeginBroadcast`, `PostUpdate` and `EndRecord`; the WebSocket routes
are `OnConnect`, `OnDisconnect`, and `ReadRobots` and `PostState` for a
`subscribe_robot`; a dashboard's socket is `Connect`, `OnOpen`, `OnMessage` and
`OnClose`; `UpsertRobot` is the telemetry processor feeding table and stream.  Between
them stands API Gateway (external): it delivers in order, calls a post before the end of the
handshake or after the close *Gone*, and loses what is on its way when a socket
closes.  Lambda (external) gives the broadcaster one batch at a time and repeats a
batch whose invocation failed.

What a robot's item says is reduced to its version, the number of times it was put,
since neither the broadcaster nor the hooks look at anything else of it.  `sent`, the
newest version put on a socket, is a history variable.

The code scans both tables without `ConsistentRead`.  So `BeginBroadcast` works on any set of
connections (`Scannable`): one that was just saved may be missing, one whose item is deleted still be
there, which matters only while its socket is open.  `ReadRobots` returns any earlier version of each
item (`Readable`).  The history variable `behind` names the dashboards that such a scan has left without
an update they should have got: those whose state was read late, and those that a scan of the
connections has overlooked although they are open and registered, have not been sent all there is and are
not still to be sent their state (`Overlooked`).  A dashboard leaves it when it is told of the newest
versions, or closes.  `NothingMissed` speaks of the others.  A connection id is
reused only when nobody knows it any more, which keeps the few ids of an instance enough.

### Feed

The interface between the two modules about the dashboard: everything from the robots table
to a socket, as one robot's item looks from there.  `Change` is a put; `Broadcast` and
`RepeatBatch` move the broadcaster along the stream, and back when a batch has failed;
`PostUpdate` says where it is, `ReadState` and `PostState` answer a `subscribe_robot` from
the table, maybe with an older version than the table's; a post may be missing, and `RequestFails` is a request without an answer.  A socket
delivers what it carries in order and loses it when it closes.

`Dashboard` implements it (`ImplementsFeed`) for each robot, under this mapping: a put is the
item's `version`; the broadcaster is at the newest version of the robot of which no later
record is still to be taken up (`Reached`); a socket whose handshake is accepted is still connecting
to the browser; only the request of an open socket counts, as only its answer can arrive
(`RequestOf`); and a message says nothing but what it says of this robot (`SaysOf`), the updates of the
others being `PostOther`.  `ImplementsFeed` states initial states and steps apart, for all robots, so that
TLC can check it; `EachRobotIsFed` is the same as an implication of specifications.

### DashboardPage

Where `Dashboard` ends, at the messages of a socket.  Every time the page is opened there
is a hook with a socket of its own (`OpenPage`).  Leaving it (`LeavePage`) clears the
timer and closes the socket; the close handler runs all the same (`OnClose`) and starts a
new timer, so the hook of a page that was left connects again (`Reconnect`) and goes on
writing into the cache.  `list` and `detail` are the entries `['robots']` and
`['robots', id]`; `FetchList`, `FetchDetail` and `Fetched` are the REST requests that
replace them; other pages of the tab make them too.  Their answers, and the state for a
subscription, may be older than the table; such late reads are counted among the failures.  The server and the wires are `Feed`, whose steps are taken together with what they
do in the tab: `Serve` is the server at work, `ServeFails` a batch broadcast again, a request not
answered or answered late.  Updates of other robots touch neither entry and are left out.  Since `stream` is how far the
broadcaster has come, an update can be older than the state read meanwhile.

## Runs

| Run | Instance | Shows |
|---|---|---|
| `robot_state` | two rooms (one waypoint next to the dock; two apart), ticks of 1 and 2 s, OTA speeds 5 and 100 cm/s, full battery 8 units, threshold 3 | a driving robot is on its way and able to go on (`OnCourse`), `NoTeleport`, the refinement, and that every status but `IDLE` is left (`OnlyIdleLasts`) |
| `robot_threads` | one room near the dock, one-second ticks | what holds however the threads interleave: `HomingPossible`, `ChargesOnlyInDock`, `DrivingEnds`, and `SharedLifecycle` (`ImplementsShared`) |
| `robot_threads_jump` | one room far from the dock | violation: the robot jumps to its dock |
| `ota_jobs` | two jobs, two drops, two unacknowledged messages | every job ends (`JobsFinish`), the newest firmware wins (`SettlesOnNewest`) |
| `ota_jobs_faults` | two jobs, one of them bad, the other's success perhaps not reported, one drop, crash and expiry each, one unacknowledged message | the jobs are the abstract queue, success true (`ImplementsQueue`); something attends to every queued job (`QueueAttended`), so none is forgotten (`QueuedStarts`) |
| `ota_jobs_expiry_stuck` | one drop, one expiry | violation: later jobs are not started |
| `ota_records` | one job, one robot, two requests | records are never ahead of the truth (`StoresAgree`, `RecordedOutcomeIsTrue`) and converge |
| `schedules` | two schedules, two requests that may end between any two calls, one invocation under way per schedule | both stores agree as far as anybody was told, deleted schedules stay quiet, a repeated deletion completes |
| `dashboard` | one robot, one dashboard, two connection ids, batches of up to two records, two versions, one failure, any late scans | updates arrive in order and a subscribed dashboard misses none that no late scan has kept from it (`WellInformed`); it is heard of and told the table again and again; to its sockets the whole is the feed (`ImplementsFeed`) |
| `dashboard_page` | two visits of the page, one change of the robot, one failure or late read, updates posted to an empty wire | over the feed, the list and, with updates, the single robot come to the table's state |
| `commands` | three commands, one drop, expiry and crash each, two unacknowledged messages | commands arrive, a robot last told to stop or return does not clean, the robot is never deaf for good |
| `telemetry` | two invocations at a time, two states, two seconds, one repeat, one failure | the history is in order and complete; the table catches up |

*Bounds.*  Two rooms are enough for a robot to change its path; one path has a
waypoint at arrival distance from the dock, so rooms end within a tick.  The
battery scale lets a robot run low in mid-room, on the way home and one tick after
a start, and takes several ticks to charge.  Two requests are enough for every
race of `OtaRecords`: its actions read and write one item, and a third request can
only repeat what one of the two does; the proofs cover any number.  The same
goes for `Schedules`, whose races need one deletion beside a creation or another
deletion; `MaxInFlight` bounds the invocations of one schedule, of which one is
enough to be late.  In `Dashboard`, `MaxVersion` 2 gives an update before and one after
any read, a batch of two records and a batch beside a pending record; the second
connection id lets a dashboard reconnect while the first is still in the table.
Dashboards and robots touch each other only in the loop over the connections, which
takes them in any order.  In `DashboardPage` one change gives a state before and after
everything that is read, and a second visit a socket that has outlived its page; a third
could only add another such socket; the failure lets an update be repeated, or a page wait for a
state that never comes.  `MaxWire` bounds the messages on a wire to which an update is added: with one,
a state can stand behind an update, two updates (an old one again, or a new one) behind a state.
In `Commands` three commands are a start, a stop and
one that overtakes or is sent again with them.  In `Telemetry` two invocations are enough
for one reading to overtake another, since each writes one item of each table, and the
proofs cover any number.  `OtaJobs` is
checked with two jobs because its hazard is an old job after a new one, and with two
drops because the second can send again what the first already did.  Its fault
counters (`MaxDrops`, `MaxExpiries`, `MaxCrashes`) and `Window`, the number of
messages handled and not yet acknowledged, are what keeps it finite.  `ota_jobs_faults` has a
`Window` of one, since every combination of its four kinds of faults is in one run: a drop then sends the
last handled message again, or none.  `ota_jobs` has two.
`SettlesOnNewest` speaks of behaviours in which the session and the process live:
after an expiry the message that would bring the newer job again is gone, and a new
process starts with the factory firmware; an old job can then be the last one applied.

*Deadlock* is not checked for `OtaJobs`, `OtaRecords` and `Schedules`: when all jobs
are done and the fault counters used up, or all schedules deleted, nothing has to
happen any more.  The other modules have no state without a next step.

*Fairness.*  `RobotState`: weak fairness of the tick (`run_forever` is an endless
loop), none of commands or OTA jobs.  `RobotThreads`: of the main thread and of
a callback that has begun.  `OtaJobs`: of the service, the callback thread, the
restart (docker's `unless-stopped`) and awscrt's reconnect; none of faults or of
new jobs.  `Commands`: of the callback thread, the restart, the reconnect and the
subscription; none of the operators, the schedules, or the robot's own work, so `StopWorks`
does not wait for a room to end.  `Telemetry`: invocations end, and Lambda invokes the processor
for every message in the end, also while repeats of others keep it busy (strong fairness);
that the robot goes on publishing is the premise of `TableCatchesUp`.  `OtaRecords`: the dashboard lists the jobs every three seconds, a
request that goes on ends, and IoT Jobs answers a call that is made again and
again; the strong fairness says that aborts and failed calls are not for ever.
`Schedules` (`RetrySpec`, used by `DeletionCompletes` only): the calls of a
request do not fail for ever, and an operator deletes again what is still listed.
The second is an assumption about people, since nothing in the code retries.
`Dashboard`: Lambda runs what is due; DynamoDB deletes expired items; the browser
reconnects when its timer runs out and takes up what reaches it.  API Gateway closes
every connection in the end (after ten idle minutes or two hours, whatever the code
does), but not each one before it has been served: strong fairness of the handshake
and `onopen`, of a scan of the robots on the open connection that returns what there is, and of posting
such a state.  Eventual consistency gives just that: a scan may be late at any time, but not each one for
ever.  No fairness of updates, of failures, or of late scans.  `DashboardPage`: the same of the socket of the page that is shown, none
of what the sockets of earlier visits do, of fetching or of posted updates.  That no socket is closed
for ever just before it would have been told the state is said of the state's place on the wire: strong
fairness of taking up a message while a state stands at place *i*, for each *i* a wire can have.

## Proofs

| Theorem | Assumes | Says |
|---|---|---|
| `RobotProofs!TypeCorrect` | constants' assumptions | types, speed within 0 to 2 m/s |
| `RobotProofs!SafeAlways` | | `HomewardBound`, `ChargingAtDock`, `CleaningOnCourse`, `StandsStill` |
| `RobotProofs!StaysOnCourse` | | `OnCourse` |
| `RobotProofs!BatteryStaysInScale` | the clock does not step back | `BatteryInScale` |
| `RobotProofs!RobotNeverTeleports` | the same, some elapsed time | `NoTeleport` |
| `RobotProofs!RobotImplementsLifecycle` | the same | the refinement |
| `RobotProofs!ThreadsTypeCorrect` | constants' assumptions | `TTypeOK` |
| `RobotProofs!ThreadsSafe` | | `ChargingAtDock`, `HomingPossible` |
| `RobotProofs!ThreadsChargeInDock` | the clock does not step back | `ChargesOnlyInDock` |
| `RobotProofs!ThreadsImplementShared` | the same | `ImplementsShared`: the refinement of `SharedLifecycle` |
| `OtaJobsProofs!TypeCorrect` | constants' assumptions | types |
| `OtaJobsProofs!OutcomesAreTrue` | | `OutcomeIsTrue` |
| `OtaJobsProofs!JobsAreAQueue` | | the refinement of `JobQueue` |
| `OtaJobsProofs!NewestSettles` | | `SettlesOnNewest` |
| `OtaJobsProofs!QueueIsAttended` | | `QueueAttended` |
| `OtaRecordsProofs!TypeCorrect` | `None` is no status | types |
| `OtaRecordsProofs!RecordsAreTrue` | | `RecordedOutcomeIsTrue` |
| `OtaRecordsProofs!StoresStayInAgreement` | | `StoresAgree` |
| `OtaRecordsProofs!RecordedOutcomesStay` | | `OutcomesStay`, what `RecordsConverge` needs besides fairness |
| `SchedulesProofs!TypeCorrect` | `None` is no id | types |
| `SchedulesProofs!SchedulesConsistent` | | `StoresAgree` |
| `SchedulesProofs!DeletedSchedulesStayQuiet` | | `DeletedStaysQuiet` |
| `SchedulesProofs!DeletionCanBeRepeated` | | `CutOffIsListed`, what `DeletionCompletes` needs besides fairness |
| `SchedulesProofs!NothingComesBack` | | `DeletionsTakeAway`, the same |
| `CommandsProofs!TypeCorrect` | constants' assumptions | types |
| `CommandsProofs!LastCommandSettles` | | `SettlesOnLast` |
| `CommandsProofs!NoCommandVanishes` | | `Accounted`, what `CommandsArrive` needs besides fairness |
| `CommandsProofs!LastWordIsComing` | | `LastWordComes`, what `StopWorks` needs besides fairness |
| `CommandsProofs!ReadyIsSubscribed` | | `NeverDeaf`, what `HeardAgain` needs besides fairness |
| `CommandsProofs!NothingLostWhileReady` | | `KeptWhileReady` |
| `TelemetryProofs!TypeCorrect` | constants' assumptions | types |
| `TelemetryProofs!HistoryIsTrue` | the clock does not step back | `HistoryKept`, which is `HistoryInOrder` and `SecondsRecorded` |
| `TelemetryProofs!TableStays` | | `StaysCaughtUp`, what `TableCatchesUp` needs besides fairness |
| `DashboardProofs!TypeCorrect` | constants' assumptions | types |
| `DashboardProofs!UpdatesInOrder` | | `WireInOrder` |
| `DashboardProofs!NoUpdateMissed` | | `NothingMissed` |
| `DashboardProofs!AllIsTold` | | `WellInformed`, the two together |
| `DashboardProofs!DashboardImplementsFeed` | | `ImplementsFeed` |
| `DashboardProofs!EachRobotIsFed` | | for each robot, `Spec` implies the specification of its `Feed` |

The bounds of an instance (`MaxCommands`, `MaxDrops`, ...) are constants of the theorems too:
what is proved holds for all of their values.

*RobotState.*  None of the four safety invariants is inductive alone: the robot
keeps to its course only because no way into `CLEANING` leaves the old path, and
charges at its dock only because nothing moves it there.  Their conjunction
`Safe` is inductive given `TypeOK`.  It does not depend on the clock, so it holds
for negative elapsed times too.  `NoTeleport` needs `Safe`, to know that the
robot near its first waypoint is near the dock; the refinement needs it to know
that a cleaning robot is not low.

*RobotThreads.*  Types need `OnItsWay`, that a `START_CLEANING` about to take its path
knows its room.  The inductive invariant `TInv` adds to the properties what the writes
of a late helper rely on.  `ChargingInDock`: while a robot charges, the tick sleeps or
is in `_tick_charging`, and such a tick finds it in the dock, whatever status the
callbacks have given it since.  `HomingUndisturbed`: a charging tick that runs over a
homing robot finds no `START_CLEANING` under way, so a robot it has stopped keeps the
dock as its only waypoint and is ticked by `_tick_returning` only.  What is proved of
`RobotState` is used where a callback is one of its steps.

The refinement of `SharedLifecycle` needs little of this: that the battery never recovers but in
`_tick_charging` is what each step shows, and that the end of a room is a step of a robot that cleans
is the test of `_cmd_stop_cleaning`, made again there.  Nothing stronger could be proved: the abstract
`RunLow` and `ReachDock` do not ask for the status, because the code does not.

*OtaRecords.*  `StoresAgree` is `RecordedExists` (a record has an execution, an execution a
manifest) and `ConfirmedIsRecorded` (a confirmed job has all its records).  The invariants say nothing of the requests, which carry what
they read from one call to the next.  The inductive invariant `IInv` adds
`CarriesTruth`, that what a request carries is still true when it is used: the job
it is about to create is unknown to IoT Jobs, the items it goes through have an
execution, the item to be written had not ended when it was scanned, a terminal answer is still the
answer; and `OwnJob`, that no two
requests create the same job.  `TruthKept` shows that another request's step,
which never undoes a manifest, an execution, its end or a record (`Kept`), leaves
that true.  Each action is then shown to be such a step.

`RecordsConverge` says that an outcome, once recorded, stays in the end.  Without fairness that is
`OutcomesStay`: if the record shows the outcome and no request is about to write anything else
(`Outdated`), no request ever will be.  A listing that scanned the table before the execution ended asks
IoT Jobs afterwards and is told the truth, and by `CarriesTruth` no creation can begin the execution
or its record anew.

*Schedules.*  `StoresAgree` is `ConfirmedFires`, `FiringIsListed` and `DeletedIsGone`.
`IInv` adds to these what the requests under way know:
`Known`, that only drawn ids are anywhere; `OnCourse`, that each request finds the
stores as its last call left them, as far as the others allow; and `OneCreator`,
that no two requests create the same schedule.  `DeletedStaysQuiet` follows, since
only a registered rule fires.  So does what deletions that are cut off leave behind: a creation that still has
writes to make is of a schedule that nobody could have found, so that no deletion is undone
(`DeletionsTakeAway`); and as the rule goes first, a schedule that still fires is still listed
(`CutOffIsListed`), and can be deleted again.

*Qos1.*  The lemmas say what `Put`, `Handled` and `Resent` do to a channel whose messages
all belong to some set.  It stays such a channel, and its last message is the one last put.
Every message keeps its place, but for a shift when acknowledged ones are forgotten
(`Shifted`), and none of those still to be handled gets lost (`Unhandled`).  The proofs of
`OtaJobs` and `Commands` speak of channels through these lemmas only.

*OtaJobs.*  An outcome in IoT Jobs comes from a message, which may be a copy.  `IInv`
says that every update on its way, new or sent again, is true; that the agent reports only
jobs that it has applied or that cannot be applied; and that no job is both.

A job whose success could not be published is the one case in which an end says less than the
truth: `OutcomeIsTrue` therefore binds `SUCCEEDED` to `applied`, and `FAILED` only to jobs that were
applied or cannot be.

`SettlesOnNewest` says nothing until everything is handled, so its invariant has to
foresee what the robot will settle on.  `OInv`, which holds under all faults, is about order:
executions are created and started in the order of their jobs, each when all before it have
ended; nothing on its way speaks of a job that was not started; and the messages of the
session name the jobs in that order, handled or not, since nothing is taken out of it but
at its front.  `NInv` adds, as long as no session expires and no process dies: either a
message still to be handled names a job as new as any the robot has taken, or the robot runs the
newest (`Newest`); and behind every handled message that can be sent again there is one that
names a job as new as the firmware that runs (`Recurs`), so that whatever suffix a drop sends again, it
ends with the newest.  An induction over the number of drops is not needed.  `OInv` and `NInv`
were checked with TLC on three small instances before they were proved.

The refinement of `JobQueue` needs both.  By `OInv` the oldest queued job is handed out when all before
it have ended, and an update is about a started job; by `IInv` an end is the true one, and a copy
of a message that makes the robot apply a job after its end changes nothing of `applied`.

`QueueAttended` is what remains of `QueuedStarts` without fairness.  Its strengthening is only
`Served`, that the session is there while the robot runs; the work lies in what each step hands over
to the next: a request to its answer, an answer to the job in hand, the end of that job to the
notification of the rest, and a process that dies to the request of the one that replaces it.

*Commands.*  `SettlesOnLast` speaks of an empty inbox, and becomes true when the
last message is handled.  `IInv` adds `SessionKept`: as long as no session has expired, the
subscription, once made, keeps every message, and the last message in the inbox, handled or not, is the
latest command, so that what is sent again also ends with it; and `StartsIdle`: a robot whose
commands are lost unheard is a new one, and idle.  `WorkKeepsSettled` shows that nothing
the robot does by itself, a tick that read its status long ago included, makes it clean or accept a
START_CLEANING.  Since the invariant knows even the number
of the last message, it also says what a robot that has *not* settled can count on: the latest command
itself is waiting for it (`LastWordComes`), not only an older copy.

`NeverDeaf` is inductive alone; that it can be is due to `OnConnectionResumed`, which makes the robot ready
only when the session was kept.  From it follows `KeptWhileReady`: the three ways in which a command gets lost
all need a robot that is not connected or not ready.

`Accounted` says where the commands are: of the numbers 1 to `issued` each is in `heard`, in
`lost`, or that of a message which the session has still to hand over.  It is inductive given the
types.  `CommandsArrive` follows from it by the fairness of the callback thread, which is the
part TLC checks.

*Telemetry.*  The invariant looks at the readings that are anywhere: waiting, in an invocation, or
in a row.  None is ahead of the robot (`NotAhead`), a later second never has an earlier state
(`Ordered`), and a row belongs to its reading's second (`OwnSecond`).  Every step but
`Publish` only moves readings about (`FewerReadings`).

The table can fall behind at any time, so `TableCatchesUp` rests on when it no longer does: once it shows
the robot's state and no other state is waiting or about to be put (`CaughtUp`), neither a repeat nor a
failure nor a late invocation changes that until the robot does.

*Dashboard.*  Two chains lead from the table to a socket, the stream with its batch and the
state read for a subscription, and the properties say that they do not contradict each other.
`IInv` has `Known`, that nothing in either is newer than the table; `StreamInOrder`; and, for
`WireInOrder`, `WireBehind`: an update on a socket is older than every record of its
robot that has not had its turn there.  `OneOwner`, that no two dashboards share a connection,
says whose socket a post reaches.  `NothingMissed` is strengthened to `Told`, which also
speaks of a subscription whose state has been read and not yet posted: for each robot that state has the
newest version, or the version was sent, or its record is still to come to that connection.  The scan of the
connections at the start of a batch is where this breaks if it comes late: it must see whoever has read
the table before.  `behind` is made of exactly these cases (`BatchBegins`), and whoever is in it stays there
until told of the newest versions (`StaysBehind`); `Told` is inductive for all the others, so that no order of
steps makes a dashboard miss an update but a late scan.  `IInv` was checked with TLC on two robots and one dashboard before it was proved.

The refinement of `Feed` holds under failures too, where most of `IInv` says nothing.  What it needs is
`StreamGapless`: behind any place of the stream the records of a robot are its newest puts, all of them
and in order.  Then the version `Reached` is defined by the place alone (`ReachedFacts`), the record whose turn
it is says it, the end of a turn or of a batch can only move it forward, and the end of a failed batch only
back.  `NotAsked` says that a connection whose socket is not open has no request, so that the
state posted to a socket was read after it had opened.  Each action is then a step of `Feed` or invisible
(`PostIsSeen`, `RequestIsSeen`, `SocketStepIsSeen`, `TableStepIsSeen`, ...).

*Model-checked only:* liveness everywhere, which the provers cannot reach (the
safety it rests on is proved for `QueuedStarts`, `CommandsArrive`, `StopWorks`, `HeardAgain`,
`DeletionCompletes`, `RecordsConverge` and `TableCatchesUp`, and in `SafeAlways` and `ThreadsSafe` for
`OnlyIdleLasts` and `DrivingEnds`); the definitions of `FloorPlan`, as assumptions; and `DashboardPage`, whose
one invariant is its types: what matters of it, `ListIsShown` and `DetailIsShown`, is liveness, and the
order and truth of the messages it takes up are those of `Feed`, where they are proved.

## What the models show beyond the properties

Two runs end in a violation, of what the code's documents say (`PROJECT.json`,
findings).  Modelling showed further behaviour, which follows from the code as it is:

* `JobsFinish` does not survive a crash: the restart asks for queued jobs only
  (`_on_pending_jobs_response`), and the job the process died on stays `IN_PROGRESS`
  until somebody ends its execution.  `ota_jobs` therefore has no crash, and
  `QueuedStarts` is what `ota_jobs_faults` checks.
* A job that was applied can be reported `FAILED`: the update that says `SUCCEEDED` is published inside the
  `try` of `_on_next_job`, whose handler reports `FAILED` of every exception.
* A RETURN_TO_DOCK that is handled inside a tick can be overwritten: the tick has read `CLEANING` and
  finds the battery low, and leaves `LOW_BATTERY` with speed zero behind.  The next tick sends the robot home
  again.  `SettlesOnLast` therefore promises only that such a robot does not clean.
* A dashboard can miss an update although nothing failed, since both tables are scanned with eventually
  consistent reads; it shows the older state until the next update, or until its socket is closed and opened
  again.
* Commands the session kept for a robot can be lost when it restarts, as they arrive before the
  callback is registered (`Unheard`); `docs/technical-overview.md:161` says of QoS 1 that nothing
  is lost (消失なし).  `CommandsArrive` counts them as lost.
* The table does not always hold the newest reading, which `docs/technical-overview.md:86` and
  `:325` say it does: a robot that falls silent just after two invocations have
  overtaken each other leaves the older one there.  `TableCatchesUp` needs a robot that goes on.
* The hook of a page that was left opens a socket of its own, for as long as the tab lives.
* `docs/technical-overview.md:160` gives telemetry QoS 0 and `:327` a week in the history; the
  code publishes at QoS 1 and keeps a day.

## Not modelled

`DashboardPage` leaves out the points that `handleMessage` appends to the chart, and the
answers they are appended to.  Left out for good: driving in two dimensions, the room
labels on the way and the wording of telemetry; the expiry of rows of the history; a clock that
steps back under `Telemetry`; configuration and certificates (sequential start-up code);
pages and components of the dashboard, but for what the command panel offers;
`timestream_service.py`,
`scheduler_service.toggle_schedule` and the other functions nobody calls; the
Terraform declarations, except for what they say of triggers and retries.

## Plan

Done: all modules listed above; the proofs of every safety property that the runs check, but for
the types of `DashboardPage`; four refinements, `RobotState` of `RobotLifecycle`, `RobotThreads` of `SharedLifecycle`,
`OtaJobs` of `JobQueue` and `Dashboard` of `Feed`; the safety core of nine liveness properties.  What is left:

1. `OtaRecords` shown to work over `OtaJobs`, whose executions it takes as external.
2. The chart's points in `DashboardPage`: they are appended to an answer that another answer may replace.
3. The telemetry of several robots in one table, of which `Telemetry` has one: the invocations of different
   robots touch different items, so nothing new is expected.
