------------------------------ MODULE OtaJobs -------------------------------
(***************************************************************************)
(* OTA jobs between AWS IoT Jobs and one robot: the jobs part of           *)
(* emulator/robot/mqtt_client.py, with the broker, the persistent MQTT     *)
(* session and the job executions it talks to.                             *)
(*                                                                         *)
(* Messages travel at QoS 1.  What the robot has yet to send lives in its  *)
(* process and dies with it; what the broker has for the robot lives in    *)
(* its session.                                                            *)
(***************************************************************************)
EXTENDS Qos1, Integers, FiniteSets, FiniteSetsExt

CONSTANTS
    Jobs,          \* positive numbers, in the order of their creation
    BadJobs,       \* jobs whose document apply_ota cannot use
    Unreported,    \* jobs whose report of success may raise an exception
    MaxDrops,      \* how often the connection drops
    MaxExpiries,   \* how often the broker gives the session up meanwhile
    MaxCrashes     \* how often the robot's process dies

ASSUME JobsAssumption == IsFiniteSet(Jobs) /\ Jobs \subseteq Nat \ {0}
ASSUME BadJobsAssumption == BadJobs \subseteq Jobs /\ Unreported \subseteq Jobs
ASSUME BoundsAssumption ==
    MaxDrops \in Nat /\ MaxExpiries \in Nat /\ MaxCrashes \in Nat

VARIABLES
    execution,  \* IoT Jobs: the status of each job's execution on this robot
    inbox,      \* the session's messages for the robot
    subscribed, \* the session holds the robot's jobs subscriptions
    outbox,     \* the robot's requests
    link,       \* the MQTT connection is up
    process,    \* "off", "starting" (before _subscribe_jobs) or "running"
    agent,      \* the callback thread: where it is in _on_next_job, for which job
    firmware,   \* the job that set firmware_version and max_speed last, 0 if none
    applied,    \* history: the jobs apply_ota has been called for
    faults      \* drops, expiries and crashes so far

robot == <<process, agent, firmware, applied>>
vars == <<execution, inbox, subscribed, outbox, link, robot, faults>>

Terminal == {"SUCCEEDED", "FAILED"}
JobStatus == {"none", "QUEUED", "IN_PROGRESS"} \cup Terminal

\* Messages to the robot.
Notify(queued) == [type |-> "notify", queued |-> queued]
Pending(queued) == [type |-> "pending", queued |-> queued]
NextJob(j) == [type |-> "next", job |-> j]
NoJob == 0

\* Requests of the robot.
GetPending == [type |-> "getPending"]
StartNext == [type |-> "startNext"]
Update(j, st) == [type |-> "update", job |-> j, to |-> st]

Idle == [at |-> "idle", job |-> NoJob]

Init ==
    /\ execution = [j \in Jobs |-> "none"]
    /\ inbox = EmptyChannel /\ outbox = EmptyChannel
    /\ subscribed = FALSE
    /\ link = FALSE
    /\ process = "off"
    /\ agent = Idle
    /\ firmware = 0
    /\ applied = {}
    /\ faults = [drops |-> 0, expiries |-> 0, crashes |-> 0]

----------------------------------------------------------------------------
(* AWS IoT Jobs.                                                           *)

With(st, ex) == {j \in Jobs : ex[j] = st}
AnyQueued(ex) == With("QUEUED", ex) # {}

\* The broker keeps a message for the robot only if the session subscribes to it.
Publish(m) == inbox' = IF subscribed THEN Put(inbox, m) ELSE inbox

\* create_ota_job: the list of pending executions grows, and the robot is told.
CreateJob ==
    /\ With("none", execution) # {}
    /\ LET j == Min(With("none", execution))
       IN  execution' = [execution EXCEPT ![j] = "QUEUED"]
    /\ Publish(Notify(TRUE))
    /\ UNCHANGED <<subscribed, outbox, link, robot, faults>>

AnswerGetPending ==
    /\ Publish(Pending(AnyQueued(execution)))
    /\ UNCHANGED execution

\* Mutant: the latest of the queued executions first.
AnswerStartNextLatest ==
    LET started == With("IN_PROGRESS", execution)
        queued == With("QUEUED", execution)
        j == CASE started # {} -> Min(started)
               [] started = {} /\ queued # {} -> Max(queued)
               [] OTHER -> NoJob
    IN  /\ Publish(NextJob(j))
        /\ execution' = IF j = NoJob THEN execution
                                     ELSE [execution EXCEPT ![j] = "IN_PROGRESS"]

\* An execution already in progress is handed out again before a queued one.
AnswerStartNext ==
    LET started == With("IN_PROGRESS", execution)
        queued == With("QUEUED", execution)
        j == CASE started # {} -> Min(started)
               [] started = {} /\ queued # {} -> Min(queued)
               [] OTHER -> NoJob
    IN  /\ Publish(NextJob(j))
        /\ execution' = IF j = NoJob THEN execution
                                     ELSE [execution EXCEPT ![j] = "IN_PROGRESS"]

\* A terminal execution refuses updates; reaching one shortens the pending list.
AnswerUpdate(j, st) ==
    IF execution[j] \in Terminal
      THEN UNCHANGED <<execution, inbox>>
      ELSE /\ execution' = [execution EXCEPT ![j] = st]
           /\ IF st \in Terminal THEN Publish(Notify(AnyQueued(execution')))
                                 ELSE UNCHANGED inbox

ServeRequest ==
    /\ link /\ HasNext(outbox)
    /\ LET m == NextOf(outbox)
       IN  CASE m.type = "getPending" -> AnswerGetPending
             [] m.type = "startNext" -> AnswerStartNext
             [] m.type = "update" -> AnswerUpdate(m.job, m.to)
    /\ outbox' = Handled(outbox)
    /\ UNCHANGED <<subscribed, link, robot, faults>>

----------------------------------------------------------------------------
(* The robot.                                                              *)

\* The callbacks run one at a time, on messages whose handler is registered.
Receives(type) ==
    /\ link /\ process = "running" /\ agent = Idle
    /\ HasNext(inbox) /\ NextOf(inbox).type = type
    /\ inbox' = Handled(inbox)
    /\ UNCHANGED <<execution, subscribed, link, process, firmware, applied, faults>>

\* _on_pending_jobs_response looks at the queued jobs only, not at the one that an
\* earlier process may have left in progress.
OnPendingJobsResponse ==
    /\ Receives("pending")
    /\ outbox' = IF NextOf(inbox).queued THEN Put(outbox, StartNext) ELSE outbox
    /\ UNCHANGED agent

\* Mutant: the notification starts nothing.
OnJobsChangedIgnored ==
    /\ Receives("notify")
    /\ UNCHANGED <<agent, outbox>>

OnJobsChanged ==
    /\ Receives("notify")
    /\ outbox' = IF NextOf(inbox).queued THEN Put(outbox, StartNext) ELSE outbox
    /\ UNCHANGED agent

\* Mutant: no test for an empty execution.
OnNextJobUnchecked ==
    /\ Receives("next")
    /\ outbox' = Put(outbox, Update(NextOf(inbox).job, "IN_PROGRESS"))
    /\ agent' = [at |-> "apply", job |-> NextOf(inbox).job]

\* _on_next_job: mark the job, apply it, report it.
OnNextJob ==
    /\ Receives("next")
    /\ LET j == NextOf(inbox).job
       IN  IF j = NoJob
             THEN UNCHANGED <<agent, outbox>>
             ELSE /\ outbox' = Put(outbox, Update(j, "IN_PROGRESS"))
                  /\ agent' = [at |-> "apply", job |-> j]

ApplyOta ==
    /\ agent.at = "apply"
    /\ agent' = [agent EXCEPT !.at = "report"]
    /\ IF agent.job \in BadJobs
         THEN UNCHANGED <<firmware, applied>>
         ELSE firmware' = agent.job /\ applied' = applied \cup {agent.job}
    /\ UNCHANGED <<execution, inbox, subscribed, outbox, link, process, faults>>

\* Mutant: SUCCEEDED also after an exception.
ReportJobSucceeded ==
    /\ agent.at = "report"
    /\ outbox' = Put(outbox, Update(agent.job, "SUCCEEDED"))
    /\ agent' = Idle
    /\ UNCHANGED <<execution, inbox, subscribed, link, process, firmware, applied, faults>>

\* FAILED after an exception in the try block: of the document, or of the report of
\* success itself, which then says FAILED of a job that has been applied.
ReportJob ==
    /\ agent.at = "report"
    /\ \E st \in Terminal :
          /\ st = "SUCCEEDED" => agent.job \notin BadJobs
          /\ st = "FAILED" => agent.job \in BadJobs \cup Unreported
          /\ outbox' = Put(outbox, Update(agent.job, st))
    /\ agent' = Idle
    /\ UNCHANGED <<execution, inbox, subscribed, link, process, firmware, applied, faults>>

\* connect, up to its subscriptions; a persistent session starts sending at once.
Connect ==
    /\ process = "off"
    /\ process' = "starting"
    /\ link' = TRUE
    /\ UNCHANGED <<execution, inbox, subscribed, outbox, agent, firmware, applied, faults>>

\* A message that arrives before its callback is registered is acknowledged and lost.
Unheard ==
    /\ link /\ process = "starting" /\ HasNext(inbox)
    /\ inbox' = Handled(inbox)
    /\ UNCHANGED <<execution, subscribed, outbox, link, robot, faults>>

\* Mutant: the pending jobs are not asked for.
SubscribeJobsOnly ==
    /\ link /\ process = "starting"
    /\ process' = "running"
    /\ subscribed' = TRUE
    /\ UNCHANGED <<execution, inbox, outbox, link, agent, firmware, applied, faults>>

SubscribeJobs ==
    /\ link /\ process = "starting"
    /\ process' = "running"
    /\ subscribed' = TRUE
    /\ outbox' = Put(outbox, GetPending)
    /\ UNCHANGED <<execution, inbox, link, agent, firmware, applied, faults>>

\* awscrt reconnects by itself.  _on_connection_resumed subscribes to the commands
\* again if the session is gone, and to nothing else.
OnConnectionResumed ==
    /\ process = "running" /\ ~link
    /\ link' = TRUE
    /\ UNCHANGED <<execution, inbox, subscribed, outbox, robot, faults>>

----------------------------------------------------------------------------
(* What goes wrong.                                                        *)

\* The process keeps nothing: it restarts with the factory firmware.
LoseProcess ==
    /\ process' = "off"
    /\ agent' = Idle
    /\ firmware' = 0
    /\ outbox' = EmptyChannel
    /\ inbox' \in Resent(inbox)
    /\ link' = FALSE
    /\ UNCHANGED <<execution, subscribed, applied>>

\* While the robot runs, awscrt keeps its requests; while it subscribes, the time-out
\* of the subscription ends the process, which docker restarts.
DropLink ==
    /\ link /\ faults.drops < MaxDrops
    /\ faults' = [faults EXCEPT !.drops = @ + 1]
    /\ IF process = "starting"
         THEN LoseProcess
         ELSE /\ link' = FALSE
              /\ inbox' \in Resent(inbox)
              /\ outbox' \in Resent(outbox)
              /\ UNCHANGED <<execution, subscribed, robot>>

\* The broker forgets the session of a robot that stays away for too long.
ExpireSession ==
    /\ ~link /\ subscribed /\ faults.expiries < MaxExpiries
    /\ faults' = [faults EXCEPT !.expiries = @ + 1]
    /\ subscribed' = FALSE
    /\ inbox' = EmptyChannel
    /\ UNCHANGED <<execution, outbox, link, robot>>

Crash ==
    /\ process # "off" /\ faults.crashes < MaxCrashes
    /\ faults' = [faults EXCEPT !.crashes = @ + 1]
    /\ LoseProcess

----------------------------------------------------------------------------

Work ==
    \/ ServeRequest
    \/ OnPendingJobsResponse \/ OnJobsChanged \/ OnNextJob \/ ApplyOta \/ ReportJob
    \/ Connect \/ Unheard \/ SubscribeJobs \/ OnConnectionResumed

Next == CreateJob \/ Work \/ DropLink \/ ExpireSession \/ Crash

Spec == Init /\ [][Next]_vars

\* The service answers, the callback thread runs, docker restarts the process and
\* awscrt reconnects.  Nobody has to create a job.
FairSpec ==
    /\ Spec
    /\ WF_vars(ServeRequest)
    /\ WF_vars(OnPendingJobsResponse \/ OnJobsChanged \/ OnNextJob)
    /\ WF_vars(ApplyOta \/ ReportJob)
    /\ WF_vars(Connect \/ SubscribeJobs \/ OnConnectionResumed)

----------------------------------------------------------------------------
(* Properties.                                                             *)

RobotMessages == {Notify(q) : q \in BOOLEAN} \cup {Pending(q) : q \in BOOLEAN}
                   \cup {NextJob(j) : j \in Jobs \cup {NoJob}}
Requests == {GetPending, StartNext}
              \cup {Update(j, st) : j \in Jobs, st \in {"IN_PROGRESS"} \cup Terminal}

TypeOK ==
    /\ execution \in [Jobs -> JobStatus]
    /\ inbox \in ChannelOf(RobotMessages) /\ inbox.done <= Len(inbox.msgs)
    /\ outbox \in ChannelOf(Requests) /\ outbox.done <= Len(outbox.msgs)
    /\ subscribed \in BOOLEAN /\ link \in BOOLEAN
    /\ process \in {"off", "starting", "running"}
    /\ agent \in [at : {"idle", "apply", "report"}, job : Jobs \cup {NoJob}]
    /\ firmware \in Jobs \cup {0}
    /\ applied \subseteq Jobs
    /\ faults \in [drops : 0..MaxDrops, expiries : 0..MaxExpiries, crashes : 0..MaxCrashes]

\* An execution that ends as SUCCEEDED was applied, and one that ends as FAILED had a bad
\* document or was applied and failed in reporting it: through every redelivery, duplicate
\* request and restart no job ends that was not tried.
OutcomeIsTrue ==
    \A j \in Jobs : /\ execution[j] = "SUCCEEDED" => j \in applied
                    /\ execution[j] = "FAILED" => j \in applied \cup BadJobs

\* When everything has been answered and handled, the robot runs the newest firmware
\* it ever applied, although a resent job puts an older one back for a while: however
\* often the link drops, as long as the session and the process live.
Quiet == ~HasNext(inbox) /\ ~HasNext(outbox) /\ agent = Idle
SettlesOnNewest ==
    Quiet /\ applied # {} /\ faults.expiries = 0 /\ faults.crashes = 0
        => firmware = Max(applied)

\* A queued job never waits for nothing: while the robot runs there is a request on its way
\* that asks for it, a message that will make the robot ask, or a job in the robot's hands
\* whose end will be announced, whatever was lost when an earlier process died.
Asks == {GetPending, StartNext} \cap Unhandled(outbox) # {}
ToldToAsk == {Notify(TRUE), Pending(TRUE)} \cap Unhandled(inbox) # {}
InHand(j) ==
    \/ NextJob(j) \in Unhandled(inbox)
    \/ agent.at # "idle" /\ agent.job = j
    \/ \E st \in Terminal : Update(j, st) \in Unhandled(outbox)
QueueAttended ==
    AnyQueued(execution) /\ process = "running" /\ faults.expiries = 0 =>
        Asks \/ ToldToAsk \/ \E j \in With("IN_PROGRESS", execution) : InHand(j)

\* No job is left in the queue, through drops and restarts of the robot, as long as
\* the broker keeps the session.
QueuedStarts ==
    \A j \in Jobs :
        execution[j] = "QUEUED" ~> execution[j] # "QUEUED" \/ faults.expiries > 0

\* Every job created comes to an end (docs/technical-overview.md:497 and 500: a robot
\* that was offline is served again when it is back).
JobsFinish ==
    \A j \in Jobs : execution[j] = "QUEUED" ~> execution[j] \in Terminal

\* Seen from the table of executions and from the robot's settings, messages sent again,
\* lost sessions and restarts do not show: the jobs are a queue, served in the order of
\* their creation, and a job whose end is known is not applied for a first time any more.
Queue == INSTANCE JobQueue
ImplementsQueue == Queue!Spec
=============================================================================
