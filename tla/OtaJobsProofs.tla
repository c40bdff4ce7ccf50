--------------------------- MODULE OtaJobsProofs ----------------------------
(***************************************************************************)
(* For any number of jobs, drops, expiries, crashes and unacknowledged     *)
(* messages: OtaJobs is type correct, reports no false success, settles on *)
(* the newest firmware and never leaves a queued job unattended.           *)
(*                                                                         *)
(* None of the invariants is inductive.  OutcomeIsTrue needs that whatever *)
(* update is on its way is a true one, be it new or sent again, and that   *)
(* the agent reports only what it has applied.  SettlesOnNewest needs the  *)
(* order in which the jobs named in the messages were and will be handled, *)
(* in which a resent message goes back.  QueueAttended needs that the      *)
(* session is there while the robot runs, so that what is published        *)
(* reaches it.                                                             *)
(***************************************************************************)
EXTENDS OtaJobs, Qos1Proofs, WellFoundedInduction

Faults == [drops : 0..MaxDrops, expiries : 0..MaxExpiries, crashes : 0..MaxCrashes]
Agents == [at : {"idle", "apply", "report"}, job : Jobs \cup {NoJob}]

\* TypeOK, by names, and what it does not say of the agent.
Typed ==
    /\ execution \in [Jobs -> JobStatus]
    /\ WellFormed(inbox, RobotMessages) /\ WellFormed(outbox, Requests)
    /\ subscribed \in BOOLEAN /\ link \in BOOLEAN
    /\ process \in {"off", "starting", "running"}
    /\ agent \in Agents
    /\ firmware \in Jobs \cup {0} /\ applied \subseteq Jobs
    /\ faults \in Faults

BusyWithJob == agent.at # "idle" => agent.job \in Jobs

\* An outcome that may be reported of a job.
TrueOf(j, st) ==
    /\ st = "SUCCEEDED" => j \in applied
    /\ st = "FAILED" => j \in applied \cup BadJobs
TrueRequests == {m \in Requests : m.type = "update" => TrueOf(m.job, m.to)}

IInv ==
    /\ WellFormed(outbox, TrueRequests)
    /\ \A j \in Jobs : TrueOf(j, execution[j])
    /\ agent.at = "report" => agent.job \in applied \cup BadJobs
    /\ applied \cap BadJobs = {}

Assumptions ==
    /\ WindowAssumption
    /\ Jobs \subseteq Nat \ {0} /\ BadJobs \subseteq Jobs
    /\ MaxDrops \in Nat /\ MaxExpiries \in Nat /\ MaxCrashes \in Nat

LEMMA Assumed == Assumptions
BY WindowAssumption, JobsAssumption, BadJobsAssumption, BoundsAssumption DEF Assumptions

LEMMA TypeFacts == TypeOK <=> Typed
BY DEF TypeOK, Typed, WellFormed, Faults, Agents

----------------------------------------------------------------------------
\* The first of some jobs is one of them, and none of them comes before it.
LEMMA MinFacts ==
    ASSUME NEW S, S \subseteq Jobs, S # {}
    PROVE  Min(S) \in S /\ \A y \in S : Min(S) <= y
<1>1. S \subseteq Nat
  BY Assumed DEF Assumptions
<1>2. \E x \in S : \A y \in S : ~ (<<y, x>> \in OpToRel(<, Nat))
  BY <1>1, NatLessThanWellFounded, WFMin
<1>3. \E x \in S : \A y \in S : x =< y
  <2>1. PICK x \in S : \A y \in S : ~ (<<y, x>> \in OpToRel(<, Nat))
    BY <1>2
  <2>2. \A y \in S : ~ (y < x)
    BY <1>1, <2>1 DEF OpToRel
  <2>3. \A y \in S : x =< y
    BY <1>1, <2>2
  <2>4. QED
    BY <2>3
<1>4. QED
  BY <1>3 DEF Min

LEMMA FaultsFacts ==
    ASSUME NEW f \in Faults
    PROVE  /\ f.drops < MaxDrops => [f EXCEPT !.drops = @ + 1] \in Faults
           /\ f.crashes < MaxCrashes => [f EXCEPT !.crashes = @ + 1] \in Faults
           /\ f.expiries < MaxExpiries => [f EXCEPT !.expiries = @ + 1] \in Faults
BY Assumed DEF Assumptions, Faults

LEMMA AgentFacts ==
    /\ Idle \in Agents /\ Idle.at = "idle"
    /\ \A j \in Jobs : [at |-> "apply", job |-> j] \in Agents
    /\ \A p \in Agents : p.at = "apply" => /\ [p EXCEPT !.at = "report"] \in Agents
                                           /\ [p EXCEPT !.at = "report"].job = p.job
BY DEF Idle, Agents

LEMMA MessageFacts ==
    /\ \A q \in BOOLEAN : Notify(q) \in RobotMessages /\ Pending(q) \in RobotMessages
    /\ \A j \in Jobs \cup {NoJob} : NextJob(j) \in RobotMessages
    /\ GetPending \in Requests /\ StartNext \in Requests
    /\ \A j \in Jobs, st \in {"IN_PROGRESS"} \cup Terminal : Update(j, st) \in Requests
BY DEF RobotMessages, Requests

\* What a message says.
LEMMA NextJobFacts ==
    ASSUME NEW m \in RobotMessages, m.type = "next"
    PROVE  m.job \in Jobs \cup {NoJob}
<1>1. \A q \in BOOLEAN : Notify(q).type # "next" /\ Pending(q).type # "next"
  BY DEF Notify, Pending
<1>2. \A j \in Jobs \cup {NoJob} : NextJob(j).job = j
  BY DEF NextJob
<1>3. QED
  BY <1>1, <1>2 DEF RobotMessages

LEMMA RequestFacts ==
    ASSUME NEW m \in Requests
    PROVE  /\ m.type \in {"getPending", "startNext", "update"}
           /\ m.type = "update" => m.job \in Jobs /\ m.to \in {"IN_PROGRESS"} \cup Terminal
BY DEF Requests, GetPending, StartNext, Update

----------------------------------------------------------------------------
(* Type correctness.                                                       *)

LEMMA PublishFacts ==
    ASSUME Typed, NEW m \in RobotMessages, Publish(m)
    PROVE  WellFormed(inbox, RobotMessages)'
<1>1. WellFormed(Put(inbox, m), RobotMessages)
  BY PutFacts DEF Typed
<1>2. QED
  BY <1>1 DEF Typed, Publish, WellFormed

\* What is put into the outbox, handled or sent again is still a request.
LEMMA ChannelFacts ==
    ASSUME Typed
    PROVE  /\ \A m \in Requests : WellFormed(Put(outbox, m), Requests)
           /\ HasNext(outbox) => /\ WellFormed(Handled(outbox), Requests)
                                 /\ NextOf(outbox) \in Requests
           /\ HasNext(inbox) => /\ WellFormed(Handled(inbox), RobotMessages)
                                /\ NextOf(inbox) \in RobotMessages
           /\ \A p \in Resent(inbox) : WellFormed(p, RobotMessages)
           /\ \A p \in Resent(outbox) : WellFormed(p, Requests)
BY PutFacts, HandledFacts, ResentFacts, Assumed DEF Typed, Assumptions

LEMMA ServedTyped ==
    ASSUME Typed, ServeRequest
    PROVE  WellFormed(inbox, RobotMessages)' /\ execution' \in [Jobs -> JobStatus]
<1> DEFINE m == NextOf(outbox)
<1>1. /\ m \in Requests /\ m.type \in {"getPending", "startNext", "update"}
      /\ m.type = "update" => m.job \in Jobs /\ m.to \in {"IN_PROGRESS"} \cup Terminal
  BY ChannelFacts, RequestFacts DEF ServeRequest
<1>2. CASE m.type = "getPending"
  <2>1. AnswerGetPending
    BY <1>2 DEF ServeRequest
  <2>2. QED
    BY <2>1, PublishFacts, MessageFacts DEF AnswerGetPending, AnyQueued, Typed
<1>3. CASE m.type = "startNext"
  <2>1. AnswerStartNext
    BY <1>3 DEF ServeRequest
  <2> DEFINE started == With("IN_PROGRESS", execution)
             queued == With("QUEUED", execution)
             j == CASE started # {} -> Min(started)
                    [] started = {} /\ queued # {} -> Min(queued)
                    [] OTHER -> NoJob
  <2>2. j \in Jobs \cup {NoJob}
    <3>1. started \subseteq Jobs /\ queued \subseteq Jobs
      BY DEF With
    <3>2. started # {} => Min(started) \in Jobs
      BY <3>1, MinFacts
    <3>3. queued # {} => Min(queued) \in Jobs
      BY <3>1, MinFacts
    <3>4. QED
      BY <3>2, <3>3
  <2>3. /\ Publish(NextJob(j))
        /\ execution' = IF j = NoJob THEN execution
                                     ELSE [execution EXCEPT ![j] = "IN_PROGRESS"]
    BY <2>1 DEF AnswerStartNext
  <2> HIDE DEF j
  <2>4. QED
    BY <2>2, <2>3, PublishFacts, MessageFacts DEF Typed, JobStatus
<1>4. CASE m.type = "update"
  <2>1. AnswerUpdate(m.job, m.to)
    BY <1>4 DEF ServeRequest
  <2>2. QED
    BY <1>1, <1>4, <2>1, PublishFacts, MessageFacts
       DEF AnswerUpdate, AnyQueued, Typed, JobStatus, WellFormed
<1>5. QED
  BY <1>1, <1>2, <1>3, <1>4

LEMMA NextKeepsTypes == Typed /\ BusyWithJob /\ [Next]_vars => (Typed /\ BusyWithJob)'
<1> SUFFICES ASSUME Typed, BusyWithJob, [Next]_vars
             PROVE  (Typed /\ BusyWithJob)'
  OBVIOUS
<1> USE DEF robot, Typed, BusyWithJob, WellFormed
<1>1. CASE CreateJob
  <2>1. With("none", execution) \subseteq Jobs /\ With("none", execution) # {}
    BY <1>1 DEF CreateJob, With
  <2>2. Min(With("none", execution)) \in Jobs
    BY <2>1, MinFacts
  <2>3. WellFormed(inbox, RobotMessages)'
    BY <1>1, PublishFacts, MessageFacts DEF CreateJob
  <2>4. QED
    BY <1>1, <2>2, <2>3 DEF CreateJob, JobStatus
<1>2. CASE ServeRequest
  <2>1. WellFormed(Handled(outbox), Requests)
    BY <1>2, ChannelFacts DEF ServeRequest
  <2>2. QED
    BY <1>2, <2>1, ServedTyped DEF ServeRequest
<1>3. CASE OnPendingJobsResponse \/ OnJobsChanged
  <2>1. WellFormed(Handled(inbox), RobotMessages) /\ WellFormed(Put(outbox, StartNext), Requests)
    BY <1>3, ChannelFacts, MessageFacts DEF OnPendingJobsResponse, OnJobsChanged, Receives
  <2>2. QED
    BY <1>3, <2>1 DEF OnPendingJobsResponse, OnJobsChanged, Receives
<1>4. CASE OnNextJob
  <2> DEFINE j == NextOf(inbox).job
  <2>1. WellFormed(Handled(inbox), RobotMessages) /\ j \in Jobs \cup {NoJob}
    BY <1>4, ChannelFacts, NextJobFacts DEF OnNextJob, Receives
  <2>2. CASE j = NoJob
    BY <1>4, <2>1, <2>2 DEF OnNextJob, Receives
  <2>3. CASE j # NoJob
    <3>1. j \in Jobs /\ WellFormed(Put(outbox, Update(j, "IN_PROGRESS")), Requests)
      BY <2>1, <2>3, ChannelFacts, MessageFacts
    <3>2. /\ inbox' = Handled(inbox) /\ outbox' = Put(outbox, Update(j, "IN_PROGRESS"))
          /\ agent' = [at |-> "apply", job |-> j]
          /\ UNCHANGED <<execution, subscribed, link, process, firmware, applied, faults>>
      BY <1>4, <2>3 DEF OnNextJob, Receives
    <3>3. QED
      BY <2>1, <3>1, <3>2, AgentFacts
  <2>4. QED
    BY <2>2, <2>3
<1>5. CASE ApplyOta
  <2>1. agent' \in Agents /\ agent'.job = agent.job /\ agent.job \in Jobs
    BY <1>5, AgentFacts DEF ApplyOta
  <2>2. QED
    BY <1>5, <2>1 DEF ApplyOta
<1>6. CASE ReportJob
  <2>1. PICK st \in Terminal : outbox' = Put(outbox, Update(agent.job, st))
    BY <1>6 DEF ReportJob
  <2>2. agent.job \in Jobs /\ st \in {"IN_PROGRESS"} \cup Terminal
    BY <1>6 DEF ReportJob
  <2>3. WellFormed(Put(outbox, Update(agent.job, st)), Requests)
    BY <2>2, ChannelFacts, MessageFacts
  <2>4. QED
    BY <1>6, <2>1, <2>3, AgentFacts DEF ReportJob
<1>7. CASE Connect \/ OnConnectionResumed
  BY <1>7 DEF Connect, OnConnectionResumed
<1>8. CASE Unheard
  <2>1. WellFormed(Handled(inbox), RobotMessages)
    BY <1>8, ChannelFacts DEF Unheard
  <2>2. QED
    BY <1>8, <2>1 DEF Unheard
<1>9. CASE SubscribeJobs
  <2>1. WellFormed(Put(outbox, GetPending), Requests)
    BY ChannelFacts, MessageFacts
  <2>2. QED
    BY <1>9, <2>1 DEF SubscribeJobs
<1>10. ASSUME LoseProcess, faults' \in Faults
       PROVE  (Typed /\ BusyWithJob)'
  <2>1. WellFormed(EmptyChannel, Requests) /\ WellFormed(inbox', RobotMessages)
    BY <1>10, ChannelFacts, EmptyFacts DEF LoseProcess
  <2>2. QED
    BY <1>10, <2>1, AgentFacts DEF LoseProcess
<1>11. CASE DropLink
  <2>1. faults' \in Faults
    BY <1>11, FaultsFacts DEF DropLink
  <2>2. CASE process = "starting"
    BY <1>10, <1>11, <2>1, <2>2 DEF DropLink
  <2>3. CASE process # "starting"
    <3>1. WellFormed(inbox', RobotMessages) /\ WellFormed(outbox', Requests)
      BY <1>11, <2>3, ChannelFacts DEF DropLink
    <3>2. QED
      BY <1>11, <2>1, <2>3, <3>1 DEF DropLink
  <2>4. QED
    BY <2>2, <2>3
<1>12. CASE ExpireSession
  <2>1. WellFormed(EmptyChannel, RobotMessages) /\ faults' \in Faults
    BY <1>12, EmptyFacts, FaultsFacts DEF ExpireSession
  <2>2. QED
    BY <1>12, <2>1 DEF ExpireSession
<1>13. CASE Crash
  BY <1>10, <1>13, FaultsFacts DEF Crash
<1>14. CASE UNCHANGED vars
  BY <1>14 DEF vars
<1>15. QED
  BY <1>1, <1>2, <1>3, <1>4, <1>5, <1>6, <1>7, <1>8, <1>9, <1>11, <1>12, <1>13, <1>14
     DEF Next, Work

LEMMA TypedAtFirst == Init => Typed /\ BusyWithJob
<1>1. WellFormed(EmptyChannel, RobotMessages) /\ WellFormed(EmptyChannel, Requests)
  BY EmptyFacts
<1>2. [drops |-> 0, expiries |-> 0, crashes |-> 0] \in Faults
  BY Assumed DEF Assumptions, Faults
<1>3. QED
  BY <1>1, <1>2, AgentFacts DEF Init, Typed, BusyWithJob, JobStatus

LEMMA TypedAlways == Spec => [](Typed /\ BusyWithJob)
BY TypedAtFirst, NextKeepsTypes, PTL DEF Spec

\* Jobs, messages and the agent keep their types: no message speaks of a job that does not
\* exist, and no more messages are handled than were sent.
THEOREM TypeCorrect == Spec => []TypeOK
BY TypedAlways, TypeFacts, PTL

----------------------------------------------------------------------------
(* Outcomes.                                                               *)

\* What is true of a request stays true, since applied only grows.
LEMMA TruthStays ==
    ASSUME applied \subseteq applied', NEW ch, WellFormed(ch, TrueRequests)
    PROVE  WellFormed(ch, TrueRequests')
<1>1. TrueRequests \subseteq TrueRequests'
  BY DEF TrueRequests, TrueOf
<1>2. ch \in [msgs : Seq(TrueRequests), done : Nat] /\ ch.msgs \in Seq(TrueRequests')
  BY <1>1 DEF WellFormed, ChannelOf
<1>3. QED
  BY <1>2 DEF WellFormed, ChannelOf

\* The requests the robot makes are true, and stay so when handled or sent again.
LEMMA TrueChannelFacts ==
    ASSUME IInv
    PROVE  /\ \A m \in TrueRequests : WellFormed(Put(outbox, m), TrueRequests)
           /\ HasNext(outbox) => /\ WellFormed(Handled(outbox), TrueRequests)
                                 /\ NextOf(outbox) \in TrueRequests
           /\ \A p \in Resent(outbox) : WellFormed(p, TrueRequests)
           /\ WellFormed(EmptyChannel, TrueRequests)
BY PutFacts, HandledFacts, ResentFacts, EmptyFacts, Assumed DEF IInv, Assumptions

LEMMA TrueRequestFacts ==
    /\ GetPending \in TrueRequests /\ StartNext \in TrueRequests
    /\ \A j \in Jobs, st \in {"IN_PROGRESS"} \cup Terminal :
          TrueOf(j, st) => Update(j, st) \in TrueRequests
<1>1. /\ GetPending.type # "update" /\ StartNext.type # "update"
      /\ \A j, st : Update(j, st).job = j /\ Update(j, st).to = st
  BY DEF GetPending, StartNext, Update
<1>2. QED
  BY <1>1, MessageFacts DEF TrueRequests

\* Only an update that is true makes an execution end.
LEMMA ServedTruly ==
    ASSUME Typed, IInv, ServeRequest
    PROVE  \A j \in Jobs : TrueOf(j, execution'[j])
<1> DEFINE m == NextOf(outbox)
<1>1. /\ m \in TrueRequests
      /\ m \in Requests /\ m.type \in {"getPending", "startNext", "update"}
      /\ m.type = "update" => m.job \in Jobs /\ TrueOf(m.job, m.to)
  BY TrueChannelFacts, RequestFacts DEF ServeRequest, TrueRequests
<1>2. \A j \in Jobs : TrueOf(j, "IN_PROGRESS")
  BY DEF TrueOf
<1>3. CASE m.type = "getPending"
  BY <1>3 DEF ServeRequest, AnswerGetPending, IInv
<1>4. CASE m.type = "startNext"
  <2>1. \A j \in Jobs : execution'[j] \in {execution[j], "IN_PROGRESS"}
    BY <1>4 DEF ServeRequest, AnswerStartNext, Typed
  <2>2. QED
    BY <1>2, <2>1 DEF IInv
<1>5. CASE m.type = "update"
  <2>1. \A j \in Jobs : \/ execution'[j] = execution[j]
                        \/ j = m.job /\ execution'[j] = m.to
    BY <1>5 DEF ServeRequest, AnswerUpdate, Typed
  <2>2. QED
    BY <1>1, <1>5, <2>1 DEF IInv
<1>6. QED
  BY <1>1, <1>3, <1>4, <1>5

\* Nothing on its way is untrue, whatever is dropped, sent again, restarted and expired.
LEMMA TruthAlways == Spec => []IInv
<1>1. Init => IInv
  <2>1. WellFormed(EmptyChannel, TrueRequests)
    BY EmptyFacts
  <2>2. QED
    BY <2>1 DEF Init, IInv, TrueOf, Idle
<1>2. Typed /\ BusyWithJob /\ IInv /\ [Next]_vars => IInv'
  <2> SUFFICES ASSUME Typed, BusyWithJob, IInv, [Next]_vars
               PROVE  IInv'
    OBVIOUS
  <2> USE DEF robot
  \* A step that applies nothing.
  <2>1. ASSUME UNCHANGED applied, WellFormed(outbox', TrueRequests),
               \A j \in Jobs : TrueOf(j, execution'[j]),
               agent'.at = "report" => agent'.job \in applied \cup BadJobs
        PROVE  IInv'
    BY <2>1, TruthStays DEF IInv, TrueOf, WellFormed
  <2>2. CASE CreateJob
    <3>1. \A j \in Jobs : execution'[j] \in {execution[j], "QUEUED"}
      BY <2>2 DEF CreateJob, Typed
    <3>2. \A j \in Jobs : TrueOf(j, execution'[j])
      BY <3>1 DEF IInv, TrueOf
    <3>3. QED
      BY <2>1, <2>2, <3>2 DEF CreateJob, IInv
  <2>3. CASE ServeRequest
    BY <2>1, <2>3, ServedTruly, TrueChannelFacts DEF ServeRequest, IInv
  <2>4. CASE OnPendingJobsResponse \/ OnJobsChanged
    BY <2>1, <2>4, TrueChannelFacts, TrueRequestFacts
       DEF OnPendingJobsResponse, OnJobsChanged, Receives, IInv
  <2>5. CASE OnNextJob
    <3> DEFINE j == NextOf(inbox).job
    <3>1. j \in Jobs \cup {NoJob}
      BY <2>5, ChannelFacts, NextJobFacts DEF OnNextJob, Receives
    <3>2. j \in Jobs => WellFormed(Put(outbox, Update(j, "IN_PROGRESS")), TrueRequests)
      BY TrueChannelFacts, TrueRequestFacts DEF TrueOf
    <3>3. WellFormed(outbox', TrueRequests) /\ (agent' = agent \/ agent'.at = "apply")
      BY <2>5, <3>1, <3>2 DEF OnNextJob, Receives, IInv
    <3>4. QED
      BY <2>1, <2>5, <3>3 DEF OnNextJob, Receives, IInv
  <2>6. CASE ApplyOta
    <3>1. agent'.job = agent.job /\ agent.job \in Jobs
      BY <2>6, AgentFacts DEF ApplyOta, Typed, BusyWithJob
    <3>2. applied \subseteq applied' /\ UNCHANGED <<outbox, execution>>
      BY <2>6 DEF ApplyOta
    <3>3. WellFormed(outbox, TrueRequests)'
      BY <3>2, TruthStays DEF IInv, WellFormed
    <3>4. (\A j \in Jobs : TrueOf(j, execution[j]))'
      BY <3>2 DEF IInv, TrueOf
    <3>5. /\ agent'.job \in applied' \cup BadJobs
          /\ applied' \cap BadJobs = {}
      BY <2>6, <3>1 DEF ApplyOta, IInv
    <3>6. QED
      BY <3>3, <3>4, <3>5 DEF IInv
  <2>7. CASE ReportJob
    <3>1. PICK st \in Terminal : /\ st = "SUCCEEDED" => agent.job \notin BadJobs
                                /\ outbox' = Put(outbox, Update(agent.job, st))
      BY <2>7 DEF ReportJob
    <3>2. agent.job \in Jobs /\ TrueOf(agent.job, st)
      BY <2>7, <3>1 DEF ReportJob, BusyWithJob, IInv, TrueOf
    <3>3. WellFormed(outbox', TrueRequests)
      BY <3>1, <3>2, TrueChannelFacts, TrueRequestFacts DEF IInv
    <3>4. QED
      BY <2>1, <2>7, <3>3, AgentFacts DEF ReportJob, IInv
  <2>8. CASE Connect \/ OnConnectionResumed \/ Unheard
    BY <2>1, <2>8 DEF Connect, OnConnectionResumed, Unheard, IInv
  <2>9. CASE SubscribeJobs
    BY <2>1, <2>9, TrueChannelFacts, TrueRequestFacts DEF SubscribeJobs, IInv
  <2>10. CASE LoseProcess
    BY <2>1, <2>10, TrueChannelFacts, AgentFacts DEF LoseProcess, IInv
  <2>11. CASE DropLink
    BY <2>1, <2>10, <2>11, TrueChannelFacts DEF DropLink, IInv
  <2>12. CASE ExpireSession
    BY <2>1, <2>12 DEF ExpireSession, IInv
  <2>13. CASE Crash
    BY <2>10, <2>13 DEF Crash
  <2>14. CASE UNCHANGED vars
    BY <2>1, <2>14 DEF vars, IInv
  <2>15. QED
    BY <2>2, <2>3, <2>4, <2>5, <2>6, <2>7, <2>8, <2>9, <2>11, <2>12, <2>13, <2>14
       DEF Next, Work
<1>3. QED
  BY <1>1, <1>2, TypedAlways, PTL DEF Spec

\* Whatever is dropped, sent again, restarted and expired: an execution that IoT Jobs shows
\* as SUCCEEDED was applied by the robot, and one it shows as FAILED was applied too (its
\* report of success raised) or has a document that cannot be.
THEOREM OutcomesAreTrue == Spec => []OutcomeIsTrue
<1>1. IInv => OutcomeIsTrue
  BY DEF IInv, TrueOf, OutcomeIsTrue
<1>2. QED
  BY <1>1, TruthAlways, PTL
----------------------------------------------------------------------------
(* The newest job.                                                         *)

\* IoT Jobs goes through the executions in the order of their creation: a job is started
\* when all the earlier ones have ended.
Started(j) == execution[j] = "IN_PROGRESS" \/ execution[j] \in Terminal
CreatedInOrder ==
    \A a, b \in Jobs : a < b /\ execution[b] # "none" => execution[a] # "none"
StartedInOrder ==
    \A a, b \in Jobs : a < b /\ Started(b) => execution[a] \in Terminal

\* Nothing speaks of a job that has not been started.
StartedRequests == {m \in Requests : m.type = "update" => Started(m.job)}
Names(m) == m.type = "next" /\ m.job # NoJob
StartedMessages == {m \in RobotMessages : Names(m) => Started(m.job)}
OnlyStarted ==
    /\ WellFormed(outbox, StartedRequests) /\ WellFormed(inbox, StartedMessages)
    /\ agent.at # "idle" => Started(agent.job)
    /\ \A j \in applied : Started(j)

\* The messages of the session that name a job, and the jobs they name, in order.
Naming(i) == i \in 1..Len(inbox.msgs) /\ Names(inbox.msgs[i])
JobAt(i) == inbox.msgs[i].job
NamedInOrder == \A i, k \in Nat : Naming(i) /\ Naming(k) /\ i < k => JobAt(i) <= JobAt(k)

OInv == CreatedInOrder /\ StartedInOrder /\ OnlyStarted /\ NamedInOrder

\* Without a crash a robot that does not run has done nothing yet.
Fresh ==
    process # "running" =>
        ~subscribed /\ inbox.msgs = <<>> /\ agent = Idle /\ applied = {}

\* The job at work, if it can be applied, counts as applied already.
Applying == agent.at = "apply" /\ agent.job \notin BadJobs
Taken == applied \cup IF Applying THEN {agent.job} ELSE {}
Current == IF Applying THEN agent.job ELSE firmware

\* A message that will change the firmware when it is handled.
Good(i) == Naming(i) /\ JobAt(i) \notin BadJobs
ToCome(i) == Good(i) /\ i > inbox.done

\* The newest job taken is the current one or comes again, ...
Newest ==
    /\ (\E i \in Nat : ToCome(i)) =>
          \A a \in Taken : \E i \in Nat : ToCome(i) /\ a <= JobAt(i)
    /\ (\A i \in Nat : ~ToCome(i)) => \A a \in Taken : a <= Current
\* ... and if a handled message is sent again, so is one that is as new as what runs.
Recurs ==
    \A i \in Nat : Good(i) /\ i <= inbox.done =>
        \E k \in Nat : Good(k) /\ i <= k /\ Current <= JobAt(k)

\* As long as the session and the process live, whatever drops, what is to come settles on
\* the newest job taken.
Spared == faults.expiries = 0 /\ faults.crashes = 0
Settling == Fresh /\ Newest /\ Recurs /\ (applied # {} => firmware \in applied)
NInv == Spared => Settling

----------------------------------------------------------------------------
\* What a request changes: an execution is started when none is in progress and no earlier
\* one is queued, and one in progress is marked again or ends.
HandsOut(j) ==
    /\ Publish(NextJob(j))
    /\ \/ j = NoJob /\ UNCHANGED execution /\ ~AnyQueued(execution)
       \/ /\ j \in Jobs /\ execution' = [execution EXCEPT ![j] = "IN_PROGRESS"]
          /\ \/ execution[j] = "IN_PROGRESS"
             \/ /\ execution[j] = "QUEUED"
                /\ \A a \in Jobs : /\ execution[a] # "IN_PROGRESS"
                                   /\ execution[a] = "QUEUED" => j <= a
Marks(j) ==
    /\ execution[j] = "IN_PROGRESS"
    /\ \E st \in {"IN_PROGRESS"} \cup Terminal : execution' = [execution EXCEPT ![j] = st]
Tells == UNCHANGED inbox \/ \E q \in BOOLEAN : Publish(Notify(q)) \/ Publish(Pending(q))

\* The request that IoT Jobs comes to is a request, about a job that has been started.
LEMMA NextRequestFacts ==
    ASSUME OnlyStarted, HasNext(outbox)
    PROVE  LET m == NextOf(outbox)
           IN  /\ m \in Requests /\ m.type \in {"getPending", "startNext", "update"}
               /\ m.type = "update" => /\ m.job \in Jobs /\ m.to \in {"IN_PROGRESS"} \cup Terminal
                                       /\ Started(m.job)
<1> DEFINE m == NextOf(outbox)
<1>1. m \in StartedRequests
  BY HandledFacts, Assumed DEF OnlyStarted, Assumptions
<1> HIDE DEF m
<1>2. m \in Requests /\ (m.type = "update" => Started(m.job))
  BY <1>1 DEF StartedRequests
<1>3. QED
  BY <1>2, RequestFacts DEF m

\* Something is handed out if anything is queued.
LEMMA StartNextFacts ==
    ASSUME AnswerStartNext
    PROVE  \E j \in Jobs \cup {NoJob} : HandsOut(j)
<1> DEFINE started == With("IN_PROGRESS", execution)
           queued == With("QUEUED", execution)
           j == CASE started # {} -> Min(started)
                  [] started = {} /\ queued # {} -> Min(queued)
                  [] OTHER -> NoJob
<1>1. /\ Publish(NextJob(j))
      /\ execution' = IF j = NoJob THEN execution
                                   ELSE [execution EXCEPT ![j] = "IN_PROGRESS"]
  BY DEF AnswerStartNext
<1>2. started \subseteq Jobs /\ queued \subseteq Jobs /\ NoJob \notin Jobs
  BY Assumed DEF With, NoJob, Assumptions
<1>3. CASE started # {}
  <2>1. j = Min(started) /\ j \in started
    BY <1>2, <1>3, MinFacts
  <2>2. j \in Jobs /\ execution[j] = "IN_PROGRESS"
    BY <2>1 DEF With
  <2> HIDE DEF j
  <2>3. HandsOut(j)
    BY <1>1, <1>2, <2>2 DEF HandsOut
  <2>4. QED
    BY <2>2, <2>3
<1>4. CASE started = {} /\ queued # {}
  <2>1. j = Min(queued) /\ j \in queued /\ \A a \in queued : j <= a
    BY <1>2, <1>4, MinFacts
  <2>2. /\ j \in Jobs /\ execution[j] = "QUEUED"
        /\ \A a \in Jobs : /\ execution[a] # "IN_PROGRESS"
                           /\ execution[a] = "QUEUED" => j <= a
    BY <1>4, <2>1 DEF With
  <2> HIDE DEF j
  <2>3. HandsOut(j)
    BY <1>1, <1>2, <2>2 DEF HandsOut
  <2>4. QED
    BY <2>2, <2>3
<1>5. CASE started = {} /\ queued = {}
  BY <1>1, <1>5 DEF HandsOut, AnyQueued
<1>6. QED
  BY <1>3, <1>4, <1>5

\* The three things a request can do.
LEMMA ServeSteps ==
    ASSUME Typed, OnlyStarted, ServeRequest
    PROVE  \/ UNCHANGED execution /\ Tells
           \/ \E j \in Jobs \cup {NoJob} : HandsOut(j)
           \/ \E j \in Jobs : Marks(j) /\ Tells
<1> DEFINE m == NextOf(outbox)
<1>1. /\ m \in Requests /\ m.type \in {"getPending", "startNext", "update"}
      /\ m.type = "update" => /\ m.job \in Jobs /\ m.to \in {"IN_PROGRESS"} \cup Terminal
                              /\ Started(m.job)
  BY NextRequestFacts DEF ServeRequest
<1>2. CASE m.type = "getPending"
  <2>1. AnswerGetPending
    BY <1>2 DEF ServeRequest
  <2>2. QED
    BY <2>1 DEF AnswerGetPending, Tells, AnyQueued
<1>3. CASE m.type = "startNext"
  <2>1. AnswerStartNext
    BY <1>3 DEF ServeRequest
  <2>2. QED
    BY <2>1, StartNextFacts
<1>4. CASE m.type = "update"
  <2>1. AnswerUpdate(m.job, m.to)
    BY <1>4 DEF ServeRequest
  <2>2. CASE execution[m.job] \in Terminal
    BY <2>1, <2>2 DEF AnswerUpdate, Tells
  <2>3. CASE execution[m.job] \notin Terminal
    <3>1. execution[m.job] = "IN_PROGRESS"
      BY <1>1, <1>4, <2>3 DEF Started
    <3>2. execution' = [execution EXCEPT ![m.job] = m.to] /\ Tells
      BY <2>1, <2>3 DEF AnswerUpdate, Tells, AnyQueued
    <3>3. QED
      BY <1>1, <1>4, <3>1, <3>2 DEF Marks
  <2>4. QED
    BY <2>2, <2>3
<1>5. QED
  BY <1>1, <1>2, <1>3, <1>4

\* The order of the executions, and that a started job stays started.
LEMMA ExecutionsStayInOrder ==
    ASSUME Typed, CreatedInOrder, StartedInOrder, OnlyStarted, [Next]_vars
    PROVE  /\ CreatedInOrder' /\ StartedInOrder'
           /\ \A j \in Jobs : Started(j) => Started(j)'
<1> DEFINE Goal == /\ CreatedInOrder' /\ StartedInOrder'
                   /\ \A j \in Jobs : Started(j) => Started(j)'
<1> USE DEF Started, Terminal, CreatedInOrder, StartedInOrder
<1>1. execution \in [Jobs -> JobStatus] /\ Jobs \subseteq Nat
  BY Assumed DEF Typed, Assumptions
<1>2. ASSUME UNCHANGED execution
      PROVE  Goal
  BY <1>2
<1>3. CASE CreateJob
  <2> DEFINE fresh == With("none", execution)
             n == Min(fresh)
  <2>1. fresh \subseteq Jobs /\ fresh # {}
    BY <1>3 DEF CreateJob, With
  <2>2. n \in fresh /\ \A y \in fresh : n <= y
    BY <2>1, MinFacts
  <2>3. \A a \in Jobs : a \in fresh <=> execution[a] = "none"
    BY DEF With
  <2>4. execution' = [execution EXCEPT ![n] = "QUEUED"]
    BY <1>3 DEF CreateJob
  <2> HIDE DEF n, fresh
  <2>5. /\ n \in Jobs /\ execution[n] = "none"
        /\ \A a \in Jobs : a < n => execution[a] # "none"
    <3>1. \A a \in Jobs : a < n => ~ (n <= a)
      BY <1>1, <2>1, <2>2
    <3>2. QED
      BY <2>1, <2>2, <2>3, <3>1
  <2>6. QED
    BY <1>1, <2>4, <2>5
<1>4. ASSUME NEW j \in Jobs \cup {NoJob}, HandsOut(j)
      PROVE  Goal
  <2>1. CASE UNCHANGED execution
    BY <1>2, <2>1
  <2>2. ASSUME j \in Jobs, execution' = [execution EXCEPT ![j] = "IN_PROGRESS"],
               execution[j] = "IN_PROGRESS"
        PROVE  Goal
    BY <1>1, <1>2, <2>2
  <2>3. ASSUME j \in Jobs, execution' = [execution EXCEPT ![j] = "IN_PROGRESS"],
               execution[j] = "QUEUED",
               \A a \in Jobs : /\ execution[a] # "IN_PROGRESS"
                               /\ execution[a] = "QUEUED" => j <= a
        PROVE  Goal
    <3>1. \A a \in Jobs : a < j => execution[a] \in Terminal
      BY <1>1, <2>3 DEF JobStatus
    <3>2. QED
      BY <1>1, <2>3, <3>1
  <2>4. QED
    BY <1>4, <2>1, <2>2, <2>3 DEF HandsOut
<1>5. ASSUME NEW j \in Jobs, Marks(j)
      PROVE  Goal
  <2>1. PICK st \in {"IN_PROGRESS"} \cup Terminal : execution' = [execution EXCEPT ![j] = st]
    BY <1>5 DEF Marks
  <2>2. execution[j] = "IN_PROGRESS"
    BY <1>5 DEF Marks
  <2>3. QED
    BY <1>1, <2>1, <2>2
<1>6. CASE ServeRequest
  BY <1>2, <1>4, <1>5, <1>6, ServeSteps
<1>7. CASE \/ OnPendingJobsResponse \/ OnJobsChanged \/ OnNextJob \/ ApplyOta \/ ReportJob
           \/ Connect \/ Unheard \/ SubscribeJobs \/ OnConnectionResumed
           \/ DropLink \/ ExpireSession \/ Crash \/ UNCHANGED vars
  BY <1>2, <1>7
     DEF OnPendingJobsResponse, OnJobsChanged, OnNextJob, Receives, ApplyOta, ReportJob,
         Connect, Unheard, SubscribeJobs, OnConnectionResumed, DropLink, LoseProcess,
         ExpireSession, Crash, vars
<1>8. QED
  BY <1>3, <1>6, <1>7 DEF Next, Work

StartedStay == \A j \in Jobs : Started(j) => Started(j)'

\* What speaks of started jobs goes on doing so.
LEMMA StartedChannelFacts ==
    ASSUME StartedStay, NEW ch
    PROVE  /\ WellFormed(ch, StartedRequests) => WellFormed(ch, StartedRequests')
           /\ WellFormed(ch, StartedMessages) => WellFormed(ch, StartedMessages')
<1>1. StartedRequests \subseteq StartedRequests'
  BY RequestFacts DEF StartedRequests, StartedStay
<1>2. StartedMessages \subseteq StartedMessages'
  BY NextJobFacts DEF StartedMessages, Names, StartedStay
<1>3. QED
  BY <1>1, <1>2, WiderFacts

\* What a step does to the messages for the robot.
Adds(m) == inbox' = Put(inbox, m)
InboxStep ==
    \/ UNCHANGED inbox
    \/ \E m \in RobotMessages : ~Names(m) /\ Adds(m)
    \/ \E j \in Jobs : execution'[j] = "IN_PROGRESS" /\ Adds(NextJob(j))
    \/ HasNext(inbox) /\ inbox' = Handled(inbox)
    \/ inbox' \in Resent(inbox)
    \/ inbox' = EmptyChannel

LEMMA MessageNames ==
    /\ \A q \in BOOLEAN : ~Names(Notify(q)) /\ ~Names(Pending(q))
    /\ ~Names(NextJob(NoJob))
    /\ \A j \in Jobs : NextJob(j).job = j
BY DEF Names, Notify, Pending, NextJob

LEMMA TellsSteps ==
    ASSUME Tells
    PROVE  UNCHANGED inbox \/ \E m \in RobotMessages : ~Names(m) /\ Adds(m)
<1>1. CASE UNCHANGED inbox
  BY <1>1
<1>2. ASSUME NEW q \in BOOLEAN, Publish(Notify(q)) \/ Publish(Pending(q))
      PROVE  UNCHANGED inbox \/ \E m \in RobotMessages : ~Names(m) /\ Adds(m)
  BY <1>2, MessageNames, MessageFacts DEF Publish, Adds
<1>3. QED
  BY <1>1, <1>2 DEF Tells

LEMMA HandsOutSteps ==
    ASSUME Typed, NEW j \in Jobs \cup {NoJob}, HandsOut(j)
    PROVE  \/ UNCHANGED inbox
           \/ \E m \in RobotMessages : ~Names(m) /\ Adds(m)
           \/ \E b \in Jobs : execution'[b] = "IN_PROGRESS" /\ Adds(NextJob(b))
<1>1. CASE j = NoJob
  BY <1>1, MessageNames, MessageFacts DEF HandsOut, Publish, Adds
<1>2. CASE j # NoJob
  <2>1. execution'[j] = "IN_PROGRESS" /\ j \in Jobs
    BY <1>2 DEF HandsOut, Typed
  <2>2. QED
    BY <2>1 DEF HandsOut, Publish, Adds
<1>3. QED
  BY <1>1, <1>2

LEMMA InboxSteps ==
    ASSUME Typed, OnlyStarted, [Next]_vars
    PROVE  InboxStep
<1>1. CASE CreateJob
  <2>1. Tells
    BY <1>1 DEF CreateJob, Tells
  <2>2. QED
    BY <2>1, TellsSteps DEF InboxStep
<1>2. CASE ServeRequest
  <2>1. Tells \/ \E j \in Jobs \cup {NoJob} : HandsOut(j)
    BY <1>2, ServeSteps
  <2>2. QED
    BY <2>1, TellsSteps, HandsOutSteps DEF InboxStep
<1>3. CASE OnPendingJobsResponse \/ OnJobsChanged \/ OnNextJob \/ Unheard
  BY <1>3 DEF OnPendingJobsResponse, OnJobsChanged, OnNextJob, Receives, Unheard, InboxStep
<1>4. CASE ApplyOta \/ ReportJob \/ Connect \/ SubscribeJobs \/ OnConnectionResumed
           \/ UNCHANGED vars
  BY <1>4
     DEF ApplyOta, ReportJob, Connect, SubscribeJobs, OnConnectionResumed, vars, InboxStep
<1>5. CASE DropLink \/ ExpireSession \/ Crash
  BY <1>5 DEF DropLink, ExpireSession, Crash, LoseProcess, InboxStep
<1>6. QED
  BY <1>1, <1>2, <1>3, <1>4, <1>5 DEF Next, Work
\* What the messages for the robot are after a step.
LEMMA MessagesStayStarted ==
    ASSUME Typed, OnlyStarted, StartedStay, InboxStep
    PROVE  WellFormed(inbox, StartedMessages)'
<1>1. ASSUME WellFormed(inbox', StartedMessages')
      PROVE  WellFormed(inbox, StartedMessages)'
  BY <1>1 DEF WellFormed
<1>2. WellFormed(inbox, StartedMessages) /\ WellFormed(inbox, StartedMessages')
  BY StartedChannelFacts DEF OnlyStarted
<1>3. CASE UNCHANGED inbox
  BY <1>1, <1>2, <1>3
<1>4. ASSUME NEW m \in RobotMessages, ~Names(m), Adds(m)
      PROVE  WellFormed(inbox, StartedMessages)'
  <2>1. m \in StartedMessages'
    BY <1>4 DEF StartedMessages, Names
  <2>2. WellFormed(Put(inbox, m), StartedMessages')
    BY <1>2, <2>1, PutFacts
  <2>3. QED
    BY <1>1, <1>4, <2>2 DEF Adds
<1>5. ASSUME NEW j \in Jobs, execution'[j] = "IN_PROGRESS", Adds(NextJob(j))
      PROVE  WellFormed(inbox, StartedMessages)'
  <2>1. NextJob(j) \in StartedMessages'
    BY <1>5, MessageFacts, MessageNames DEF StartedMessages, Names, Started
  <2>2. WellFormed(Put(inbox, NextJob(j)), StartedMessages')
    BY <1>2, <2>1, PutFacts
  <2>3. QED
    BY <1>1, <1>5, <2>2 DEF Adds
<1>6. CASE HasNext(inbox) /\ inbox' = Handled(inbox)
  BY <1>1, <1>2, <1>6, HandledFacts, Assumed DEF Assumptions
<1>7. CASE inbox' \in Resent(inbox)
  BY <1>1, <1>2, <1>7, ResentFacts
<1>8. CASE inbox' = EmptyChannel
  BY <1>1, <1>8, EmptyFacts
<1>9. QED
  BY <1>3, <1>4, <1>5, <1>6, <1>7, <1>8 DEF InboxStep

\* What the messages name after the channel has moved on, and after one has come in.
LEMMA ShiftedNames ==
    ASSUME Typed, NEW o, Shifted(inbox, inbox', o)
    PROVE  \A i \in Nat : i > 0 => /\ Naming(i)' <=> Naming(i + o)
                                   /\ JobAt(i)' = JobAt(i + o) \/ ~Naming(i)'
<1>1. /\ o \in Nat /\ Len(inbox.msgs) \in Nat /\ Len(inbox'.msgs) = Len(inbox.msgs) - o
      /\ o <= Len(inbox.msgs)
      /\ \A i \in 1..Len(inbox'.msgs) : inbox'.msgs[i] = inbox.msgs[i + o]
  <2>1. inbox.msgs \in Seq(RobotMessages)
    BY DEF Typed, WellFormed, ChannelOf
  <2>2. QED
    BY <2>1 DEF Shifted
<1>2. \A i \in Nat : i > 0 => (i \in 1..Len(inbox'.msgs) <=> i + o \in 1..Len(inbox.msgs))
  BY <1>1
<1>3. QED
  BY <1>1, <1>2 DEF Naming, Names, JobAt

LEMMA AddedNames ==
    ASSUME Typed, NEW m \in RobotMessages, Adds(m)
    PROVE  /\ inbox'.done = inbox.done /\ Len(inbox.msgs) \in Nat
           /\ \A i \in Nat :
                 /\ Naming(i)' <=> Naming(i) \/ (i = Len(inbox.msgs) + 1 /\ Names(m))
                 /\ Naming(i) => i <= Len(inbox.msgs) /\ JobAt(i)' = JobAt(i)
                 /\ i = Len(inbox.msgs) + 1 => JobAt(i)' = m.job
<1> DEFINE n == Len(inbox.msgs)
<1>1. /\ inbox'.done = inbox.done /\ n \in Nat /\ Len(inbox'.msgs) = n + 1
      /\ \A i \in 1..n : inbox'.msgs[i] = inbox.msgs[i]
      /\ inbox'.msgs[n + 1] = m
  BY PutPositions DEF Typed, Adds
<1>2. \A i \in Nat : i \in 1..(n + 1) <=> i \in 1..n \/ i = n + 1
  BY <1>1
<1>3. \A i \in Nat : i \in 1..n => i <= n /\ i # n + 1
  BY <1>1
<1> HIDE DEF n
<1>4. n = Len(inbox.msgs)
  BY DEF n
<1>5. \A i \in Nat : Naming(i) <=> i \in 1..n /\ Names(inbox.msgs[i])
  BY <1>4 DEF Naming
<1>6. \A i \in Nat : Naming(i)' <=> i \in 1..(n + 1) /\ Names(inbox'.msgs[i])
  BY <1>1 DEF Naming, Names
<1>7. \A i \in Nat : Naming(i)' <=> Naming(i) \/ (i = n + 1 /\ Names(m))
  BY <1>1, <1>2, <1>3, <1>5, <1>6
<1>8. \A i \in Nat : Naming(i) => i <= n /\ JobAt(i)' = JobAt(i)
  BY <1>1, <1>3, <1>5 DEF JobAt
<1>9. \A i \in Nat : i = n + 1 => JobAt(i)' = m.job
  BY <1>1 DEF JobAt
<1>10. QED
  BY <1>1, <1>4, <1>7, <1>8, <1>9

\* The jobs that messages name are jobs, and started.
LEMMA NamedFacts ==
    ASSUME Typed, OnlyStarted
    PROVE  \A i \in Nat : Naming(i) => JobAt(i) \in Jobs /\ Started(JobAt(i))
<1>1. inbox.msgs \in Seq(StartedMessages)
  BY DEF OnlyStarted, WellFormed, ChannelOf
<1>2. \A i \in 1..Len(inbox.msgs) : inbox.msgs[i] \in StartedMessages
  BY <1>1
<1>3. \A m \in StartedMessages : Names(m) => m.job \in Jobs /\ Started(m.job)
  BY NextJobFacts DEF StartedMessages, Names
<1>4. QED
  BY <1>2, <1>3 DEF Naming, JobAt

\* No started job is newer than the one handed out.
LEMMA HandedOutNewest ==
    ASSUME StartedInOrder', StartedStay, NEW j \in Jobs, execution'[j] = "IN_PROGRESS"
    PROVE  \A b \in Jobs : Started(b) => b <= j
<1>1. \A b \in Jobs : j < b /\ Started(b)' => execution'[j] \in Terminal
  BY DEF StartedInOrder
<1>2. execution'[j] \notin Terminal
  BY DEF Terminal
<1>3. QED
  BY <1>1, <1>2, Assumed DEF StartedStay, Assumptions

LEMMA NamesStayInOrder ==
    ASSUME Typed, OnlyStarted, NamedInOrder, StartedInOrder', StartedStay, InboxStep
    PROVE  NamedInOrder'
<1>1. ASSUME NEW o, Shifted(inbox, inbox', o)
      PROVE  NamedInOrder'
  <2>1. o \in Nat
    BY <1>1 DEF Shifted
  <2> SUFFICES ASSUME NEW i \in Nat, NEW k \in Nat, Naming(i)', Naming(k)', i < k
               PROVE  JobAt(i)' <= JobAt(k)'
    BY DEF NamedInOrder
  <2>2. i > 0 /\ k > 0
    BY DEF Naming
  <2>3. /\ Naming(i + o) /\ Naming(k + o)
        /\ JobAt(i)' = JobAt(i + o) /\ JobAt(k)' = JobAt(k + o)
    BY <1>1, <2>2, ShiftedNames
  <2>4. i + o \in Nat /\ k + o \in Nat /\ i + o < k + o
    BY <2>1
  <2>5. QED
    BY <2>3, <2>4 DEF NamedInOrder
<1>2. ASSUME NEW m \in RobotMessages, Adds(m),
             Names(m) => m.job \in Jobs /\ execution'[m.job] = "IN_PROGRESS"
      PROVE  NamedInOrder'
  <2> DEFINE n == Len(inbox.msgs)
  <2> SUFFICES ASSUME NEW i \in Nat, NEW k \in Nat, Naming(i)', Naming(k)', i < k
               PROVE  JobAt(i)' <= JobAt(k)'
    BY DEF NamedInOrder
  <2>1. /\ n \in Nat
        /\ Naming(i) \/ (i = n + 1 /\ Names(m))
        /\ Naming(k) \/ (k = n + 1 /\ Names(m))
        /\ Naming(i) => i <= n /\ JobAt(i)' = JobAt(i)
        /\ Naming(k) => k <= n /\ JobAt(k)' = JobAt(k)
        /\ k = n + 1 => JobAt(k)' = m.job
    BY <1>2, AddedNames
  <2> HIDE DEF n
  <2>2. Naming(i)
    BY <2>1
  <2>3. CASE Naming(k)
    BY <2>1, <2>2, <2>3 DEF NamedInOrder
  <2>4. CASE k = n + 1 /\ Names(m)
    <3>1. JobAt(i) \in Jobs /\ Started(JobAt(i))
      BY <2>2, NamedFacts
    <3>2. JobAt(i) <= m.job
      BY <1>2, <2>4, <3>1, HandedOutNewest
    <3>3. QED
      BY <2>1, <2>2, <2>4, <3>2
  <2>5. QED
    BY <2>1, <2>3, <2>4
<1>3. CASE UNCHANGED inbox
  BY <1>3 DEF NamedInOrder, Naming, JobAt
<1>4. ASSUME NEW m \in RobotMessages, ~Names(m), Adds(m)
      PROVE  NamedInOrder'
  BY <1>2, <1>4
<1>5. ASSUME NEW j \in Jobs, execution'[j] = "IN_PROGRESS", Adds(NextJob(j))
      PROVE  NamedInOrder'
  BY <1>2, <1>5, MessageFacts, MessageNames
<1>6. CASE HasNext(inbox) /\ inbox' = Handled(inbox)
  BY <1>1, <1>6, HandledPositions, Assumed DEF Typed, Assumptions
<1>7. CASE inbox' \in Resent(inbox)
  BY <1>1, <1>7, ResentPositions DEF Typed
<1>8. CASE inbox' = EmptyChannel
  BY <1>8 DEF NamedInOrder, Naming, EmptyChannel
<1>9. QED
  BY <1>3, <1>4, <1>5, <1>6, <1>7, <1>8 DEF InboxStep
\* The requests and the robot speak of started jobs: it hears of no other.
LEMMA RobotKeepsToStarted ==
    ASSUME Typed, BusyWithJob, OnlyStarted, StartedStay, [Next]_vars
    PROVE  /\ WellFormed(outbox, StartedRequests)'
           /\ agent'.at # "idle" => Started(agent.job)'
           /\ \A j \in applied' : Started(j)'
<1> DEFINE Goal == /\ WellFormed(outbox, StartedRequests)'
                   /\ agent'.at # "idle" => Started(agent.job)'
                   /\ \A j \in applied' : Started(j)'
<1> USE DEF robot
<1>1. /\ WellFormed(outbox, StartedRequests)
      /\ \A p : WellFormed(p, StartedRequests) => WellFormed(p, StartedRequests')
  BY StartedChannelFacts DEF OnlyStarted
<1>2. /\ \A j \in applied : Started(j)'
      /\ agent.at # "idle" => agent.job \in Jobs
                              /\ \A j \in Jobs : j = agent.job => Started(j)'
  BY DEF OnlyStarted, StartedStay, Typed, BusyWithJob
<1>3. ASSUME WellFormed(outbox', StartedRequests), UNCHANGED <<agent, applied>>
      PROVE  Goal
  <2>1. WellFormed(outbox, StartedRequests)'
    BY <1>1, <1>3 DEF WellFormed
  <2>2. agent'.at # "idle" => Started(agent.job)'
    BY <1>2, <1>3 DEF Started
  <2>3. QED
    BY <1>2, <1>3, <2>1, <2>2
<1>4. /\ \A m \in StartedRequests : WellFormed(Put(outbox, m), StartedRequests)
      /\ GetPending \in StartedRequests /\ StartNext \in StartedRequests
      /\ \A j \in Jobs, st \in {"IN_PROGRESS"} \cup Terminal :
            Started(j) => Update(j, st) \in StartedRequests
  <2>1. /\ GetPending.type # "update" /\ StartNext.type # "update"
        /\ \A j, st : Update(j, st).job = j
    BY DEF GetPending, StartNext, Update
  <2>2. QED
    BY <1>1, <2>1, PutFacts, MessageFacts DEF StartedRequests
<1>5. HasNext(outbox) => WellFormed(Handled(outbox), StartedRequests)
  BY <1>1, HandledFacts, Assumed DEF Assumptions
<1>6. \A p \in Resent(outbox) : WellFormed(p, StartedRequests)
  BY <1>1, ResentFacts
<1>7. CASE CreateJob
  BY <1>1, <1>3, <1>7 DEF CreateJob
<1>8. CASE ServeRequest
  BY <1>3, <1>5, <1>8 DEF ServeRequest
<1>9. CASE OnPendingJobsResponse \/ OnJobsChanged
  BY <1>1, <1>3, <1>4, <1>9 DEF OnPendingJobsResponse, OnJobsChanged, Receives
<1>10. CASE OnNextJob
  <2> DEFINE j == NextOf(inbox).job
  <2>1. /\ j \in Jobs \cup {NoJob} /\ (j # NoJob => Started(j))
        /\ UNCHANGED <<execution, applied>>
    <3>1. HasNext(inbox) /\ NextOf(inbox).type = "next" /\ UNCHANGED <<execution, applied>>
      BY <1>10 DEF OnNextJob, Receives
    <3>2. NextOf(inbox) \in StartedMessages
      BY <3>1, HandledFacts, Assumed DEF OnlyStarted, Assumptions
    <3>3. QED
      BY <3>1, <3>2, NextJobFacts DEF StartedMessages, Names
  <2>2. CASE j = NoJob
    BY <1>1, <1>3, <1>10, <2>2 DEF OnNextJob, Receives
  <2>3. CASE j # NoJob
    <3>1. /\ outbox' = Put(outbox, Update(j, "IN_PROGRESS"))
          /\ agent' = [at |-> "apply", job |-> j]
      BY <1>10, <2>3 DEF OnNextJob
    <3> HIDE DEF j
    <3>2. WellFormed(outbox', StartedRequests)
      BY <1>4, <2>1, <2>3, <3>1
    <3>3. WellFormed(outbox, StartedRequests)'
      BY <1>1, <3>2 DEF WellFormed
    <3>4. Started(agent.job)'
      BY <2>1, <2>3, <3>1 DEF Started
    <3>5. QED
      BY <1>2, <2>1, <3>3, <3>4
  <2>4. QED
    BY <2>2, <2>3
<1>11. CASE ApplyOta
  <2>1. /\ agent'.job = agent.job /\ agent.at # "idle"
        /\ UNCHANGED <<outbox, execution>> /\ applied' \subseteq applied \cup {agent.job}
    BY <1>11, AgentFacts DEF ApplyOta, Typed
  <2>2. Started(agent.job)'
    BY <1>2, <2>1 DEF Started
  <2>3. WellFormed(outbox, StartedRequests)'
    BY <1>1, <2>1 DEF WellFormed
  <2>4. \A j \in applied' : Started(j)'
    BY <1>2, <2>1 DEF Started
  <2>5. QED
    BY <2>2, <2>3, <2>4
<1>12. CASE ReportJob
  <2>1. agent.job \in Jobs /\ Started(agent.job)
    BY <1>12 DEF ReportJob, BusyWithJob, OnlyStarted
  <2>2. PICK st \in {"IN_PROGRESS"} \cup Terminal :
          outbox' = Put(outbox, Update(agent.job, st)) /\ agent' = Idle /\ applied' = applied
    BY <1>12 DEF ReportJob
  <2>3. WellFormed(outbox', StartedRequests)
    BY <1>4, <2>1, <2>2
  <2>4. WellFormed(outbox, StartedRequests)'
    BY <1>1, <2>3 DEF WellFormed
  <2>5. QED
    BY <1>2, <2>2, <2>4, AgentFacts
<1>13. CASE Connect \/ Unheard \/ OnConnectionResumed \/ ExpireSession \/ UNCHANGED vars
  BY <1>1, <1>3, <1>13 DEF Connect, Unheard, OnConnectionResumed, ExpireSession, vars
<1>14. CASE SubscribeJobs
  BY <1>3, <1>4, <1>14 DEF SubscribeJobs
<1>15. CASE LoseProcess
  <2>1. WellFormed(outbox, StartedRequests)'
    BY <1>15, EmptyFacts DEF LoseProcess, WellFormed
  <2>2. QED
    BY <1>2, <1>15, <2>1, AgentFacts DEF LoseProcess
<1>16. CASE DropLink
  BY <1>3, <1>6, <1>15, <1>16 DEF DropLink
<1>17. CASE Crash
  BY <1>15, <1>17 DEF Crash
<1>18. QED
  BY <1>7, <1>8, <1>9, <1>10, <1>11, <1>12, <1>13, <1>14, <1>16, <1>17 DEF Next, Work

LEMMA OrderAtFirst == Init => OInv
<1> SUFFICES ASSUME Init
             PROVE  OInv
  OBVIOUS
<1>1. /\ inbox.msgs = <<>> /\ applied = {} /\ agent = Idle
      /\ execution = [j \in Jobs |-> "none"]
  BY EmptyFacts DEF Init
<1>2. \A i : ~Naming(i)
  BY <1>1 DEF Naming
<1>3. WellFormed(inbox, StartedMessages) /\ WellFormed(outbox, StartedRequests)
  BY EmptyFacts DEF Init
<1>4. QED
  BY <1>1, <1>2, <1>3, AgentFacts
     DEF OInv, CreatedInOrder, StartedInOrder, Started, Terminal, OnlyStarted, NamedInOrder

LEMMA OrderStays == Typed /\ BusyWithJob /\ OInv /\ [Next]_vars => OInv' /\ StartedStay
<1> SUFFICES ASSUME Typed, BusyWithJob, OInv, [Next]_vars
             PROVE  OInv' /\ StartedStay
  OBVIOUS
<1>1. CreatedInOrder /\ StartedInOrder /\ OnlyStarted /\ NamedInOrder
  BY DEF OInv
<1>2. CreatedInOrder' /\ StartedInOrder' /\ StartedStay
  BY <1>1, ExecutionsStayInOrder DEF StartedStay
<1>3. InboxStep
  BY <1>1, InboxSteps
<1>4. OnlyStarted'
  <2>1. WellFormed(inbox, StartedMessages)'
    BY <1>1, <1>2, <1>3, MessagesStayStarted
  <2>2. /\ WellFormed(outbox, StartedRequests)'
        /\ agent'.at # "idle" => Started(agent.job)'
        /\ \A j \in applied' : Started(j)'
    BY <1>1, <1>2, RobotKeepsToStarted
  <2>3. QED
    BY <2>1, <2>2 DEF OnlyStarted
<1>5. NamedInOrder'
  BY <1>1, <1>2, <1>3, NamesStayInOrder
<1>6. QED
  BY <1>2, <1>4, <1>5 DEF OInv
\* What is known of the numbers: jobs and positions.
LEMMA ViewFacts ==
    ASSUME Typed, BusyWithJob, OnlyStarted
    PROVE  /\ inbox.done \in Nat /\ Len(inbox.msgs) \in Nat /\ inbox.done <= Len(inbox.msgs)
           /\ Taken \subseteq Jobs /\ Jobs \subseteq Nat /\ Current \in Nat
           /\ \A a \in Taken : Started(a)
           /\ \A i \in Nat : Good(i) => /\ i > 0 /\ i <= Len(inbox.msgs)
                                        /\ JobAt(i) \in Jobs /\ JobAt(i) \in Nat
<1>1. /\ inbox.done \in Nat /\ Len(inbox.msgs) \in Nat /\ inbox.done <= Len(inbox.msgs)
  <2>1. inbox.msgs \in Seq(RobotMessages) /\ inbox.done \in Nat
    BY DEF Typed, WellFormed, ChannelOf
  <2>2. QED
    BY <2>1 DEF Typed, WellFormed
<1>2. Jobs \subseteq Nat
  BY Assumed DEF Assumptions
<1>3. Applying => agent.job \in Jobs /\ Started(agent.job)
  BY DEF Applying, BusyWithJob, OnlyStarted
<1>4. /\ Taken \subseteq Jobs /\ Current \in Nat
      /\ \A a \in Taken : Started(a)
  <2>1. applied \subseteq Jobs /\ firmware \in Jobs \cup {0} /\ \A a \in applied : Started(a)
    BY DEF Typed, OnlyStarted
  <2>2. Current \in Nat
    <3>1. CASE Applying
      BY <1>2, <1>3, <3>1 DEF Current
    <3>2. CASE ~Applying
      BY <1>2, <2>1, <3>2 DEF Current
    <3>3. QED
      BY <3>1, <3>2
  <2>3. \A a \in Taken : a \in applied \/ (Applying /\ a = agent.job)
    BY DEF Taken
  <2>4. QED
    BY <1>3, <2>1, <2>2, <2>3
<1>5. ASSUME NEW i \in Nat, Good(i)
      PROVE  i > 0 /\ i <= Len(inbox.msgs) /\ JobAt(i) \in Jobs /\ JobAt(i) \in Nat
  <2>1. Naming(i)
    BY <1>5 DEF Good
  <2>2. i \in 1..Len(inbox.msgs)
    BY <2>1 DEF Naming
  <2>3. JobAt(i) \in Jobs
    BY <2>1, NamedFacts
  <2>4. i > 0 /\ i <= Len(inbox.msgs)
    BY <1>1, <2>2
  <2>5. QED
    BY <1>2, <2>3, <2>4
<1>6. QED
  BY <1>1, <1>2, <1>4, <1>5

\* A step that the firmware and the messages are not concerned with.
LEMMA ViewStays ==
    ASSUME Newest, Recurs, UNCHANGED <<inbox, Taken, Current>>
    PROVE  Newest' /\ Recurs'
<1>1. \A i : Good(i)' = Good(i) /\ ToCome(i)' = ToCome(i) /\ JobAt(i)' = JobAt(i)
  BY DEF Good, ToCome, Naming, JobAt
<1>2. QED
  BY <1>1 DEF Newest, Recurs

\* A message that comes in names no job older than one that was taken.
LEMMA AddedView ==
    ASSUME Typed, BusyWithJob, OnlyStarted, StartedInOrder', StartedStay, Newest, Recurs,
           NEW m \in RobotMessages, Adds(m),
           Names(m) => m.job \in Jobs /\ execution'[m.job] = "IN_PROGRESS",
           UNCHANGED <<Taken, Current>>
    PROVE  Newest' /\ Recurs'
<1>1. /\ inbox'.done = inbox.done /\ Len(inbox.msgs) \in Nat
      /\ inbox.done \in Nat /\ inbox.done <= Len(inbox.msgs)
      /\ Taken \subseteq Jobs /\ Jobs \subseteq Nat
      /\ \A a \in Taken : Started(a)
  BY AddedNames, ViewFacts
<1>2. PICK p \in Nat : p = Len(inbox.msgs) + 1
  BY <1>1
<1>3. /\ p > inbox.done
      /\ \A i \in Nat :
            /\ Naming(i)' <=> Naming(i) \/ (i = p /\ Names(m))
            /\ Naming(i) => i < p /\ JobAt(i)' = JobAt(i)
      /\ JobAt(p)' = m.job
  <2>1. \A i \in Nat : i <= Len(inbox.msgs) => i < p
    BY <1>1, <1>2
  <2>2. QED
    BY <1>1, <1>2, <2>1, AddedNames
<1>4. /\ \A i \in Nat : Good(i) => Good(i)' /\ JobAt(i)' = JobAt(i)
      /\ \A i \in Nat : Good(i)' => Good(i) \/ (i = p /\ Names(m) /\ m.job \notin BadJobs)
      /\ Names(m) /\ m.job \notin BadJobs => Good(p)'
  <2>1. \A i \in Nat : Good(i) <=> Naming(i) /\ JobAt(i) \notin BadJobs
    BY DEF Good
  <2>2. \A i \in Nat : Good(i)' <=> Naming(i)' /\ JobAt(i)' \notin BadJobs
    BY DEF Good
  <2>3. QED
    BY <1>3, <2>1, <2>2
<1>5. \A i \in Nat : ToCome(i)' <=> Good(i)' /\ i > inbox.done
  BY <1>1 DEF ToCome
<1>6. Recurs'
  <2> SUFFICES ASSUME NEW i \in Nat, Good(i)', i <= inbox'.done
               PROVE  (\E k \in Nat : Good(k) /\ i <= k /\ Current <= JobAt(k))'
    BY DEF Recurs
  <2>1. i # p /\ i <= inbox.done
    BY <1>1, <1>3
  <2>2. PICK k \in Nat : Good(k) /\ i <= k /\ Current <= JobAt(k)
    BY <1>4, <2>1 DEF Recurs
  <2>3. QED
    BY <1>4, <2>2
<1>7. CASE Names(m) /\ m.job \notin BadJobs
  <2>1. ToCome(p)'
    BY <1>3, <1>4, <1>5, <1>7
  <2>2. \A a \in Taken : a <= m.job
    BY <1>1, <1>7, HandedOutNewest
  <2>3. \A a \in Taken' : a <= JobAt(p)'
    BY <1>3, <2>2
  <2>4. QED
    BY <1>6, <2>1, <2>3 DEF Newest
<1>8. CASE ~(Names(m) /\ m.job \notin BadJobs)
  <2>1. \A i \in Nat : /\ ToCome(i)' <=> ToCome(i)
                       /\ ToCome(i) => JobAt(i)' = JobAt(i)
    BY <1>4, <1>5, <1>8 DEF ToCome
  <2>2. Newest'
    BY <2>1 DEF Newest
  <2>3. QED
    BY <1>6, <2>2
<1>9. QED
  BY <1>7, <1>8

\* What is good moves with the channel.
LEMMA ShiftedView ==
    ASSUME Typed, BusyWithJob, OnlyStarted, NEW o, Shifted(inbox, inbox', o)
    PROVE  /\ o \in Nat
           /\ \A i \in Nat : i > 0 => /\ i + o \in Nat
                                      /\ Good(i)' <=> Good(i + o)
                                      /\ Good(i)' => JobAt(i)' = JobAt(i + o)
           /\ \A i \in Nat : Good(i)' => i > 0
           /\ \A k \in Nat : Good(k) /\ k > o =>
                 \E i \in Nat : i > 0 /\ i + o = k /\ Good(i)' /\ JobAt(i)' = JobAt(k)
<1>1. o \in Nat
  BY DEF Shifted
<1>2. \A i \in Nat : i > 0 => /\ Good(i)' <=> Good(i + o)
                              /\ Good(i)' => JobAt(i)' = JobAt(i + o)
  BY ShiftedNames DEF Good
<1>3. \A i \in Nat : Good(i)' => i > 0
  BY DEF Good, Naming
<1>4. ASSUME NEW k \in Nat, Good(k), k > o
      PROVE  \E i \in Nat : i > 0 /\ i + o = k /\ Good(i)' /\ JobAt(i)' = JobAt(k)
  <2>1. (k - o) \in Nat /\ (k - o) > 0 /\ (k - o) + o = k
    BY <1>1, <1>4
  <2>2. QED
    BY <1>2, <1>4, <2>1
<1>5. QED
  BY <1>1, <1>2, <1>3, <1>4

\* After a drop the newest job taken still runs, or is sent again, or was on its way.
LEMMA ResentView ==
    ASSUME Typed, BusyWithJob, OnlyStarted, Newest, Recurs,
           inbox' \in Resent(inbox), UNCHANGED <<Taken, Current>>
    PROVE  Newest' /\ Recurs'
<1>1. PICK o \in 0..inbox.done : inbox'.done = 0 /\ Shifted(inbox, inbox', o)
  BY ResentPositions DEF Typed
<1>2. /\ o \in Nat
      /\ \A i \in Nat : i > 0 => /\ i + o \in Nat
                                 /\ Good(i)' <=> Good(i + o)
                                 /\ Good(i)' => JobAt(i)' = JobAt(i + o)
      /\ \A i \in Nat : Good(i)' => i > 0
      /\ \A k \in Nat : Good(k) /\ k > o =>
            \E i \in Nat : i > 0 /\ i + o = k /\ Good(i)' /\ JobAt(i)' = JobAt(k)
  BY <1>1, ShiftedView
<1>3. inbox.done \in Nat /\ o <= inbox.done /\ Taken \subseteq Nat /\ Current \in Nat
      /\ \A i \in Nat : Good(i) => JobAt(i) \in Nat
  BY <1>1, ViewFacts
<1>4. \A i \in Nat : ToCome(i)' <=> Good(i)'
  BY <1>1, <1>2 DEF ToCome
<1>5. Recurs'
  BY <1>1, <1>2 DEF Recurs
<1>6. ASSUME NEW a \in Taken, NEW k \in Nat, Good(k), k > o, a <= JobAt(k)
      PROVE  (\E i \in Nat : ToCome(i) /\ a <= JobAt(i))'
  BY <1>2, <1>4, <1>6
<1>7. CASE \E i \in Nat : ToCome(i)
  <2>1. ASSUME NEW a \in Taken
        PROVE  \E k \in Nat : Good(k) /\ k > o /\ a <= JobAt(k)
    <3>1. PICK k \in Nat : ToCome(k) /\ a <= JobAt(k)
      BY <1>7 DEF Newest
    <3>2. QED
      BY <1>2, <1>3, <3>1 DEF ToCome
  <2>2. \A a \in Taken : (\E i \in Nat : ToCome(i) /\ a <= JobAt(i))'
    BY <1>6, <2>1
  <2>3. (\A i \in Nat : ~ToCome(i))' => Taken = {}
    BY <2>2
  <2>4. QED
    BY <1>5, <2>2, <2>3 DEF Newest
<1>8. CASE \A i \in Nat : ~ToCome(i)
  <2>1. \A a \in Taken : a <= Current
    BY <1>8 DEF Newest
  <2>2. ASSUME NEW i \in Nat, ToCome(i)'
        PROVE  \E k \in Nat : Good(k) /\ k > o /\ Current <= JobAt(k)
    <3>1. i > 0 /\ Good(i + o) /\ i + o \in Nat
      BY <1>2, <1>4, <2>2
    <3>2. i + o <= inbox.done
      BY <1>3, <1>8, <3>1 DEF ToCome
    <3>3. PICK k \in Nat : Good(k) /\ i + o <= k /\ Current <= JobAt(k)
      BY <3>1, <3>2 DEF Recurs
    <3>4. QED
      BY <1>2, <3>1, <3>3
  <2>3. (\E i \in Nat : ToCome(i))' =>
           \A a \in Taken : \E k \in Nat : Good(k) /\ k > o /\ a <= JobAt(k)
    BY <1>3, <2>1, <2>2
  <2>4. (\E i \in Nat : ToCome(i))' =>
           \A a \in Taken : (\E i \in Nat : ToCome(i) /\ a <= JobAt(i))'
    BY <1>6, <2>3
  <2>5. QED
    BY <1>5, <2>1, <2>4 DEF Newest
<1>9. QED
  BY <1>7, <1>8
\* The message handled is of no interest, or its job becomes the current one, and is no
\* older than what was taken before, or another one comes that is.
LEMMA HandledView ==
    ASSUME Typed, BusyWithJob, OnlyStarted, NamedInOrder, Newest, Recurs,
           HasNext(inbox), inbox' = Handled(inbox), NEW h \in Nat, h = inbox.done + 1,
           ~Good(h) => UNCHANGED <<Taken, Current>>,
           Good(h) => Taken' = Taken \cup {JobAt(h)} /\ Current' = JobAt(h)
    PROVE  Newest' /\ Recurs'
<1>1. PICK o \in {0, 1} : Shifted(inbox, inbox', o) /\ inbox'.done = inbox.done + 1 - o
  BY HandledPositions, Assumed DEF Typed, Assumptions
<1>2. /\ o \in Nat
      /\ \A i \in Nat : i > 0 => /\ i + o \in Nat
                                 /\ Good(i)' <=> Good(i + o)
                                 /\ Good(i)' => JobAt(i)' = JobAt(i + o)
      /\ \A i \in Nat : Good(i)' => i > 0
      /\ \A k \in Nat : Good(k) /\ k > o =>
            \E i \in Nat : i > 0 /\ i + o = k /\ Good(i)' /\ JobAt(i)' = JobAt(k)
  BY <1>1, ShiftedView
<1>3. inbox.done \in Nat /\ inbox'.done = h - o /\ Taken \subseteq Nat /\ Current \in Nat
      /\ \A i \in Nat : Good(i) => JobAt(i) \in Nat
  BY <1>1, ViewFacts
<1>4. \A i \in Nat : ToCome(i) <=> Good(i) /\ i >= h
  BY <1>3 DEF ToCome
<1>5. \A i \in Nat : ToCome(i)' <=> Good(i)' /\ i + o > h
  BY <1>2, <1>3 DEF ToCome
\* Back and forth between the messages to come before and after.
<1>6. ASSUME NEW i \in Nat, ToCome(i)'
      PROVE  i + o \in Nat /\ Good(i + o) /\ i + o > h /\ JobAt(i)' = JobAt(i + o)
  BY <1>2, <1>5, <1>6
<1>7. ASSUME NEW k \in Nat, Good(k), k > h
      PROVE  \E i \in Nat : ToCome(i)' /\ JobAt(i)' = JobAt(k)
  <2>1. k > o
    BY <1>1, <1>3, <1>7
  <2>2. QED
    BY <1>2, <1>5, <1>7, <2>1
<1>8. CASE ~Good(h)
  <2>1. UNCHANGED <<Taken, Current>>
    BY <1>8
  <2>2. \A i \in Nat : ToCome(i) => i > h /\ Good(i)
    BY <1>4, <1>8
  <2>3. (\E i \in Nat : ToCome(i))' =>
           \A a \in Taken : (\E i \in Nat : ToCome(i) /\ a <= JobAt(i))'
    <3> SUFFICES ASSUME NEW i \in Nat, ToCome(i)', NEW a \in Taken
                 PROVE  (\E b \in Nat : ToCome(b) /\ a <= JobAt(b))'
      OBVIOUS
    <3>1. ToCome(i + o) /\ i + o \in Nat
      BY <1>3, <1>4, <1>6
    <3>2. PICK k \in Nat : ToCome(k) /\ a <= JobAt(k)
      BY <3>1 DEF Newest
    <3>3. \E b \in Nat : ToCome(b)' /\ JobAt(b)' = JobAt(k)
      BY <1>7, <2>2, <3>2
    <3>4. QED
      BY <3>2, <3>3
  <2>4. (\A i \in Nat : ~ToCome(i))' => \A a \in Taken : a <= Current
    <3>1. (\A i \in Nat : ~ToCome(i))' => \A i \in Nat : ~ToCome(i)
      BY <1>7, <2>2
    <3>2. QED
      BY <3>1 DEF Newest
  <2>5. Newest'
    BY <2>1, <2>3, <2>4 DEF Newest
  <2>6. Recurs'
    <3> SUFFICES ASSUME NEW i \in Nat, Good(i)', i <= inbox'.done
                 PROVE  (\E k \in Nat : Good(k) /\ i <= k /\ Current <= JobAt(k))'
      BY DEF Recurs
    <3>1. i > 0 /\ Good(i + o) /\ i + o \in Nat
      BY <1>2
    <3>2. i + o # h
      BY <1>8, <3>1
    <3>3. i + o <= inbox.done
      BY <1>2, <1>3, <3>1, <3>2
    <3>4. PICK k \in Nat : Good(k) /\ i + o <= k /\ Current <= JobAt(k)
      BY <3>1, <3>3 DEF Recurs
    <3>5. PICK b \in Nat : b > 0 /\ b + o = k /\ Good(b)' /\ JobAt(b)' = JobAt(k)
      BY <1>2, <3>1, <3>4
    <3>6. i <= b
      BY <1>2, <3>4, <3>5
    <3>7. QED
      BY <2>1, <3>4, <3>5, <3>6
  <2>7. QED
    BY <2>5, <2>6
<1>9. CASE Good(h)
  <2>1. Taken' = Taken \cup {JobAt(h)} /\ Current' = JobAt(h) /\ ToCome(h) /\ JobAt(h) \in Nat
    BY <1>3, <1>4, <1>9
  <2>2. \A k \in Nat : Good(k) /\ k > h => JobAt(h) <= JobAt(k)
    BY <1>9 DEF NamedInOrder, Good
  <2>3. (\E i \in Nat : ToCome(i))' =>
           \A a \in Taken' : (\E i \in Nat : ToCome(i) /\ a <= JobAt(i))'
    <3> SUFFICES ASSUME NEW i \in Nat, ToCome(i)', NEW a \in Taken'
                 PROVE  (\E b \in Nat : ToCome(b) /\ a <= JobAt(b))'
      OBVIOUS
    <3>1. \E k \in Nat : Good(k) /\ k > h /\ a <= JobAt(k)
      <4>1. /\ Good(i + o) /\ i + o \in Nat /\ i + o > h
            /\ JobAt(i + o) \in Nat /\ JobAt(h) <= JobAt(i + o)
        BY <1>3, <1>6, <2>2
      <4>2. CASE a = JobAt(h)
        BY <4>1, <4>2
      <4>3. CASE a \in Taken
        <5>1. PICK k \in Nat : ToCome(k) /\ a <= JobAt(k)
          BY <2>1, <4>3 DEF Newest
        <5>2. CASE k = h
          BY <1>3, <2>1, <4>1, <4>3, <5>1, <5>2
        <5>3. CASE k # h
          BY <1>3, <1>4, <5>1, <5>3
        <5>4. QED
          BY <5>2, <5>3
      <4>4. QED
        BY <2>1, <4>2, <4>3
    <3>2. QED
      BY <1>7, <3>1
  <2>4. (\A i \in Nat : ~ToCome(i))' => \A a \in Taken' : a <= Current'
    <3> SUFFICES ASSUME (\A i \in Nat : ~ToCome(i))', NEW a \in Taken'
                 PROVE  a <= JobAt(h)
      BY <2>1
    <3>1. \A k \in Nat : ToCome(k) => k = h
      BY <1>3, <1>4, <1>7
    <3>2. CASE a = JobAt(h)
      BY <2>1, <3>2
    <3>3. CASE a \in Taken
      BY <2>1, <3>1, <3>3 DEF Newest
    <3>4. QED
      BY <2>1, <3>2, <3>3
  <2>5. Newest'
    BY <2>3, <2>4 DEF Newest
  <2>6. Recurs'
    <3> SUFFICES ASSUME NEW i \in Nat, Good(i)', i <= inbox'.done
                 PROVE  (\E k \in Nat : Good(k) /\ i <= k /\ Current <= JobAt(k))'
      BY DEF Recurs
    <3>1. i > 0
      BY <1>2
    <3>2. h > o
      BY <1>2, <1>3, <3>1
    <3>3. PICK b \in Nat : b > 0 /\ b + o = h /\ Good(b)' /\ JobAt(b)' = JobAt(h)
      BY <1>2, <1>9, <3>2
    <3>4. i <= b
      BY <1>2, <1>3, <3>3
    <3>5. QED
      BY <2>1, <3>3, <3>4
  <2>7. QED
    BY <2>5, <2>6
<1>10. QED
  BY <1>8, <1>9
\* A session that is spared was spared before.
LEMMA SparedBefore ==
    ASSUME Typed, [Next]_vars, Spared'
    PROVE  Spared /\ ~ExpireSession /\ ~Crash
<1>1. /\ faults \in Faults
      /\ faults.drops \in Nat /\ faults.expiries \in Nat /\ faults.crashes \in Nat
  BY DEF Typed, Faults
<1>2. ExpireSession => faults'.expiries = faults.expiries + 1
  BY <1>1 DEF ExpireSession, Faults
<1>3. Crash => faults'.crashes = faults.crashes + 1
  BY <1>1 DEF Crash, Faults
<1>4. ~ExpireSession /\ ~Crash
  BY <1>1, <1>2, <1>3 DEF Spared
<1>5. CASE DropLink
  BY <1>1, <1>4, <1>5 DEF DropLink, Spared, Faults
<1>6. CASE CreateJob \/ Work \/ UNCHANGED vars
  BY <1>4, <1>6
     DEF CreateJob, Work, ServeRequest, OnPendingJobsResponse, OnJobsChanged, OnNextJob,
         Receives, ApplyOta, ReportJob, Connect, Unheard, SubscribeJobs, OnConnectionResumed,
         vars, Spared
<1>7. QED
  BY <1>4, <1>5, <1>6 DEF Next

\* No step of a spared session unsettles it.
LEMMA StaysSettling ==
    ASSUME Typed, BusyWithJob, OInv, OInv', StartedStay, Settling, [Next]_vars,
           ~ExpireSession, ~Crash
    PROVE  Settling'
<1> USE DEF robot
<1>1. /\ OnlyStarted /\ NamedInOrder /\ StartedInOrder'
      /\ Fresh /\ Newest /\ Recurs /\ (applied # {} => firmware \in applied)
  BY DEF OInv, Settling
<1>2. ASSUME UNCHANGED <<agent, firmware, applied>>
      PROVE  UNCHANGED <<Taken, Current, Applying>>
  BY <1>2 DEF Taken, Current, Applying
\* What is published reaches a robot that subscribes, so one that has started.
<1>3. ASSUME NEW m \in RobotMessages, Publish(m),
             Names(m) => m.job \in Jobs /\ execution'[m.job] = "IN_PROGRESS",
             UNCHANGED <<subscribed, robot>>
      PROVE  Settling'
  <2>1. CASE subscribed
    <3>1. Adds(m)
      BY <1>3, <2>1 DEF Publish, Adds
    <3>2. Newest' /\ Recurs'
      BY <1>1, <1>2, <1>3, <3>1, AddedView
    <3>3. Fresh'
      BY <1>1, <1>3, <2>1 DEF Fresh
    <3>4. QED
      BY <1>1, <1>3, <3>2, <3>3 DEF Settling
  <2>2. CASE ~subscribed
    <3>1. UNCHANGED inbox
      BY <1>3, <2>2 DEF Publish
    <3>2. Newest' /\ Recurs'
      BY <1>1, <1>2, <1>3, <3>1, ViewStays
    <3>3. Fresh'
      BY <1>1, <1>3, <3>1 DEF Fresh
    <3>4. QED
      BY <1>1, <1>3, <3>2, <3>3 DEF Settling
  <2>3. QED
    BY <2>1, <2>2
<1>4. ASSUME UNCHANGED <<inbox, subscribed, robot>>
      PROVE  Settling'
  <2>1. Newest' /\ Recurs'
    BY <1>1, <1>2, <1>4, ViewStays
  <2>2. Fresh'
    BY <1>1, <1>4 DEF Fresh
  <2>3. QED
    BY <1>1, <1>4, <2>1, <2>2 DEF Settling
<1>5. ASSUME Tells, UNCHANGED <<subscribed, robot>>
      PROVE  Settling'
  <2>1. ASSUME NEW q \in BOOLEAN, Publish(Notify(q)) \/ Publish(Pending(q))
        PROVE  Settling'
    BY <1>3, <1>5, <2>1, MessageFacts, MessageNames
  <2>2. QED
    BY <1>4, <1>5, <2>1 DEF Tells
<1>6. CASE CreateJob
  BY <1>5, <1>6 DEF CreateJob, Tells
<1>7. CASE ServeRequest
  <2>1. UNCHANGED <<subscribed, robot>>
    BY <1>7 DEF ServeRequest
  <2>2. ASSUME NEW j \in Jobs \cup {NoJob}, HandsOut(j)
        PROVE  Settling'
    <3>1. Publish(NextJob(j)) /\ NextJob(j) \in RobotMessages
      BY <2>2, MessageFacts DEF HandsOut
    <3>2. Names(NextJob(j)) => j \in Jobs /\ execution'[j] = "IN_PROGRESS"
      BY <2>2, MessageNames DEF HandsOut, Typed
    <3>3. NextJob(j).job = j
      BY DEF NextJob
    <3>4. QED
      BY <1>3, <2>1, <3>1, <3>2, <3>3
  <2>3. QED
    BY <1>1, <1>5, <1>7, <2>1, <2>2, ServeSteps
\* The robot handles a message.
<1>8. PICK h \in Nat : h = inbox.done + 1
  <2>1. inbox.done \in Nat
    BY <1>1, ViewFacts
  <2>2. QED
    BY <2>1
<1>9. ASSUME HasNext(inbox)
      PROVE  /\ Good(h) <=> Names(NextOf(inbox)) /\ NextOf(inbox).job \notin BadJobs
             /\ JobAt(h) = NextOf(inbox).job
  <2>1. h \in 1..Len(inbox.msgs)
    <3>1. inbox.done \in Nat /\ Len(inbox.msgs) \in Nat /\ inbox.done < Len(inbox.msgs)
      BY <1>1, <1>9, ViewFacts DEF HasNext
    <3>2. QED
      BY <1>8, <3>1
  <2>2. NextOf(inbox) = inbox.msgs[h]
    BY <1>8 DEF NextOf
  <2>3. QED
    BY <2>1, <2>2 DEF Good, Naming, JobAt
<1>10. CASE OnPendingJobsResponse \/ OnJobsChanged
  <2>1. /\ HasNext(inbox) /\ inbox' = Handled(inbox) /\ NextOf(inbox).type # "next"
        /\ process = "running" /\ UNCHANGED <<process, agent, firmware, applied>>
    BY <1>10 DEF OnPendingJobsResponse, OnJobsChanged, Receives
  <2>2. ~Good(h)
    BY <1>9, <2>1 DEF Names
  <2>3. Newest' /\ Recurs'
    BY <1>1, <1>2, <1>8, <2>1, <2>2, HandledView
  <2>4. QED
    BY <1>1, <2>1, <2>3 DEF Settling, Fresh
<1>11. CASE OnNextJob
  <2>1. /\ HasNext(inbox) /\ inbox' = Handled(inbox) /\ NextOf(inbox).type = "next"
        /\ process = "running" /\ agent = Idle /\ UNCHANGED <<process, firmware, applied>>
        /\ NextOf(inbox).job = NoJob => UNCHANGED agent
        /\ NextOf(inbox).job # NoJob => agent' = [at |-> "apply", job |-> NextOf(inbox).job]
    BY <1>11 DEF OnNextJob, Receives
  <2>2. Taken = applied /\ Current = firmware
    BY <2>1, AgentFacts DEF Taken, Current, Applying
  <2>3. Applying' <=> Good(h)
    BY <1>9, <2>1, AgentFacts DEF Applying, Names
  <2>4. ~Good(h) => UNCHANGED <<Taken, Current>>
    BY <2>1, <2>2, <2>3 DEF Taken, Current
  <2>5. Good(h) => agent'.job = JobAt(h)
    BY <1>9, <2>1 DEF Names
  <2>6. Good(h) => Taken' = Taken \cup {JobAt(h)} /\ Current' = JobAt(h)
    BY <2>1, <2>2, <2>3, <2>5 DEF Taken, Current
  <2>7. Newest' /\ Recurs'
    BY <1>1, <1>8, <2>1, <2>4, <2>6, HandledView
  <2>8. QED
    BY <1>1, <2>1, <2>7 DEF Settling, Fresh
<1>12. CASE ApplyOta
  <2>1. /\ agent.at = "apply" /\ agent'.at = "report" /\ agent'.job = agent.job
        /\ UNCHANGED <<inbox, process>>
        /\ agent.job \in BadJobs => UNCHANGED <<firmware, applied>>
        /\ agent.job \notin BadJobs => firmware' = agent.job
                                       /\ applied' = applied \cup {agent.job}
    BY <1>12, AgentFacts DEF ApplyOta, Typed
  <2>2. ~Applying'
    BY <2>1 DEF Applying
  <2>3. UNCHANGED <<Taken, Current>>
    BY <2>1, <2>2 DEF Taken, Current, Applying
  <2>4. Newest' /\ Recurs'
    BY <1>1, <2>1, <2>3, ViewStays
  <2>5. process' = "running"
    BY <1>1, <2>1, AgentFacts DEF Fresh
  <2>6. applied' # {} => firmware' \in applied'
    BY <1>1, <2>1
  <2>7. QED
    BY <2>4, <2>5, <2>6 DEF Settling, Fresh
<1>13. CASE ReportJob
  <2>1. /\ agent.at = "report" /\ agent' = Idle
        /\ UNCHANGED <<inbox, process, firmware, applied>>
    BY <1>13 DEF ReportJob
  <2>2. UNCHANGED <<Taken, Current>>
    BY <2>1, AgentFacts DEF Taken, Current, Applying
  <2>3. Newest' /\ Recurs'
    BY <1>1, <2>1, <2>2, ViewStays
  <2>4. process' = "running"
    BY <1>1, <2>1, AgentFacts DEF Fresh
  <2>5. QED
    BY <1>1, <2>1, <2>3, <2>4 DEF Settling, Fresh
<1>14. CASE Connect \/ SubscribeJobs
  <2>1. /\ UNCHANGED <<inbox, agent, firmware, applied>>
        /\ process # "running"
        /\ process' = "running" \/ UNCHANGED subscribed
    BY <1>14 DEF Connect, SubscribeJobs
  <2>2. Newest' /\ Recurs'
    BY <1>1, <1>2, <2>1, ViewStays
  <2>3. Fresh'
    BY <1>1, <2>1 DEF Fresh
  <2>4. QED
    BY <1>1, <2>1, <2>2, <2>3 DEF Settling
<1>15. CASE OnConnectionResumed \/ UNCHANGED vars
  BY <1>4, <1>15 DEF OnConnectionResumed, vars
\* There is nothing yet that could be unheard.
<1>16. CASE Unheard
  BY <1>1, <1>16 DEF Unheard, Fresh, HasNext, Typed, WellFormed, ChannelOf
<1>17. CASE DropLink
  <2>1. inbox' \in Resent(inbox) /\ UNCHANGED subscribed /\ applied' = applied
    BY <1>17 DEF DropLink, LoseProcess
  <2>2. inbox.msgs = <<>> => inbox'.msgs = <<>>
    <3>1. WellFormed(inbox', RobotMessages)
      BY <2>1, ChannelFacts
    <3>2. QED
      BY <2>1, <3>1, ResentFacts DEF Typed
  <2>3. CASE process = "starting"
    <3>1. agent = Idle /\ agent' = Idle /\ applied = {} /\ process' = "off"
      BY <1>1, <1>17, <2>3 DEF DropLink, LoseProcess, Fresh
    <3>2. Taken' = {}
      BY <2>1, <3>1, AgentFacts DEF Taken, Applying
    <3>3. inbox'.msgs = <<>> /\ ~subscribed'
      BY <1>1, <2>1, <2>2, <2>3 DEF Fresh
    <3>4. \A i \in Nat : ~Good(i)'
      BY <3>3 DEF Good, Naming
    <3>5. Newest' /\ Recurs'
      BY <3>2, <3>4 DEF Newest, Recurs, ToCome
    <3>6. QED
      BY <2>1, <3>1, <3>3, <3>5 DEF Settling, Fresh
  <2>4. CASE process # "starting"
    <3>1. UNCHANGED robot
      BY <1>17, <2>4 DEF DropLink
    <3>2. Newest' /\ Recurs'
      BY <1>1, <1>2, <2>1, <3>1, ResentView
    <3>3. Fresh'
      BY <1>1, <2>1, <2>2, <3>1 DEF Fresh
    <3>4. QED
      BY <1>1, <3>1, <3>2, <3>3 DEF Settling
  <2>5. QED
    BY <2>3, <2>4
<1>18. QED
  BY <1>6, <1>7, <1>10, <1>11, <1>12, <1>13, <1>14, <1>15, <1>16, <1>17 DEF Next, Work

\* The robot ends on the newest firmware it ever applied: with any number of jobs, and
\* however often and at whatever moment the link drops and messages are sent again.
THEOREM NewestSettles == Spec => []SettlesOnNewest
<1> DEFINE Inv == Typed /\ BusyWithJob /\ OInv /\ NInv
<1> USE DEF robot
<1>1. Init => Inv
  <2> SUFFICES ASSUME Init
               PROVE  OInv /\ NInv
    BY TypedAtFirst
  <2>1. /\ inbox.msgs = <<>> /\ applied = {} /\ agent = Idle /\ process = "off" /\ ~subscribed
    BY EmptyFacts DEF Init
  <2>2. \A i : ~Naming(i)
    BY <2>1 DEF Naming
  <2>3. Taken = {} /\ Fresh
    BY <2>1, AgentFacts DEF Taken, Applying, Fresh
  <2>4. Newest /\ Recurs
    BY <2>2, <2>3 DEF Newest, Recurs, ToCome, Good
  <2>5. QED
    BY <2>1, <2>3, <2>4, OrderAtFirst DEF NInv, Settling
<1>2. Inv /\ [Next]_vars => Inv'
  <2> SUFFICES ASSUME Inv, [Next]_vars
               PROVE  Inv'
    OBVIOUS
  <2>1. Typed' /\ BusyWithJob' /\ OInv' /\ StartedStay
    BY NextKeepsTypes, OrderStays
  <2>2. ASSUME Spared'
        PROVE  Settling'
    <3>1. Spared /\ ~ExpireSession /\ ~Crash
      BY <2>2, SparedBefore
    <3>2. Settling
      BY <3>1 DEF NInv
    <3>3. QED
      BY <2>1, <3>1, <3>2, StaysSettling
  <2>3. NInv'
    BY <2>2 DEF NInv
  <2>4. QED
    BY <2>1, <2>3
<1>3. Inv => SettlesOnNewest
  <2> SUFFICES ASSUME Typed, BusyWithJob, OInv, NInv, Quiet, applied # {},
                      faults.expiries = 0, faults.crashes = 0
               PROVE  firmware = Max(applied)
    BY DEF SettlesOnNewest
  <2>1. OnlyStarted /\ Newest /\ firmware \in applied
    BY DEF OInv, NInv, Spared, Settling
  <2>2. \A i \in Nat : ~ToCome(i)
    BY <2>1, ViewFacts DEF Quiet, HasNext, ToCome
  <2>3. Taken = applied /\ Current = firmware
    BY AgentFacts DEF Quiet, Taken, Current, Applying
  <2>4. \A a \in applied : a <= firmware
    BY <2>1, <2>2, <2>3 DEF Newest
  <2>5. applied \subseteq Nat
    BY Assumed DEF Typed, Assumptions
  <2>6. \A x \in applied : (\A y \in applied : x >= y) => x = firmware
    BY <2>1, <2>4, <2>5
  <2>7. \A y \in applied : firmware >= y
    BY <2>1, <2>4, <2>5
  <2>8. QED
    BY <2>1, <2>6, <2>7 DEF Max
<1>4. QED
  BY <1>1, <1>2, <1>3, PTL DEF Spec
----------------------------------------------------------------------------
(* The queue.                                                              *)

\* A session that has not expired is there whenever the robot runs.
Served == process = "running" => subscribed
QInv == faults.expiries = 0 => Served /\ QueueAttended

\* The messages and requests that attend to the queue are told apart by what they say.
LEMMA AttendingFacts ==
    /\ Notify(TRUE).type = "notify" /\ Notify(TRUE).queued = TRUE
    /\ Pending(TRUE).type = "pending" /\ Pending(TRUE).queued = TRUE
    /\ \A j \in Jobs : NextJob(j).type = "next" /\ NextJob(j).job = j
    /\ GetPending.type = "getPending" /\ StartNext.type = "startNext"
    /\ \A j \in Jobs, st \in Terminal : /\ Update(j, st).type = "update"
                                        /\ Update(j, st).job = j /\ Update(j, st).to = st
BY DEF Notify, Pending, NextJob, GetPending, StartNext, Update

\* What comes into the channels stays there until it is handled.
LEMMA UnhandledFacts ==
    ASSUME Typed
    PROVE  /\ \A m \in Requests : Unhandled(outbox) \cup {m} \subseteq Unhandled(Put(outbox, m))
           /\ \A m \in RobotMessages :
                 Unhandled(inbox) \cup {m} \subseteq Unhandled(Put(inbox, m))
           /\ HasNext(outbox) =>
                 Unhandled(outbox) \subseteq Unhandled(Handled(outbox)) \cup {NextOf(outbox)}
           /\ HasNext(inbox) =>
                 Unhandled(inbox) \subseteq Unhandled(Handled(inbox)) \cup {NextOf(inbox)}
           /\ \A p \in Resent(outbox) : Unhandled(outbox) \subseteq Unhandled(p)
           /\ \A p \in Resent(inbox) : Unhandled(inbox) \subseteq Unhandled(p)
BY PutUnhandled, HandledUnhandled, ResentUnhandled, Assumed DEF Typed, Assumptions

Attended == Asks \/ ToldToAsk \/ \E j \in With("IN_PROGRESS", execution) : InHand(j)

\* A step that takes nothing out of the channels and leaves the job in hand.
LEMMA AttendedStays ==
    ASSUME Attended, Unhandled(outbox) \subseteq Unhandled(outbox'),
           Unhandled(inbox) \subseteq Unhandled(inbox'),
           With("IN_PROGRESS", execution) \subseteq With("IN_PROGRESS", execution'),
           agent.at # "idle" => agent'.at # "idle" /\ agent'.job = agent.job
    PROVE  Attended'
<1>1. Asks => Asks'
  BY DEF Asks, Unhandled
<1>2. ToldToAsk => ToldToAsk'
  BY DEF ToldToAsk, Unhandled
<1>3. \A j : InHand(j) => InHand(j)'
  BY DEF InHand, Unhandled
<1>4. (\E j \in With("IN_PROGRESS", execution) : InHand(j))
         => (\E j \in With("IN_PROGRESS", execution) : InHand(j))'
  BY <1>3 DEF With
<1>5. QED
  BY <1>1, <1>2, <1>4 DEF Attended

\* IoT Jobs answers: what is asked for is handed out, and the end of a job is announced.
LEMMA AttendedWhenServed ==
    ASSUME Typed, OnlyStarted, ServeRequest, subscribed, AnyQueued(execution'),
           AnyQueued(execution) => Attended
    PROVE  Attended'
<1> DEFINE m == NextOf(outbox)
<1>1. /\ m \in Requests /\ m.type \in {"getPending", "startNext", "update"}
      /\ m.type = "update" => /\ m.job \in Jobs /\ m.to \in {"IN_PROGRESS"} \cup Terminal
                              /\ Started(m.job)
  BY NextRequestFacts DEF ServeRequest
<1>2. /\ HasNext(outbox) /\ outbox' = Handled(outbox) /\ UNCHANGED agent
      /\ Unhandled(outbox) \subseteq Unhandled(outbox') \cup {m}
  BY UnhandledFacts DEF ServeRequest, robot
<1>3. AnyQueued(execution)
  <2>1. \A j \in Jobs : execution'[j] = "QUEUED" => execution[j] = "QUEUED"
    BY ServeSteps DEF HandsOut, Marks, Typed, Terminal
  <2>2. QED
    BY <2>1 DEF AnyQueued, With
<1>4. Attended
  BY <1>3
<1>5. ASSUME NEW q \in {Notify(TRUE), Pending(TRUE)}, Publish(q)
      PROVE  Attended'
  <2>1. q \in RobotMessages /\ inbox' = Put(inbox, q)
    BY <1>5, MessageFacts DEF Publish
  <2>2. q \in Unhandled(inbox')
    BY <2>1, UnhandledFacts
  <2>3. q \in Unhandled(inbox)'
    BY <2>2 DEF Unhandled
  <2>4. QED
    BY <2>3 DEF Attended, ToldToAsk
<1>6. CASE m.type = "getPending"
  <2>1. Publish(Pending(AnyQueued(execution)))
    BY <1>6 DEF ServeRequest, AnswerGetPending
  <2>2. Pending(AnyQueued(execution)) = Pending(TRUE)
    BY <1>3 DEF AnyQueued
  <2>3. QED
    BY <1>5, <2>1, <2>2
<1>7. CASE m.type = "startNext"
  <2>1. AnswerStartNext
    BY <1>7 DEF ServeRequest
  <2>2. PICK j \in Jobs \cup {NoJob} : HandsOut(j)
    BY <2>1, StartNextFacts
  <2>3. j \in Jobs /\ execution'[j] = "IN_PROGRESS" /\ inbox' = Put(inbox, NextJob(j))
    BY <1>3, <2>2 DEF HandsOut, Typed, Publish
  <2>4. NextJob(j) \in Unhandled(inbox')
    BY <2>3, UnhandledFacts, MessageFacts
  <2>5. NextJob(j) \in Unhandled(inbox)'
    BY <2>4 DEF Unhandled
  <2>6. InHand(j)'
    BY <2>5 DEF InHand
  <2>7. j \in With("IN_PROGRESS", execution)'
    BY <2>3 DEF With
  <2>8. QED
    BY <2>6, <2>7 DEF Attended
\* An update that ends nothing takes away nothing that attends to the queue.
<1>8. ASSUME m.type = "update", UNCHANGED <<execution, inbox>>,
             execution[m.job] \in Terminal \/ m.to \notin Terminal
      PROVE  Attended'
  <2>1. m # GetPending /\ m # StartNext
    BY <1>8, AttendingFacts
  <2>2. Asks => Asks'
    BY <1>2, <2>1 DEF Asks, Unhandled
  <2>3. ToldToAsk => ToldToAsk'
    BY <1>8 DEF ToldToAsk, Unhandled
  <2>4. ASSUME NEW j \in With("IN_PROGRESS", execution), InHand(j)
        PROVE  InHand(j)'
    <3>1. j \in Jobs /\ execution[j] = "IN_PROGRESS" /\ "IN_PROGRESS" \notin Terminal
      BY <2>4 DEF With, Terminal
    <3>2. \A st \in Terminal : Update(j, st) # m
      BY <1>8, <3>1, AttendingFacts
    <3>3. \A st \in Terminal : Update(j, st) \in Unhandled(outbox) =>
                               Update(j, st) \in Unhandled(outbox')
      BY <1>2, <3>2
    <3>4. \A st \in Terminal : Update(j, st) \in Unhandled(outbox') =>
                               (Update(j, st) \in Unhandled(outbox))'
      BY DEF Unhandled
    <3>5. NextJob(j) \in Unhandled(inbox) => (NextJob(j) \in Unhandled(inbox))'
      BY <1>8 DEF Unhandled
    <3>6. QED
      BY <1>2, <2>4, <3>3, <3>4, <3>5 DEF InHand
  <2>5. With("IN_PROGRESS", execution)' = With("IN_PROGRESS", execution)
    BY <1>8 DEF With
  <2>6. QED
    BY <1>4, <2>2, <2>3, <2>4, <2>5 DEF Attended
<1>9. CASE m.type = "update"
  <2>1. AnswerUpdate(m.job, m.to)
    BY <1>9 DEF ServeRequest
  <2>2. CASE execution[m.job] \in Terminal
    BY <1>8, <1>9, <2>1, <2>2 DEF AnswerUpdate
  <2>3. CASE execution[m.job] \notin Terminal /\ m.to \notin Terminal
    <3>1. execution[m.job] = "IN_PROGRESS" /\ m.to = "IN_PROGRESS"
      BY <1>1, <1>9, <2>3 DEF Started
    <3>2. execution' = [execution EXCEPT ![m.job] = "IN_PROGRESS"] /\ UNCHANGED inbox
      BY <2>1, <2>3, <3>1 DEF AnswerUpdate
    <3>3. UNCHANGED execution
      BY <3>1, <3>2 DEF Typed
    <3>4. QED
      BY <1>8, <1>9, <2>3, <3>2, <3>3
  <2>4. CASE execution[m.job] \notin Terminal /\ m.to \in Terminal
    <3>1. Publish(Notify(AnyQueued(execution')))
      BY <2>1, <2>4 DEF AnswerUpdate
    <3>2. Notify(AnyQueued(execution')) = Notify(TRUE)
      BY DEF AnyQueued
    <3>3. QED
      BY <1>5, <3>1, <3>2
  <2>5. QED
    BY <2>2, <2>3, <2>4
<1>10. QED
  BY <1>1, <1>6, <1>7, <1>9
LEMMA QueueStaysAttended ==
    ASSUME Typed, BusyWithJob, OnlyStarted, Served, QueueAttended, [Next]_vars,
           faults.expiries = 0, faults'.expiries = 0
    PROVE  Served' /\ QueueAttended'
<1> USE DEF robot
<1>1. Served'
  <2>1. CASE ExpireSession
    BY <2>1 DEF ExpireSession, Typed, Faults
  <2>2. CASE SubscribeJobs
    BY <2>2 DEF SubscribeJobs, Served
  <2>3. CASE DropLink \/ Crash
    BY <2>3 DEF DropLink, Crash, LoseProcess, Served
  <2>4. CASE Connect
    BY <2>4 DEF Connect, Served
  <2>5. CASE \/ CreateJob \/ ServeRequest \/ OnConnectionResumed \/ Unheard
             \/ ApplyOta \/ ReportJob \/ UNCHANGED vars
    <3>1. UNCHANGED <<process, subscribed>>
      BY <2>5 DEF CreateJob, ServeRequest, OnConnectionResumed, Unheard, ApplyOta, ReportJob, vars
    <3>2. QED
      BY <3>1 DEF Served
  <2>6. CASE OnPendingJobsResponse \/ OnJobsChanged \/ OnNextJob
    <3>1. UNCHANGED <<process, subscribed>>
      BY <2>6 DEF OnPendingJobsResponse, OnJobsChanged, OnNextJob, Receives
    <3>2. QED
      BY <3>1 DEF Served
  <2>7. QED
    BY <2>1, <2>2, <2>3, <2>4, <2>5, <2>6 DEF Next, Work
<1> SUFFICES ASSUME AnyQueued(execution'), process' = "running"
             PROVE  Attended'
  BY <1>1 DEF QueueAttended, Attended
<1>2. /\ AnyQueued(execution) /\ process = "running" => Attended
      /\ process = "running" => subscribed
  BY DEF QueueAttended, Attended, Served
\* A step that takes no message and leaves the agent and the executions alone.
<1>3. ASSUME UNCHANGED <<execution, process, agent>>,
             Unhandled(outbox) \subseteq Unhandled(outbox'),
             Unhandled(inbox) \subseteq Unhandled(inbox')
      PROVE  Attended'
  BY <1>2, <1>3, AttendedStays
<1>4. CASE CreateJob
  <2>1. inbox' = Put(inbox, Notify(TRUE)) /\ Notify(TRUE) \in RobotMessages
    BY <1>2, <1>4, MessageFacts DEF CreateJob, Publish
  <2>2. Notify(TRUE) \in Unhandled(inbox')
    BY <2>1, UnhandledFacts
  <2>3. ToldToAsk'
    BY <2>2 DEF ToldToAsk, Unhandled
  <2>4. QED
    BY <2>3 DEF Attended
<1>5. CASE ServeRequest
  BY <1>2, <1>5, AttendedWhenServed DEF ServeRequest
\* What the robot reads is read for the queue's sake, or of no use to it.
<1>6. CASE OnPendingJobsResponse \/ OnJobsChanged
  <2> DEFINE m == NextOf(inbox)
  <2>1. /\ m.type \in {"pending", "notify"}
        /\ HasNext(inbox) /\ inbox' = Handled(inbox) /\ UNCHANGED <<execution, process, agent>>
        /\ outbox' = IF m.queued THEN Put(outbox, StartNext) ELSE outbox
    BY <1>6 DEF OnPendingJobsResponse, OnJobsChanged, Receives
  <2>2. Unhandled(inbox) \subseteq Unhandled(inbox') \cup {m}
    BY <2>1, UnhandledFacts
  <2> HIDE DEF m
  <2>3. CASE m.queued
    <3>1. StartNext \in Unhandled(outbox')
      BY <2>1, <2>3, UnhandledFacts, MessageFacts
    <3>2. Asks'
      BY <3>1 DEF Asks, Unhandled
    <3>3. QED
      BY <3>2 DEF Attended
  <2>4. CASE ~m.queued
    <3>1. m # Notify(TRUE) /\ m # Pending(TRUE) /\ \A j \in Jobs : m # NextJob(j)
      BY <2>1, <2>4, AttendingFacts
    <3>2. ToldToAsk => ToldToAsk'
      BY <2>2, <3>1 DEF ToldToAsk, Unhandled
    <3>3. Asks => Asks'
      BY <2>1, <2>4 DEF Asks, Unhandled
    <3>4. \A j \in Jobs : NextJob(j) \in Unhandled(inbox) => NextJob(j) \in Unhandled(inbox')
      BY <2>2, <3>1
    <3>5. \A j \in Jobs : InHand(j) => InHand(j)'
      BY <2>1, <2>4, <3>4 DEF InHand, Unhandled
    <3>6. (\E j \in With("IN_PROGRESS", execution) : InHand(j))
             => (\E j \in With("IN_PROGRESS", execution) : InHand(j))'
      BY <2>1, <3>5 DEF With
    <3>7. QED
      BY <1>2, <2>1, <3>2, <3>3, <3>6 DEF Attended
  <2>5. QED
    BY <2>3, <2>4
<1>7. CASE OnNextJob
  <2> DEFINE m == NextOf(inbox)
  <2>1. /\ m.type = "next" /\ agent = Idle
        /\ HasNext(inbox) /\ inbox' = Handled(inbox) /\ UNCHANGED <<execution, process>>
        /\ m.job = NoJob => UNCHANGED <<agent, outbox>>
        /\ m.job # NoJob => /\ outbox' = Put(outbox, Update(m.job, "IN_PROGRESS"))
                            /\ agent' = [at |-> "apply", job |-> m.job]
    BY <1>7 DEF OnNextJob, Receives
  <2>2. m.job \in Jobs \cup {NoJob}
    BY <2>1, ChannelFacts, NextJobFacts
  <2>3. Unhandled(inbox) \subseteq Unhandled(inbox') \cup {m}
    BY <2>1, UnhandledFacts
  <2> HIDE DEF m
  <2>4. Unhandled(outbox) \subseteq Unhandled(outbox')
    BY <2>1, <2>2, UnhandledFacts, MessageFacts
  <2>5. m # Notify(TRUE) /\ m # Pending(TRUE)
    BY <2>1, AttendingFacts
  <2>6. ToldToAsk => ToldToAsk'
    BY <2>3, <2>5 DEF ToldToAsk, Unhandled
  <2>7. Asks => Asks'
    BY <2>4 DEF Asks, Unhandled
  <2>8. ASSUME NEW j \in With("IN_PROGRESS", execution), InHand(j)
        PROVE  InHand(j)'
    <3>1. j \in Jobs /\ j # NoJob
      BY <2>8, Assumed DEF With, NoJob, Assumptions
    <3>2. agent.at = "idle"
      BY <2>1, AgentFacts
    <3>3. CASE NextJob(j) = m
      <4>1. m.job = j
        BY <3>1, <3>3, AttendingFacts
      <4>2. agent'.at # "idle" /\ agent'.job = j
        BY <2>1, <3>1, <4>1
      <4>3. QED
        BY <4>2 DEF InHand
    <3>4. CASE NextJob(j) # m
      <4>1. NextJob(j) \in Unhandled(inbox) => NextJob(j) \in Unhandled(inbox')
        BY <2>3, <3>4
      <4>2. \A st \in Terminal : Update(j, st) \in Unhandled(outbox) =>
                                 Update(j, st) \in Unhandled(outbox')
        BY <2>4
      <4>3. QED
        BY <2>8, <3>2, <4>1, <4>2 DEF InHand, Unhandled
    <3>5. QED
      BY <3>3, <3>4
  <2>9. (\E j \in With("IN_PROGRESS", execution) : InHand(j))
           => (\E j \in With("IN_PROGRESS", execution) : InHand(j))'
    BY <2>1, <2>8 DEF With
  <2>10. QED
    BY <1>2, <2>1, <2>6, <2>7, <2>9 DEF Attended
<1>8. CASE ApplyOta
  <2>1. /\ agent'.at = "report" /\ agent'.job = agent.job
        /\ UNCHANGED <<inbox, outbox, execution, process>>
    BY <1>8, AgentFacts DEF ApplyOta, Typed
  <2>2. QED
    BY <1>2, <2>1, AttendedStays
<1>9. CASE ReportJob
  <2>1. PICK st \in Terminal : /\ outbox' = Put(outbox, Update(agent.job, st))
                              /\ UNCHANGED <<inbox, execution, process>>
                              /\ agent.job \in Jobs
    BY <1>9 DEF ReportJob, BusyWithJob
  <2>2. Unhandled(outbox) \cup {Update(agent.job, st)} \subseteq Unhandled(outbox')
    BY <2>1, UnhandledFacts, MessageFacts
  <2>3. ToldToAsk => ToldToAsk'
    BY <2>1 DEF ToldToAsk, Unhandled
  <2>4. Asks => Asks'
    BY <2>2 DEF Asks, Unhandled
  <2>5. \A j : InHand(j) => InHand(j)'
    <3> SUFFICES ASSUME NEW j, InHand(j)
                 PROVE  InHand(j)'
      OBVIOUS
    <3>1. CASE agent.job = j
      <4>1. \E t \in Terminal : Update(j, t) \in Unhandled(outbox')
        BY <2>1, <2>2, <3>1
      <4>2. QED
        BY <4>1 DEF InHand, Unhandled
    <3>2. CASE agent.job # j
      <4>1. \A t \in Terminal : Update(j, t) \in Unhandled(outbox) =>
                                Update(j, t) \in Unhandled(outbox')
        BY <2>2
      <4>2. QED
        BY <2>1, <3>2, <4>1 DEF InHand, Unhandled
    <3>3. QED
      BY <3>1, <3>2
  <2>6. (\E j \in With("IN_PROGRESS", execution) : InHand(j))
           => (\E j \in With("IN_PROGRESS", execution) : InHand(j))'
    BY <2>1, <2>5 DEF With
  <2>7. QED
    BY <1>2, <2>1, <2>3, <2>4, <2>6 DEF Attended
\* A robot that starts asks.
<1>10. CASE SubscribeJobs
  <2>1. outbox' = Put(outbox, GetPending)
    BY <1>10 DEF SubscribeJobs
  <2>2. GetPending \in Unhandled(outbox')
    BY <2>1, UnhandledFacts, MessageFacts
  <2>3. Asks'
    BY <2>2 DEF Asks, Unhandled
  <2>4. QED
    BY <2>3 DEF Attended
<1>11. CASE OnConnectionResumed \/ UNCHANGED vars
  BY <1>3, <1>11 DEF OnConnectionResumed, vars
<1>12. CASE DropLink
  <2>1. /\ inbox' \in Resent(inbox) /\ outbox' \in Resent(outbox)
        /\ UNCHANGED <<execution, process, agent>>
    BY <1>12 DEF DropLink, LoseProcess
  <2>2. QED
    BY <1>3, <2>1, UnhandledFacts
\* These end with a robot that does not run, or with an expiry.
<1>13. CASE Connect \/ Unheard \/ Crash
  BY <1>13 DEF Connect, Unheard, Crash, LoseProcess
<1>14. CASE ExpireSession
  BY <1>14 DEF ExpireSession, Typed, Faults
<1>15. QED
  BY <1>4, <1>5, <1>6, <1>7, <1>8, <1>9, <1>10, <1>11, <1>12, <1>13, <1>14 DEF Next, Work

\* However the link drops and the process dies, and whatever was lost with it: while the
\* robot runs, something attends to every queued job.  Without fairness this is all that
\* QueuedStarts needs: somebody has only to take the next step.
THEOREM QueueIsAttended == Spec => []QueueAttended
<1> DEFINE Inv == Typed /\ BusyWithJob /\ OInv /\ QInv
<1>1. Init => Inv
  <2>1. Init => Typed /\ BusyWithJob /\ OInv
    BY TypedAtFirst, OrderAtFirst
  <2>2. Init => QInv
    BY DEF Init, QInv, Served, QueueAttended
  <2>3. QED
    BY <2>1, <2>2
<1>2. Inv /\ [Next]_vars => Inv'
  <2> SUFFICES ASSUME Inv, [Next]_vars
               PROVE  Inv'
    OBVIOUS
  <2>1. Typed' /\ BusyWithJob' /\ OInv' /\ OnlyStarted
    BY NextKeepsTypes, OrderStays DEF OInv
  <2>2. ASSUME faults'.expiries = 0
        PROVE  faults.expiries = 0
    <3>1. /\ faults \in Faults /\ faults.expiries \in Nat
      BY DEF Typed, Faults
    <3>2. CASE ExpireSession
      BY <2>2, <3>1, <3>2 DEF ExpireSession, Faults
    <3>3. CASE DropLink \/ Crash
      BY <2>2, <3>1, <3>3 DEF DropLink, Crash, Faults
    <3>4. CASE CreateJob \/ Work \/ UNCHANGED vars
      BY <2>2, <3>4
         DEF CreateJob, Work, ServeRequest, OnPendingJobsResponse, OnJobsChanged, OnNextJob,
             Receives, ApplyOta, ReportJob, Connect, Unheard, SubscribeJobs,
             OnConnectionResumed, vars
    <3>5. QED
      BY <3>2, <3>3, <3>4 DEF Next
  <2>3. QInv'
    BY <2>1, <2>2, QueueStaysAttended DEF QInv
  <2>4. QED
    BY <2>1, <2>3
<1>3. Inv => QueueAttended
  BY DEF QInv, QueueAttended
<1>4. QED
  BY <1>1, <1>2, <1>3, PTL DEF Spec
----------------------------------------------------------------------------
(* The abstract queue.                                                     *)

LEMMA OrderAlways == Spec => []OInv
BY OrderAtFirst, OrderStays, TypedAlways, PTL DEF Spec

\* A job that would be applied for the first time is in progress: a later copy of the
\* message that names it finds it applied, or not to be applied at all.
LEMMA AppliedInProgress ==
    ASSUME Typed, BusyWithJob, IInv, OInv, ApplyOta
    PROVE  (\E j \in Jobs : Queue!Apply(j)) \/ UNCHANGED Queue!queue
<1>1. agent.job \in Jobs /\ Started(agent.job) /\ UNCHANGED execution
  BY DEF ApplyOta, BusyWithJob, OInv, OnlyStarted
<1>2. CASE UNCHANGED applied
  BY <1>1, <1>2 DEF Queue!queue
<1>3. CASE applied' # applied
  <2>1. agent.job \notin BadJobs /\ applied' = applied \cup {agent.job}
    BY <1>3 DEF ApplyOta
  <2>2. agent.job \notin applied
    BY <1>3, <2>1
  <2>3. execution[agent.job] # "SUCCEEDED" /\ execution[agent.job] # "FAILED"
    BY <1>1, <2>1, <2>2 DEF IInv, TrueOf
  <2>4. execution[agent.job] = "IN_PROGRESS"
    BY <1>1, <2>3 DEF Started, Terminal
  <2>5. Queue!Apply(agent.job)
    BY <1>1, <2>1, <2>4 DEF Queue!Apply
  <2>6. QED
    BY <1>1, <2>5
<1>4. QED
  BY <1>2, <1>3

\* What IoT Jobs does at a request is a start in the order of the queue, a true end, or
\* nothing that shows.
LEMMA ServedInTurn ==
    ASSUME Typed, OInv, IInv', UNCHANGED applied, ServeRequest
    PROVE  (\E j \in Jobs : Queue!Start(j) \/ Queue!Finish(j)) \/ UNCHANGED Queue!queue
<1> DEFINE Goal == (\E j \in Jobs : Queue!Start(j) \/ Queue!Finish(j)) \/ UNCHANGED Queue!queue
<1>1. execution \in [Jobs -> JobStatus] /\ Jobs \subseteq Nat
  BY Assumed DEF Typed, Assumptions
<1>2. ASSUME UNCHANGED execution
      PROVE  Goal
  BY <1>2 DEF Queue!queue
<1>3. ASSUME NEW j \in Jobs \cup {NoJob}, HandsOut(j)
      PROVE  Goal
  <2>1. CASE UNCHANGED execution
    BY <1>2, <2>1
  <2>2. ASSUME j \in Jobs, execution' = [execution EXCEPT ![j] = "IN_PROGRESS"],
               execution[j] = "IN_PROGRESS"
        PROVE  Goal
    BY <1>1, <1>2, <2>2
  <2>3. ASSUME j \in Jobs, execution' = [execution EXCEPT ![j] = "IN_PROGRESS"],
               execution[j] = "QUEUED",
               \A a \in Jobs : /\ execution[a] # "IN_PROGRESS"
                               /\ execution[a] = "QUEUED" => j <= a
        PROVE  Goal
    <3>1. \A a \in Jobs : a < j => execution[a] \in Terminal
      BY <1>1, <2>3 DEF OInv, CreatedInOrder, JobStatus
    <3>2. Queue!Start(j)
      BY <2>3, <3>1 DEF Queue!Start, Queue!Before, Queue!Ended, Queue!Advance, Terminal
    <3>3. QED
      BY <2>3, <3>2
  <2>4. QED
    BY <1>3, <2>1, <2>2, <2>3 DEF HandsOut
<1>4. ASSUME NEW j \in Jobs, Marks(j)
      PROVE  Goal
  <2>1. PICK st \in {"IN_PROGRESS"} \cup Terminal : execution' = [execution EXCEPT ![j] = st]
    BY <1>4 DEF Marks
  <2>2. execution[j] = "IN_PROGRESS"
    BY <1>4 DEF Marks
  <2>3. CASE st = "IN_PROGRESS"
    BY <1>1, <1>2, <2>1, <2>2, <2>3
  <2>4. CASE st \in Terminal
    <3>1. execution'[j] = st
      BY <1>1, <2>1
    <3>2. st = "FAILED" \/ (st = "SUCCEEDED" /\ j \in applied)
      BY <2>4, <3>1 DEF IInv, TrueOf, Terminal
    <3>3. Queue!Finish(j)
      BY <2>1, <2>2, <3>2 DEF Queue!Finish, Queue!Advance
    <3>4. QED
      BY <3>3
  <2>5. QED
    BY <2>3, <2>4
<1>5. QED
  BY <1>2, <1>3, <1>4, ServeSteps DEF OInv

LEMMA CreatedInTurn ==
    ASSUME CreateJob
    PROVE  \E j \in Jobs : Queue!Create(j)
<1> DEFINE fresh == With("none", execution)
           n == Min(fresh)
<1>1. fresh \subseteq Jobs /\ fresh # {} /\ Jobs \subseteq Nat
  BY Assumed DEF CreateJob, With, Assumptions
<1>2. n \in fresh /\ \A y \in fresh : n <= y
  BY <1>1, MinFacts
<1>3. \A a \in Jobs : a \in fresh <=> execution[a] = "none"
  BY DEF With
<1>4. execution' = [execution EXCEPT ![n] = "QUEUED"] /\ UNCHANGED applied
  BY DEF CreateJob, robot
<1> HIDE DEF n, fresh
<1>5. \A a \in Jobs : a < n => execution[a] # "none"
  <2>1. \A a \in Jobs : a < n => ~ (n <= a)
    BY <1>1, <1>2
  <2>2. QED
    BY <1>2, <1>3, <2>1
<1>6. Queue!Create(n)
  BY <1>1, <1>2, <1>3, <1>4, <1>5 DEF Queue!Create, Queue!Before, Queue!Advance
<1>7. QED
  BY <1>1, <1>2, <1>6

\* With any number of jobs and faults of every kind OtaJobs implements the queue.
THEOREM JobsAreAQueue == Spec => ImplementsQueue
<1>1. Init => Queue!Init
  BY DEF Init, Queue!Init
<1>2. Typed /\ BusyWithJob /\ IInv /\ IInv' /\ OInv /\ [Next]_vars => [Queue!Next]_(Queue!queue)
  <2> SUFFICES ASSUME Typed, BusyWithJob, IInv, IInv', OInv, [Next]_vars
               PROVE  [Queue!Next]_(Queue!queue)
    OBVIOUS
  <2> USE DEF robot
  <2>1. CASE CreateJob
    BY <2>1, CreatedInTurn DEF Queue!Next
  <2>2. CASE ServeRequest
    BY <2>2, ServedInTurn DEF ServeRequest, Queue!Next
  <2>3. CASE ApplyOta
    BY <2>3, AppliedInProgress DEF Queue!Next
  <2>4. CASE \/ OnPendingJobsResponse \/ OnJobsChanged \/ OnNextJob \/ ReportJob
             \/ Connect \/ Unheard \/ SubscribeJobs \/ OnConnectionResumed
             \/ DropLink \/ ExpireSession \/ Crash \/ UNCHANGED vars
    <3>1. UNCHANGED <<execution, applied>>
      BY <2>4
         DEF OnPendingJobsResponse, OnJobsChanged, OnNextJob, Receives, ReportJob,
             Connect, Unheard, SubscribeJobs, OnConnectionResumed, DropLink, LoseProcess,
             ExpireSession, Crash, vars
    <3>2. QED
      BY <3>1 DEF Queue!queue
  <2>5. QED
    BY <2>1, <2>2, <2>3, <2>4 DEF Next, Work
<1>3. QED
  BY <1>1, <1>2, TypedAlways, TruthAlways, OrderAlways, PTL
     DEF Spec, ImplementsQueue, Queue!Spec
=============================================================================
