------------------------------ MODULE JobQueue ------------------------------
(***************************************************************************)
(* What OTA jobs promise to those who create them: the robot's jobs are a  *)
(* queue.  They are worked on one at a time and in the order of their      *)
(* creation, a job is applied only while it is in progress, and one that   *)
(* succeeded has been applied.  One that failed may have been applied too. *)
(* OtaJobs implements it.                                                  *)
(***************************************************************************)
EXTENDS Naturals

CONSTANT Jobs  \* numbers, in the order of their creation

VARIABLES
    execution,  \* the status of each job's execution
    applied     \* the jobs the robot has applied

queue == <<execution, applied>>

Init == execution = [j \in Jobs |-> "none"] /\ applied = {}

Before(j) == {i \in Jobs : i < j}
Ended(j) == execution[j] \in {"SUCCEEDED", "FAILED"}

Advance(j, from, to) ==
    /\ execution[j] = from
    /\ execution' = [execution EXCEPT ![j] = to]
    /\ UNCHANGED applied

Create(j) ==
    /\ \A i \in Before(j) : execution[i] # "none"
    /\ Advance(j, "none", "QUEUED")

Start(j) ==
    /\ \A i \in Before(j) : Ended(i)
    /\ Advance(j, "QUEUED", "IN_PROGRESS")

\* A restarted robot applies a job again.
Apply(j) ==
    /\ execution[j] = "IN_PROGRESS"
    /\ applied' = applied \cup {j}
    /\ UNCHANGED execution

Finish(j) ==
    \/ j \in applied /\ Advance(j, "IN_PROGRESS", "SUCCEEDED")
    \/ Advance(j, "IN_PROGRESS", "FAILED")

Next == \E j \in Jobs : Create(j) \/ Start(j) \/ Apply(j) \/ Finish(j)

Spec == Init /\ [][Next]_queue
=============================================================================
