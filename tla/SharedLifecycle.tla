-------------------------- MODULE SharedLifecycle --------------------------
(***************************************************************************)
(* RobotLifecycle as it looks when two threads share the robot: a tick     *)
(* acts on the status it has read, whatever the status has become since,   *)
(* and a START_CLEANING may be carried out some time after it has been     *)
(* accepted.  RobotThreads implements it; Commands is built on it.         *)
(***************************************************************************)
VARIABLES
    status,   \* as reported
    low,      \* the battery is at the threshold or under it
    acting,   \* the status that the tick under way has read, or Asleep
    entering  \* a START_CLEANING has been accepted, but not carried out

vars == <<status, low, acting, entering>>

Asleep == "asleep"

Init == status = "IDLE" /\ low = FALSE /\ acting = Asleep /\ entering = FALSE

----------------------------------------------------------------------------
(* The main thread.                                                        *)

BeginTick ==
    /\ acting = Asleep /\ status # "IDLE"
    /\ acting' = status
    /\ UNCHANGED <<status, low, entering>>

EndTick ==
    /\ acting # Asleep
    /\ acting' = Asleep
    /\ UNCHANGED entering

\* Mutant: the tick puts the status back that it has read.
ReturnRestoring == EndTick /\ status' = acting /\ UNCHANGED low

\* The tick returns, and leaves the status as it is.
Return == EndTick /\ UNCHANGED <<status, low>>

RunLow ==
    /\ acting = "CLEANING"
    /\ status' = "LOW_BATTERY" /\ low' = TRUE
    /\ EndTick

\* The end of the room is the one write of a tick that looks at the status again.
EndRoom ==
    /\ acting = "CLEANING" /\ status = "CLEANING"
    /\ status' = "IDLE"
    /\ EndTick /\ UNCHANGED low

GoHome ==
    /\ acting = "LOW_BATTERY" /\ status \notin {"CHARGING", "RETURNING_TO_DOCK"}
    /\ status' = "RETURNING_TO_DOCK"
    /\ EndTick /\ UNCHANGED low

\* Driving home drains the battery, and goes on afterwards or not.
Drain ==
    /\ acting = "RETURNING_TO_DOCK"
    /\ low' \in BOOLEAN /\ (low => low')
    /\ acting' \in {acting, Asleep}
    /\ UNCHANGED <<status, entering>>

ReachDock ==
    /\ acting = "RETURNING_TO_DOCK"
    /\ status' = "CHARGING"
    /\ EndTick /\ UNCHANGED low

Charge ==
    /\ acting = "CHARGING"
    /\ low' \in BOOLEAN
    /\ \/ status' = status /\ (low' => low)
       \/ status' = "IDLE" /\ ~low'
    /\ EndTick

Tick ==
    \/ BeginTick \/ Return
    \/ RunLow \/ EndRoom \/ GoHome \/ Drain \/ ReachDock \/ Charge

----------------------------------------------------------------------------
(* The callback thread, which does one thing at a time.                    *)

AcceptsStart == status = "IDLE" /\ ~low

Start ==
    /\ ~entering /\ AcceptsStart
    /\ status' = "CLEANING"
    /\ UNCHANGED <<low, acting, entering>>

\* Without a room in the command, one is chosen first.
AcceptStart ==
    /\ ~entering /\ AcceptsStart
    /\ entering' = TRUE
    /\ UNCHANGED <<status, low, acting>>

Enter ==
    /\ entering
    /\ entering' = FALSE
    /\ status' = "CLEANING"
    /\ UNCHANGED <<low, acting>>

Stop ==
    /\ ~entering /\ status = "CLEANING"
    /\ status' = "IDLE"
    /\ UNCHANGED <<low, acting, entering>>

HeadHome ==
    /\ ~entering /\ status \notin {"CHARGING", "RETURNING_TO_DOCK"}
    /\ status' = "RETURNING_TO_DOCK"
    /\ UNCHANGED <<low, acting, entering>>

\* An OTA job interrupts everything but cleaning.
Update ==
    /\ ~entering /\ status # "CLEANING"
    /\ status' = "IDLE"
    /\ UNCHANGED <<low, acting, entering>>

Callback == Start \/ AcceptStart \/ Enter \/ Stop \/ HeadHome \/ Update

Next == Tick \/ Callback

Spec == Init /\ [][Next]_vars
=============================================================================
