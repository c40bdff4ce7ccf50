--------------------------- MODULE RobotLifecycle ---------------------------
(***************************************************************************)
(* What the robot's state machine promises to those who only see its       *)
(* telemetry: the statuses it can go through, that it starts a room only   *)
(* with battery to spare, and that only its dock refills the battery.      *)
(* RobotState implements it.                                               *)
(***************************************************************************)
VARIABLES
    status,   \* as reported
    docked,   \* the robot is at its dock
    low       \* the battery is at the threshold or under it

vars == <<status, docked, low>>

Init == status = "IDLE" /\ docked = TRUE /\ low = FALSE

Start ==
    /\ status = "IDLE" /\ ~low
    /\ status' = "CLEANING"
    /\ UNCHANGED <<docked, low>>

\* The operator's STOP, or the end of the path.
Stop ==
    /\ status = "CLEANING"
    /\ status' = "IDLE"
    /\ docked' \in BOOLEAN
    /\ UNCHANGED low

Clean ==
    /\ status = "CLEANING"
    /\ docked' \in BOOLEAN
    /\ UNCHANGED <<status, low>>

RunLow ==
    /\ status = "CLEANING"
    /\ status' = "LOW_BATTERY"
    /\ low' = TRUE
    /\ UNCHANGED docked

HeadHome ==
    /\ status \notin {"CHARGING", "RETURNING_TO_DOCK"}
    /\ status' = "RETURNING_TO_DOCK"
    /\ UNCHANGED <<docked, low>>

\* Driving home drains the battery too.
Drive ==
    /\ status = "RETURNING_TO_DOCK"
    /\ status' \in {"RETURNING_TO_DOCK", "CHARGING"}
    /\ docked' \in BOOLEAN
    /\ status' = "CHARGING" => docked'
    /\ low' \in BOOLEAN
    /\ low => low'

Charge ==
    /\ status = "CHARGING"
    /\ status' \in {"CHARGING", "IDLE"}
    /\ low' \in BOOLEAN
    /\ low' => low /\ status' = "CHARGING"
    /\ UNCHANGED docked

\* An OTA job interrupts everything but cleaning.
Update ==
    /\ status # "CLEANING"
    /\ status' = "IDLE"
    /\ UNCHANGED <<docked, low>>

Next == Start \/ Stop \/ Clean \/ RunLow \/ HeadHome \/ Drive \/ Charge \/ Update

Spec == Init /\ [][Next]_vars
=============================================================================
