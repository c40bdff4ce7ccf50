-------------------------- MODULE MCRobotThreads ---------------------------
(* Small instances of RobotThreads: one room, near the dock or far from it. *)
EXTENDS RobotThreads, TLC

CONSTANTS kitchen

MCNearPath == kitchen :> <<60, 100>>
MCFarPath == kitchen :> <<150, 190>>
MCElapsed == {1}
=============================================================================
