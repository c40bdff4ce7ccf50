--------------------------- MODULE MCRobotState ----------------------------
(* Small instances of RobotState.                                          *)
EXTENDS RobotState, FloorPlan, TLC

CONSTANTS kitchen, bedroom

\* The first waypoint of the bedroom is within reach of the dock's snap radius.
MCPathOf == (kitchen :> <<60, 120>>) @@ (bedroom :> <<10, 70>>)
MCElapsed == {1, 2}
MCSpeedParams == {-1, 40, 300}

\* The paths of the code have the spacing RobotState assumes of a path.
ASSUME PathsAreSpaced == \A box \in Boxes : Spaced(BoustrophedonPath(box), Arrival)
=============================================================================
