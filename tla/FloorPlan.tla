----------------------------- MODULE FloorPlan ------------------------------
(***************************************************************************)
(* The floor of the emulator and the zigzag path through a room, in cm:    *)
(* ROOMS, _boustrophedon_path and _room_at of robot_state.py.  RobotState  *)
(* knows a path only as a sequence of waypoints; what is said here of the  *)
(* paths the code makes is what it assumes of them.                        *)
(***************************************************************************)
EXTENDS Integers, Sequences

Box(left, bottom, right, top) == [x0 |-> left, y0 |-> bottom, x1 |-> right, y1 |-> top]

Floor ==
    [living_room |-> Box(100, 0, 600, 400), kitchen |-> Box(600, 0, 1000, 400),
     bedroom_1 |-> Box(0, 400, 500, 800), bedroom_2 |-> Box(500, 400, 1000, 800),
     charging_dock |-> Box(0, 0, 100, 100)]

DockPosition == [x |-> 50, y |-> 50]
StripWidth == 35
Margin == 25

\* The code adds to y in floating point, and 1e-6 to its bound: as many strips as here.
Strips(box) == (box.y1 - box.y0 - 2 * Margin) \div StripWidth + 1

\* Two waypoints for each strip, to the right and to the left in turn.
BoustrophedonPath(box) ==
    LET strip(i) == (i - 1) \div 2
        atLeft(i) == (i % 2 = 1) <=> (strip(i) % 2 = 0)
    IN  [i \in 1..(2 * Strips(box)) |->
            [x |-> IF atLeft(i) THEN box.x0 + Margin ELSE box.x1 - Margin,
             y |-> box.y0 + Margin + strip(i) * StripWidth]]

Contains(box, p) == p.x \in box.x0..box.x1 /\ p.y \in box.y0..box.y1

\* The rooms whose box has p; the code takes the first of them.
RoomsAt(p) == {room \in DOMAIN Floor : Contains(Floor[room], p)}

----------------------------------------------------------------------------
(* What a path is for, without saying how it is made.                      *)

\* One waypoint differs from the next in one coordinate, and by more than d.
Spaced(path, d) ==
    \A i \in 1..(Len(path) - 1) :
        LET p == path[i]
            q == path[i + 1]
        IN  \/ p.x = q.x /\ (q.y - p.y > d \/ p.y - q.y > d)
            \/ p.y = q.y /\ (q.x - p.x > d \/ p.x - q.x > d)

KeepsOffWalls(path, box) ==
    \A i \in 1..Len(path) :
        /\ path[i].x \in (box.x0 + Margin)..(box.x1 - Margin)
        /\ path[i].y \in (box.y0 + Margin)..(box.y1 - Margin)

\* Some leg of the path crosses the room from margin to margin at height y.
CrossedAt(path, box, y) ==
    \E i \in 1..(Len(path) - 1) :
        /\ path[i].y = y /\ path[i + 1].y = y
        /\ {path[i].x, path[i + 1].x} = {box.x0 + Margin, box.x1 - Margin}

\* Wherever the robot could drive in the room, it passes within a strip's width.
Sweeps(path, box) ==
    \A y \in (box.y0 + Margin)..(box.y1 - Margin) :
        \E below \in 0..(StripWidth - 1) : CrossedAt(path, box, y - below)

\* Bound: the rooms of the floor, and others 1 m and 4 m wide and up to 4 m deep.
Boxes == {Floor[room] : room \in DOMAIN Floor}
            \cup {Box(0, 0, w, h) : w \in {100, 400}, h \in 51..400}

\* The path through a room keeps off its walls and sweeps it.
ASSUME PathsSweep ==
    \A box \in Boxes :
        LET path == BoustrophedonPath(box)
        IN  path # <<>> /\ KeepsOffWalls(path, box) /\ Sweeps(path, box)

\* Each waypoint, and the dock, lies in its own room only.
ASSUME LabelsAgree ==
    /\ \A room \in DOMAIN Floor :
          \A i \in 1..Len(BoustrophedonPath(Floor[room])) :
              RoomsAt(BoustrophedonPath(Floor[room])[i]) = {room}
    /\ RoomsAt(DockPosition) = {"charging_dock"}
=============================================================================
