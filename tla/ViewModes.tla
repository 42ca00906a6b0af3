------------------------------ MODULE ViewModes ------------------------------
(***************************************************************************)
(* The five modes of the display's camera (Camera.cpp: nextViewMode,         *)
(* gotoViewMode, mouseMoveCamera, strafeForward, strafeBackward, ascend,     *)
(* descend).  Two of them look down on the ground and are moved over it; no *)
(* key is bound to them.                                                    *)
(*                                                                         *)
(* Places are on the x axis, along which the two modes shift the camera, in *)
(* the units of Viewpoint, whose Approach takes it to its destination.  A   *)
(* look is a direction times some factor.  A drag turns by a quarter if at  *)
(* all; the part of it that moves along the direction is left out.  The     *)
(* pursuit of the vehicle, which p switches on and off, goes on in every     *)
(* mode.                                                                   *)
(***************************************************************************)
EXTENDS Viewpoint, Space

VARIABLE cam    \* viewmode, viewpos, destpos and height, destdir, manualPursuit
                \* history: a pursuit has turned it since a mode set the look

Modes == {"free", "behind", "player", "topdown", "starcraft"}
NextOf(m) ==
    [free |-> "behind", behind |-> "player", player |-> "topdown",
     topdown |-> "starcraft", starcraft |-> "free"][m]
Overhead == {"topdown", "starcraft"}

Below == V(1, -100, 0)      \* as near to straight down as the camera can look
Slanted == V(1, -1, 0)      \* 45 degrees down
Chases == {V(1, -1, 0), V(-1, -1, 0), V(0, -1, 1), V(0, -1, -1)}
Shift == (3 * Unit) \div 2

ModesInit ==
    cam = [mode |-> "free", at |-> 0, to |-> 0, up |-> 0, look |-> V(0, 0, 1),
           pursuit |-> FALSE, chased |-> FALSE]

\* nextViewMode, which ends with a step on the way.
NextViewMode(c) ==
    LET mode == NextOf(c.mode)
        to == IF mode \in Overhead THEN c.to - Shift
              ELSE IF c.mode \in Overhead THEN c.to + Shift ELSE c.to
        look == IF mode = "topdown" THEN Below
                ELSE IF c.mode \in Overhead THEN Slanted ELSE c.look
        sets == mode \in Overhead \/ c.mode \in Overhead
    IN  [c EXCEPT !.mode = mode, !.to = to, !.at = Approach(c.at, to), !.look = look,
                  !.chased = c.chased /\ ~sets]

\* gotoViewMode: as many times as it takes.
GotoViewMode(m, c) ==
    LET c1 == NextViewMode(c)   c2 == NextViewMode(c1)
        c3 == NextViewMode(c2)  c4 == NextViewMode(c3)
    IN  CHOOSE d \in {c, c1, c2, c3, c4} : d.mode = m

Arrived(c) == [c EXCEPT !.at = c.to]

\* strafeForward, strafeBackward
Strafed(sign, c) == Arrived([c EXCEPT !.to = c.to + sign * Pace])

\* ascend, descend
Climbed(sign, c) == Arrived([c EXCEPT !.up = c.up + sign])

Quarter(q, v) == IF q = 0 THEN v ELSE V(-q * v.z, v.y, q * v.x)

\* A mutant of MouseMoved: the mode is not looked at.
MouseMovedAnyhow(dx, dy, shift, c) ==
    Arrived([c EXCEPT !.look = Quarter(-dx, c.look), !.to = c.at])

\* mouseMoveCamera
MouseMoved(dx, dy, shift, c) ==
    IF c.mode \notin Overhead
    THEN Arrived([c EXCEPT !.look = Quarter(-dx, c.look), !.to = c.at])
    ELSE IF shift THEN Arrived([c EXCEPT !.to = c.to - dy * Unit]) ELSE c

\* togglePursuitMode
Toggled(c) == [c EXCEPT !.pursuit = ~c.pursuit]

\* display: a pursuit takes the camera behind the vehicle and over it, looking along
\* its heading; in every frame the camera moves on.
Moved(c) == [c EXCEPT !.at = Approach(c.at, c.to)]
Chased(c, place, heading) ==
    [c EXCEPT !.to = place, !.up = 1, !.at = Approach(c.at, place), !.look = heading,
              !.chased = TRUE]

InRoom == {cam'.at, cam'.to} \subseteq Places /\ cam'.up \in 0 .. 1

ModesNext ==
    /\ \/ cam' = NextViewMode(cam)
       \/ \E m \in Modes : cam' = GotoViewMode(m, cam)
       \/ \E sign \in {-1, 1} : cam' \in {Strafed(sign, cam), Climbed(sign, cam)}
       \/ \E dx, dy \in {-1, 0, 1}, shift \in BOOLEAN : cam' = MouseMoved(dx, dy, shift, cam)
       \/ cam' = Toggled(cam)
       \/ ~cam.pursuit /\ cam' = Moved(cam)
       \/ cam.pursuit /\ \E at \in Places, h \in Chases : cam' = Chased(cam, at, h)
    /\ InRoom

ModesSpec == ModesInit /\ [][ModesNext]_cam

(***************************************************************************)
(* Properties.                                                             *)
(***************************************************************************)
ModesTypeOK ==
    /\ cam.mode \in Modes /\ cam.at \in Places /\ cam.to \in Places
    /\ cam.up \in 0 .. 1 /\ cam.look \in Vector
    /\ cam.pursuit \in BOOLEAN /\ cam.chased \in BOOLEAN

\* However modes were changed, drags and moves made and approaches broken off, the
\* two modes from above look down along the x axis, and the others, which take over
\* the slant on the way round, never look more steeply.  Only a pursuit takes the look
\* of a mode from it: the camera then looks along the vehicle's heading, and slanted in
\* every mode, until the mode is changed to or from one from above.
LooksByMode ==
    /\ cam.mode = "topdown" /\ ~cam.chased => cam.look = Below
    /\ cam.mode = "starcraft" /\ ~cam.chased => cam.look = Slanted
    /\ cam.mode \notin Overhead =>
        cam.look.y \in {0, -1} /\ Dot(cam.look, cam.look) = 1 - cam.look.y
    /\ cam.chased => cam.look \in Chases
==============================================================================
