------------------------------- MODULE Turning -------------------------------
(***************************************************************************)
(* How the display's camera is turned by the mouse and moved by the keys    *)
(* (Camera.cpp: mouseRotateCamera, rotateCameraAxis, moveForward ..         *)
(* strafeDown), with the vector and quaternion operations of the code.      *)
(*                                                                         *)
(* Directions have the length Span, positions are in halves of a Span-th    *)
(* of a metre: a key moves the camera by the length of its direction.  A    *)
(* horizontal drag turns by a quarter, a vertical one by the angle whose    *)
(* sine is 3/5: both turns, and two of the second that would be refused,    *)
(* have exact integer components.  What mouseRotateCamera takes off a turn  *)
(* beforehand is in the module Pitch.                                      *)
(***************************************************************************)
EXTENDS Frustum

\* The turns, the moves and the refused turns have exact components.
ASSUME TurnAssumption == Span % 25 = 0

VARIABLES
    dir,    \* destdir and viewdir, which are equal after every operation
    pos     \* destpos and viewpos

turnVars == <<dir, pos>>

Steps == -1 .. 1
MoveKeys == {"w", "s", "a", "d", "space", "c"}

Origin == V(0, 0, 0)

TurnInit == dir = V(0, 0, Span) /\ pos = Origin

\* rotateCameraAxis: too close to directly up or down.
Refused(d) == 10 * Dot(d, Up) > 7 * Span \/ 10 * Dot(d, Up) < -7 * Span

\* rotateCameraAxis, for a half angle of sine s and cosine c times a factor
RotateAxis(d, axis, s, c) ==
    LET q == HalfTurn(axis, s, c)
        r == Over(Rotate(q, d), Norm2(q))
    IN  IF Refused(r) THEN d ELSE r

\* A mutant of Dragged: the sign of horizontal_rotation_speed is lost.
DraggedLeft(d, right, down) ==
    RotateAxis(RotateAxis(d, Normalised(Cross(d, Up), 1), -down, 3), Up, right, 1)

\* mouseRotateCamera: the vertical turn first, about the axis across the direction.
Dragged(d, right, down) ==
    RotateAxis(RotateAxis(d, Normalised(Cross(d, Up), 1), -down, 3), Up, -right, 1)

TurnDrag == \E right, down \in Steps : dir' = Dragged(dir, right, down) /\ pos' = pos

\* A mutant of Displacement: the two factors of strafeDown's last product are swapped.
DisplacementUp(k, d) ==
    CASE k = "w" -> d
      [] k = "s" -> Times(-1, d)
      [] k = "a" -> Normalised(Cross(Up, d), Span)
      [] k = "d" -> Normalised(Cross(d, Up), Span)
      [] k = "space" -> Over(Cross(Cross(d, Up), d), Span)
      [] k = "c" -> Over(Cross(Cross(d, Up), d), Span)

\* moveForward, moveBackward, strafeLeft, strafeRight, strafeUp, strafeDown
Displacement(k, d) ==
    CASE k = "w" -> d
      [] k = "s" -> Times(-1, d)
      [] k = "a" -> Normalised(Cross(Up, d), Span)
      [] k = "d" -> Normalised(Cross(d, Up), Span)
      [] k = "space" -> Over(Cross(Cross(d, Up), d), Span)
      [] k = "c" -> Over(Cross(d, Cross(d, Up)), Span)

\* Bound on the positions: the keys move the camera away from the origin and back.
Leash == pos = Origin \/ pos' = Origin

\* moveInDirection, which takes the camera straight there
Move(k) ==
    /\ pos' = Plus(pos, Displacement(k, dir))
    /\ Leash
    /\ dir' = dir

TurnNext == TurnDrag \/ \E k \in MoveKeys : Move(k)

TurnSpec == TurnInit /\ [][TurnNext]_turnVars

(***************************************************************************)
(* Properties.                                                             *)
(***************************************************************************)
Sign(n) == IF n > 0 THEN 1 ELSE IF n < 0 THEN -1 ELSE 0

Courses == <<V(0, 0, 1), V(-1, 0, 0), V(0, 0, -1), V(1, 0, 0)>>

\* The direction for a heading and a level: no roll, and always of the same length.
Direction(h, l) ==
    LET along == IF l = 0 THEN Span ELSE (4 * Span) \div 5
    IN  Plus(Times(along, Courses[h + 1]), V(0, (3 * l * Span) \div 5, 0))

\* Whatever the drags, the direction is one of a heading and a level.
TurnTypeOK ==
    /\ \E h \in 0 .. 3, l \in Steps : dir = Direction(h, l)
    /\ pos \in Vector

Nearest == CHOOSE h \in 0 .. 3 :
    \A k \in 0 .. 3 : Dot(dir, Courses[h + 1]) >= Dot(dir, Courses[k + 1])
Heads == INSTANCE Compass WITH heading <- Nearest, level <- Sign(dir.y)

\* Quaternion turns about two different axes, in any order, with the refused ones
\* among them, add up: the camera heads where the horizontal drags say and is
\* raised as the vertical ones say, as if the two were counted apart.
DragsAddUp ==
    /\ Heads!Spec
    /\ [][dir' # dir => \A right, down \in Steps :
            dir' = Dragged(dir, right, down) => Heads!Turn(right, down)]_turnVars

\* Where a displacement leads on the screen, by the matrix of gluLookAt: to the
\* right, upwards and away from the eye.
OnScreen(v) ==
    LET side == Cross(dir, Up)
    IN  <<Sign(Dot(side, v)), Sign(Dot(Cross(side, dir), v)), Sign(Dot(dir, v))>>

\* Every key moves the camera along one axis of what it shows, and opposite keys
\* move it opposite ways, at every pitch: strafing up while looking down included.
KeysMoveAsSeen ==
    /\ OnScreen(Displacement("a", dir)) = <<-1, 0, 0>>
    /\ OnScreen(Displacement("d", dir)) = <<1, 0, 0>>
    /\ OnScreen(Displacement("space", dir)) = <<0, 1, 0>>
    /\ OnScreen(Displacement("c", dir)) = <<0, -1, 0>>
    /\ OnScreen(Displacement("w", dir)) = <<0, 0, 1>>
    /\ OnScreen(Displacement("s", dir)) = <<0, 0, -1>>

\* Every plane that Frustum::update computes when the camera looks goes through the
\* four corners that renderFrustumPlanes computes for that face, and through no other,
\* but for the left one (Frustum.cpp:124); that is, sphereInFrustum asks about the
\* volume that is drawn.  Yet nothing is in it: the tangent of 60 / 2 taken for radians
\* is negative, so that the corners called upper are the lower ones, and what is inside
\* of the upper and of the lower plane lies behind the camera and the near plane.
PlanesAsDrawn ==
    LET planes == Planes(pos, dir)
    IN  /\ \A d \in {NearDist, FarDist}, h, v \in {-1, 1} :
            LET corner == Corner(pos, dir, d, h, v)
                faces == {IF d = NearDist THEN "near" ELSE "far",
                          IF h = 1 THEN "right" ELSE "left", IF v = 1 THEN "up" ELSE "down"}
            IN  \A face \in DOMAIN planes \ {"left"} :
                    Side(planes[face], corner) = 0 <=> face \in faces
        /\ \A p \in Around(pos) : ~Kept(planes, p, 0)
==============================================================================
