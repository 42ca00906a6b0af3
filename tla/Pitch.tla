-------------------------------- MODULE Pitch --------------------------------
(***************************************************************************)
(* How far the mouse may turn the display's camera up and down              *)
(* (Camera::mouseRotateCamera, rotateCameraAxis), in free view and in a     *)
(* pursuit.  Two guards bound the turn and know nothing of each other: the  *)
(* sum of the turns that were asked for, current_vertical_rotation, is kept *)
(* within a radian, and a turn that would take the direction too close to   *)
(* the vertical is refused although the sum has counted it.                 *)
(*                                                                         *)
(* Angles are integers, Radian to the radian and Vertical to the quarter.   *)
(* The refusal compares the dot product of the direction and the vertical   *)
(* with 0.7: the sine of Steepest for a direction of length 1, of           *)
(* SteepestLong for the direction (1, -1) that a pursuit sets and that is   *)
(* only normalised later.  A drag may be so long that it passes the         *)
(* vertical: the direction then points the other way and is the less steep  *)
(* the further it was turned.                                              *)
(***************************************************************************)
EXTENDS Integers

CONSTANTS
    Radian, Vertical,
    Steepest, SteepestLong,
    Chase,      \* the angle of a pursuit, 45 degrees down
    Drags       \* what one drag of the mouse asks for

ASSUME AngleAssumption ==
    /\ Vertical \in Nat \ {0} /\ Radian \in 0 .. Vertical
    /\ Steepest \in 0 .. Radian /\ SteepestLong \in 0 .. Steepest
    /\ Chase \in (-Radian) .. 0
    /\ Drags \subseteq Int

VARIABLES
    asked,      \* current_vertical_rotation
    pitch,      \* the angle of destdir above the horizon
    long,       \* destdir is not normalised
    chasing     \* manualPursuit

pitchVars == <<asked, pitch, long, chasing>>

Abs(a) == IF a < 0 THEN -a ELSE a

PitchInit == asked = 0 /\ pitch = 0 /\ long = FALSE /\ chasing = FALSE

\* What is left of a turn by v, given the sum that it makes: above a radian the
\* excess is taken off, below one it is added once more.
Turn(v, sum) ==
    IF sum > Radian THEN v - (sum - Radian)
    ELSE IF sum < -Radian THEN v + (sum + Radian) ELSE v

\* A mutant of Sum: what is asked for is summed up without a limit.
SumFree(a) == a

\* The sum that is kept.
Sum(a) == IF a > Radian THEN Radian ELSE IF a < -Radian THEN -Radian ELSE a

\* The angle above the horizon of a direction turned up by a from the horizon.
Above(a) ==
    LET r == (a + Vertical) % (4 * Vertical)
    IN  IF r <= 2 * Vertical THEN r - Vertical ELSE 3 * Vertical - r

\* A mutant of Rotated: no turn is refused.
RotatedAlways(p, v, limit) == Above(p + v)

\* A mutant of Rotated: the direction before the turn is compared, not the one after.
RotatedByOld(p, v, limit) == IF Abs(p) > limit THEN p ELSE Above(p + v)

\* rotateCameraAxis: its sine is compared, and the angle is within a quarter.
Rotated(p, v, limit) == IF Abs(Above(p + v)) > limit THEN p ELSE Above(p + v)

TurnLimit == IF long THEN SteepestLong ELSE Steepest

\* mouseRotateCamera, which ends by normalising the direction.
PitchDrag ==
    /\ \E v \in Drags :
        /\ asked' = Sum(asked + v)
        /\ pitch' = Rotated(pitch, Turn(v, asked + v), TurnLimit)
    /\ long' = FALSE
    /\ chasing' = chasing

\* A frame of a pursuit sets the direction, and normalises it if the camera is
\* near its destination but not there; a key that moves the camera does so too.
Chasing ==
    /\ chasing
    /\ pitch' = Chase
    /\ long' \in BOOLEAN
    /\ UNCHANGED <<asked, chasing>>

MoveByKey == long' = FALSE /\ UNCHANGED <<asked, pitch, chasing>>

ToggleChase == chasing' = ~chasing /\ UNCHANGED <<asked, pitch, long>>

PitchNext == PitchDrag \/ Chasing \/ MoveByKey \/ ToggleChase

PitchSpec == PitchInit /\ [][PitchNext]_pitchVars

(***************************************************************************)
(* Properties.                                                             *)
(***************************************************************************)
\* Every variable has its type, and the sum its range.
PitchTypeOK ==
    /\ asked \in (-Radian) .. Radian
    /\ pitch \in Int
    /\ long \in BOOLEAN /\ chasing \in BOOLEAN

\* Camera.cpp, rotateCameraAxis: the camera does not venture more than a radian
\* away from the horizon, although pursuits and refused turns take the sum that
\* is kept within a radian out of step with the angle.
WithinRadian == Abs(pitch) <= Radian

\* A pursuit leaves the camera at an angle from which the next turn is refused, the
\* ones to the side too, and with a sum that may absorb every drag upwards; still,
\* once it is over, some two drags take the camera back to where turns are accepted.
ComesBack ==
    \/ chasing
    \/ Abs(pitch) <= Steepest
    \/ \E v, u \in Drags :
        LET once == Rotated(pitch, Turn(v, asked + v), TurnLimit)
            sum == Sum(asked + v)
        IN  Abs(Rotated(once, Turn(u, sum + u), Steepest)) <= Steepest
==============================================================================
