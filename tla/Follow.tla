-------------------------------- MODULE Follow -------------------------------
(***************************************************************************)
(* The direction from which the display's camera would follow something     *)
(* (Camera.cpp: followUp .. followRight, orbitCameraAxis), as its angle     *)
(* above the horizon and how far it was turned aside.  It is turned as the   *)
(* view is, but nothing keeps it away from the vertical: a turn that passes  *)
(* it leaves the direction pointing the other way, so that the axis of the   *)
(* next turn is reversed and the same key takes it back over the top.  No    *)
(* key of the display is bound to it.                                       *)
(*                                                                         *)
(* Angles are in thousandths of a radian.  A key turns by five times 0.002   *)
(* or 0.005 radians.  A quarter is no multiple of a turn: as its ratio to    *)
(* one is irrational, Upright is odd and Step even.                         *)
(***************************************************************************)
EXTENDS Integers

CONSTANTS
    Step,       \* the turn up or down of a key
    Upright,    \* the angle of the vertical
    MaxTurned   \* bound on the turns aside

ASSUME FollowAssumption ==
    /\ Step \in Nat \ {0} /\ Step % 2 = 0
    /\ Upright \in Nat /\ Upright % 2 = 1 /\ Step < Upright
    /\ MaxTurned \in Nat

VARIABLE follow     \* followdir: its angle, its turns aside, whether it was flipped over

FollowInit == follow = [rise |-> 0, turned |-> 0, flipped |-> FALSE]

\* followUp, followDown: orbitCameraAxis about the axis across the direction
Raised(sign, f) ==
    LET rise == f.rise + sign * Step
    IN  IF rise > Upright
        THEN [f EXCEPT !.rise = 2 * Upright - rise, !.flipped = ~f.flipped]
        ELSE IF rise < -Upright
        THEN [f EXCEPT !.rise = -2 * Upright - rise, !.flipped = ~f.flipped]
        ELSE [f EXCEPT !.rise = rise]

\* followLeft, followRight
Aside(sign, f) == [f EXCEPT !.turned = f.turned + sign]

FollowNext ==
    /\ \E sign \in {-1, 1} : follow' \in {Raised(sign, follow), Aside(sign, follow)}
    /\ follow'.turned \in (-MaxTurned) .. MaxTurned

FollowSpec == FollowInit /\ [][FollowNext]_follow

(***************************************************************************)
(* Properties.                                                             *)
(***************************************************************************)
\* The direction is never vertical, where the axis across it has the length zero.
FollowTypeOK ==
    follow \in [rise : (1 - Upright) .. (Upright - 1), turned : (-MaxTurned) .. MaxTurned,
               flipped : BOOLEAN]
==============================================================================
