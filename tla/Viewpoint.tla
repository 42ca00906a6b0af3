------------------------------ MODULE Viewpoint ------------------------------
(***************************************************************************)
(* The display's viewpoint (DisplayModule/src/Camera.cpp), the keys that    *)
(* move it (KeyManager.hpp and the callbacks of DisplayModule/src/Main.cpp) *)
(* and the vehicle it may pursue.                                          *)
(*                                                                         *)
(* Positions are on one line, the viewpoint's axis of movement, in units    *)
(* of 1/Unit metre: "w" and "s" move along it; "a" stands for the keys that *)
(* move across it, which also take the camera straight to its destination.  *)
(* In every frame the viewpoint covers the square root of its distance from *)
(* its destination, or the rest of it if that is less than a metre.         *)
(*                                                                         *)
(* keyup is told the letter a key would type at that time: a key released   *)
(* with shift is never reported, so that releases need not happen.          *)
(***************************************************************************)
EXTENDS Integers

CONSTANTS
    Unit,       \* parts of a metre
    Pace,       \* what a key moves the viewpoint in a frame: half a metre
    Room        \* bound on what the keys reach from the origin, and where it starts

ASSUME RoomAssumption ==
    /\ Unit \in Nat \ {0} /\ Pace \in Nat
    /\ Room \in Nat

VARIABLES
    view, dest,     \* where the camera is, and where it is moving to
    pursuit,        \* manualPursuit
    car,            \* where a pursuit of the vehicle takes the camera
    pressed         \* KeyManager: the keys taken to be held

viewVars == <<view, dest, pursuit, car, pressed>>

Movers == {"w", "s", "a"}
Places == (-Room) .. Room

Dist(a, b) == IF a < b THEN b - a ELSE a - b
Root(n) == CHOOSE r \in 0 .. n : r * r <= n /\ n < (r + 1) * (r + 1)
Towards(a, b, n) == IF a < b THEN a + n ELSE a - n

ViewInit ==
    /\ view = -Room /\ dest = -Room
    /\ pursuit = FALSE
    /\ car = 0
    /\ pressed = {}

\* A mutant of Approach: the last metre is not taken at once.
Creep(v, to) ==
    IF v = to THEN v ELSE Towards(v, to, Root(Dist(v, to) * Unit))

\* updateLocation, the position: there, near, or on the way.
Approach(v, to) ==
    IF Dist(v, to) < Unit THEN to ELSE Towards(v, to, Root(Dist(v, to) * Unit))

\* moveBackward, moveForward
Shifted(p) ==
    (IF "s" \in pressed THEN p - Pace ELSE p) + (IF "w" \in pressed THEN Pace ELSE 0)

\* display: where the camera moves to, and a step of it on the way.
Display(from, to, at) ==
    /\ dest' = IF pursuit THEN at ELSE to
    /\ view' = Approach(from, dest')

\* idle: the keys, which take the camera straight to its destination, a step of
\* the vehicle, and a drawing.
Frame ==
    /\ Shifted(dest) \in Places
    /\ car' \in {car - 1, car, car + 1} \cap Places
    /\ Display(IF pressed = {} THEN view ELSE Shifted(dest), Shifted(dest), car')
    /\ UNCHANGED <<pursuit, pressed>>

\* The window has to be drawn anew.
Redraw == Display(view, dest, car) /\ UNCHANGED <<pursuit, car, pressed>>

\* keydown, for a key that is pressed or that the keyboard repeats.
KeyDown(k) ==
    /\ pressed' = pressed \cup ({k} \cap Movers)
    /\ pursuit' = (pursuit # (k = "p"))
    /\ dest' = IF k = "0" THEN 0 ELSE dest
    /\ UNCHANGED <<view, car>>

KeyUp(k) == pressed' = pressed \ {k} /\ UNCHANGED <<view, dest, pursuit, car>>

\* dragged: the camera is turned, and taken straight to its destination.
DragStraight == view' = dest /\ UNCHANGED <<dest, pursuit, car, pressed>>

UserActs == (\E k \in Movers \cup {"p", "0"} : KeyDown(k) \/ KeyUp(k)) \/ DragStraight

ViewNext == Frame \/ Redraw \/ UserActs

\* The main loop keeps calling idle; a frame that changes nothing finds the
\* camera where it is going.
ViewSpec == ViewInit /\ [][ViewNext]_viewVars /\ WF_viewVars(Frame)

(***************************************************************************)
(* Properties.                                                             *)
(***************************************************************************)
\* Every variable has its type.
ViewTypeOK ==
    /\ view \in Int /\ dest \in Int /\ car \in Int
    /\ pursuit \in BOOLEAN
    /\ pressed \subseteq Movers

\* Left alone, the camera gets to its destination and stays, even to one that
\* drives on; the square-root steps neither overshoot for ever nor stall.
Arrives ==
    <>[](pressed = {}) /\ <>[][Frame \/ Redraw]_viewVars => <>[](view = dest)
==============================================================================
