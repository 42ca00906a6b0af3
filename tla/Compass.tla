------------------------------- MODULE Compass -------------------------------
(***************************************************************************)
(* What dragging the mouse should do to the display's camera, without       *)
(* vectors or quaternions: a heading that turns with the horizontal drags,  *)
(* and a level that the vertical ones raise and lower within its limits.    *)
(***************************************************************************)
EXTENDS Integers

VARIABLES
    heading,    \* quarter turns to the right of the z axis
    level       \* -1 looking down, 0 along the ground, 1 looking up

compassVars == <<heading, level>>

Levels == -1 .. 1
Steps == -1 .. 1    \* steps of the mouse to the right, or downwards

Init == heading = 0 /\ level = 0

Turn(right, down) ==
    /\ heading' = (heading + right) % 4
    /\ level' = IF level - down \in Levels THEN level - down ELSE level

Next == \E right, down \in Steps : Turn(right, down)

Spec == Init /\ [][Next]_compassVars
==============================================================================
