-------------------------------- MODULE Command ------------------------------
(***************************************************************************)
(* The command that VehicleControlModule/src/Main.cpp makes of the keys it  *)
(* finds pressed: steering in degrees, to the left if positive, and speed   *)
(* in metres a second.                                                     *)
(***************************************************************************)
EXTENDS Integers

Zero == [steer |-> 0, speed |-> 0]

\* teleopInput: the key that is polled last wins.
Input(held) ==
    [steer |-> IF "D" \in held THEN -40 ELSE IF "A" \in held THEN 40 ELSE 0,
     speed |-> IF "S" \in held THEN -1 ELSE IF "W" \in held THEN 1 ELSE 0]

Commands == [steer : {-40, 0, 40}, speed : -1 .. 1]
==============================================================================
