---------------------------- MODULE MCDriveAxis ------------------------------
(* Instances of DriveAxis: the least time of a frame is the 25 ms it sleeps. *)
EXTENDS DriveAxis

SpeedDts == {25, 40, 450}
SteerDts == {25, 300}
==============================================================================
