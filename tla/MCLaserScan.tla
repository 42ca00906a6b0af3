---------------------------- MODULE MCLaserScan ------------------------------
(* An instance of LaserScan: telegrams of different lengths, none filling   *)
(* the array, and a Lead shorter and longer than some of them.              *)
EXTENDS LaserScan

SomeLengths == {0, 1, 3, 4}
==============================================================================
