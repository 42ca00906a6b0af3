----------------------------- MODULE MCHeartbeat -----------------------------
(***************************************************************************)
(* Instances of Heartbeat.  The modules of the program are named by        *)
(* strings; a run takes the pair of them whose kinds it is about.          *)
(***************************************************************************)
EXTENDS Heartbeat

JustGnss == <<"gnss">>
JustGnssModules == {"gnss"}
DisplayCamera == <<"display", "camera">>
DisplayCameraModules == {"display", "camera"}

Tcp == {"teleop", "gnss"} \cap Modules
CriticalOnes == {"camera"} \cap Modules

\* The teleoperation creates the mapping it uses, the display opens it; the
\* GNSS module opens the one the manager creates for it; the camera uses none
\* but the heartbeats.
Opens == [m \in Modules |->
    Modules \cap CASE m = "display" -> {"teleop"}
                   [] m = "gnss" -> {"gnss"}
                   [] OTHER -> {}]
Creates == {"teleop"} \cap Modules
Tolerates == {"gnss"} \cap Modules
Cameras == {"camera"} \cap Modules

None == [m \in Modules |-> 0]
One == [m \in Modules |-> 1]
Two == [m \in Modules |-> 2]
==============================================================================
