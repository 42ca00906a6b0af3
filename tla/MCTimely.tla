------------------------------- MODULE MCTimely ------------------------------
(***************************************************************************)
(* An instance of TimelyHeartbeat.  One tick is about half a second; the   *)
(* durations are the ones of the code rounded up to it and the timeouts    *)
(* the smallest that the assumptions allow, so that nothing but the exact  *)
(* order of the handshake keeps the two sides from giving each other up.   *)
(***************************************************************************)
EXTENDS Deadlines

LaserDisplay == <<"display", "laser">>
LaserDisplayModules == {"laser", "display"}

Tcp == {"laser"}
CriticalOnes == {"laser"}
Opens == [m \in Modules |-> {"laser"}]

\* The display's timer runs while its first frame is made.
Boots == [m \in Modules |-> 1]
Inits == [m \in Modules |-> IF m \in Tcp THEN 0 ELSE 1]
Rests == [m \in Modules |-> 1]
Works == [m \in Modules |-> IF m \in Tcp THEN 1 ELSE 0]
Beats == [m \in Modules |-> 3]
==============================================================================
