-------------------------------- MODULE Timer --------------------------------
(***************************************************************************)
(* tmr::Timer (include/Timer.hpp).  A timer keeps the time it was armed    *)
(* (ref) and a duration (exp), and has expired once MORE than exp has      *)
(* elapsed.  Only the time that is left matters to its readers, so a timer *)
(* is modelled as that number: Armed(e) leaves e + 1 ticks, each tick of   *)
(* the clock takes one, and the timer has expired at 0 and stays expired.  *)
(*                                                                         *)
(* Process's move constructor (Process.hpp:13) initialises its timer from  *)
(* itself, so the timer a Process carries into the manager's vector holds  *)
(* an indeterminate value: Unset.  Reading an Unset timer may answer       *)
(* either way.                                                             *)
(***************************************************************************)
EXTENDS Integers

Unset == -1

\* The values of a timer whose durations are at most e.
Timers(e) == {Unset} \cup 0 .. (e + 1)

\* time(expiry)
Armed(e) == e + 1

\* The answers expired() may give.
MayExpire(t) == t = 0 \/ t = Unset
MayHold(t) == t # 0

\* One tick of the clock, for a timer or for the rest of a Sleep.
Elapse(t) == IF t > 0 THEN t - 1 ELSE t
==============================================================================
