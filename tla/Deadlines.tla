------------------------------ MODULE Deadlines -------------------------------
(***************************************************************************)
(* How long a failure goes unnoticed when the machine keeps up: by the     *)
(* manager, of a module that died or hangs, and by the modules, of a       *)
(* manager that has stopped.  Two history variables count the ticks of     *)
(* TimelyHeartbeat; no step reads them.                                    *)
(***************************************************************************)
EXTENDS TimelyHeartbeat

VARIABLES
    silent,   \* by module: ticks since it fell silent, or was last dealt with
    alone     \* ticks since the manager stopped

histVars == <<silent, alone>>

\* A module the manager has created that is dead or blocked in its socket.
Mute(m) == cur[m] # NoSlot /\ (~Alive(Current(m)) \/ Current(m) \in stalled)

\* ... and that the manager is not just about to start again.
Unnoticed(m) == Mute(m) /\ ~Stopped /\ ~(pm = "start" /\ Startup[idx] = m)

Record(ticks) ==
    /\ silent' = [m \in Modules |-> IF Unnoticed(m)' THEN silent[m] + ticks ELSE 0]
    /\ alone' = IF Stopped' THEN alone + ticks ELSE 0

DeadlineInit == Init /\ silent = [m \in Modules |-> 0] /\ alone = 0
DeadlineNext == (Step /\ Record(0)) \/ (TimelyTick /\ Record(1))
DeadlineSpec == DeadlineInit /\ [][DeadlineNext]_<<vars, histVars>>

Longer(s, t) == IF s >= t THEN s ELSE t

\* One wait for the manager to lower the heartbeat, its timeout, and one wait
\* for it to come by again.
NoticeBound == Longer(MaxSettle, MaxPoll) + PMTimeout + MaxPoll

\* A module that died or hangs is killed and started again, or ends the manager,
\* within the bound: neither a restart of another module, nor a heartbeat
\* raised just before the failure, nor a round that came too early for the
\* timer makes the manager wait for longer.
NoticedInTime == \A m \in Modules : silent[m] <= NoticeBound

\* The last answer the manager asked for, or the first timeout; then the
\* timeout of the module and a turn of its loop.
EndBound(m) ==
    Longer(PMTimeout + BeatTimeout[m], MaxBoot[m] + FirstTimeout) + MaxRest[m]

\* A process that has not failed outlives the manager by no more than the bound,
\* however far it was with an answer when the manager stopped.
EndsInTime ==
    \A p \in Procs : Alive(p) /\ p \notin faulty => alone <= EndBound(Image(p))

(***************************************************************************)
(* The inductive strengthening of the two.                                 *)
(***************************************************************************)

\* The manager still comes by m in this round.
Ahead(m) ==
    \/ pm \in {"scan", "reset", "late"} /\ \E i \in idx .. N : Startup[i] = m
    \/ pm \in {"start", "arm"} /\ \E i \in idx + 1 .. N : Startup[i] = m

\* How long, at most, until the manager finds m late with its timer expired, if
\* m stays silent.
NoticeIn(m) ==
    IF hb[m] THEN LowersIn(m) + PMTimeout + MaxPoll
    ELSE IF pm = "arm" /\ Startup[idx] = m THEN PMTimeout + MaxPoll
    ELSE IF pm = "poll" /\ pmTimer[m] <= pmNap THEN pmNap
    ELSE IF pmTimer[m] > 0 THEN pmTimer[m] + MaxPoll - 1
    ELSE IF Ahead(m) THEN 0 ELSE MaxPoll

\* How long, at most, a process that has not failed lives once the manager has
\* stopped.
EndsIn(p) ==
    LET m == Image(p) IN
    IF ~hb[m] THEN AnswerIn(p) + BeatTimeout[m] + MaxRest[m]
    ELSE CASE pc[p] = "load" -> MaxBoot[m] + FirstTimeout + MaxRest[m]
           [] pc[p] = "boot" -> nap[p] + FirstTimeout + MaxRest[m]
           [] pc[p] \in {"test", "check"} ->
                  IF timer[p] <= nap[p] THEN nap[p] ELSE timer[p] + MaxRest[m] - 1
           [] OTHER -> BeatTimeout[m] + MaxRest[m]

HistoryTypes == silent \in [Modules -> Nat] /\ alone \in Nat

SilenceBounded ==
    \A m \in Modules :
        IF Unnoticed(m) THEN silent[m] + NoticeIn(m) <= NoticeBound ELSE silent[m] = 0

EndNears ==
    /\ ~Stopped => alone = 0
    /\ \A p \in Procs :
           Stopped /\ Alive(p) /\ p \notin faulty => alone + EndsIn(p) <= EndBound(Image(p))

\* The loop's timer is armed; a healthy process past the test has time left, or
\* its main loop will return.
LoopArmed ==
    \A p \in Procs :
        /\ pc[p] \in {"test", "check"} =>
               /\ timer[p] \in Nat
               /\ timer[p] <= FirstTimeout + 1 \/ timer[p] <= BeatTimeout[Image(p)] + 1
        /\ pc[p] = "check" /\ p \notin faulty => timer[p] > 0 \/ p \in leaving

\* The manager resets only a heartbeat that is raised.
ResetsRaised == pm = "reset" => hb[Startup[idx]]

\* Only the calls on a socket block.
StalledWaits == \A p \in stalled : pc[p] \in {"boot", "work"}

DeadlineInv ==
    /\ HistoryTypes /\ SilenceBounded /\ EndNears
    /\ LoopArmed /\ ResetsRaised /\ StalledWaits
==============================================================================
