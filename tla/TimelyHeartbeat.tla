--------------------------- MODULE TimelyHeartbeat ---------------------------
(***************************************************************************)
(* Heartbeat when the machine keeps up: a Sleep or an answer takes at most *)
(* its bound, and a step that is due happens before time passes.  Only a   *)
(* process that has failed may be late.  The constants of the code leave   *)
(* slack for this; the question is whether they leave enough, on both      *)
(* sides of the handshake at once: a module's timer runs while it waits    *)
(* for the manager to look, the manager's while it waits for the answer.   *)
(***************************************************************************)
EXTENDS Heartbeat

\* A module needs this long, at most, from a point of its loop to its answer.
ASSUME AnswerAssumption ==
    \A m \in Modules :
        /\ MaxBoot[m] + MaxInit[m] + MaxWork[m] <= PMTimeout
        /\ MaxRest[m] + MaxWork[m] <= PMTimeout

\* The manager looks, and the module after it, before the module's timer ends.
ASSUME PatienceAssumption ==
    \A m \in Modules :
        /\ MaxInit[m] <= FirstTimeout
        /\ MaxSettle + MaxRest[m] <= FirstTimeout
        /\ MaxPoll + MaxRest[m] <= FirstTimeout
        /\ MaxPoll + MaxRest[m] <= BeatTimeout[m]

ManagerDue == ~Stopped /\ (pm # "poll" \/ pmNap = 0)
ProcessDue(p) == Alive(p) /\ p \notin faulty /\ nap[p] = 0

\* The clock waits for whatever is due.
TimelyTick == ~ManagerDue /\ (\A p \in Procs : ~ProcessDue(p)) /\ Tick

Step ==
    \/ Manager
    \/ KeyHit
    \/ ManagerDies
    \/ \E p \in Procs : Process(p) \/ Environment(p)
    \/ Done

TimelyNext == Step \/ TimelyTick

TimelySpec == Init /\ [][TimelyNext]_vars

\* No false alarm: the manager kills a process, or gives up because of it, only
\* when that process has failed.
NoFalseAlarm ==
    pm \in {"start", "failed"} => Current(Startup[idx]) \in faulty

\* No false exit: while the manager runs, a process that has not failed is never
\* at the test of its timer with the timer expired.
NoFalseExit ==
    \A p \in Procs :
        pc[p] = "test" /\ nap[p] = 0 /\ p \notin faulty /\ ~Stopped => timer[p] > 0

(***************************************************************************)
(* The inductive strengthening of the two.                                 *)
(***************************************************************************)

\* How long, at most, a process takes to answer a lowered heartbeat.
AnswerIn(p) ==
    LET m == Image(p) IN
    CASE pc[p] = "load" -> MaxBoot[m] + MaxInit[m] + MaxWork[m]
      [] pc[p] = "boot" -> nap[p] + MaxInit[m] + MaxWork[m]
      [] pc[p] = "test" -> nap[p] + MaxWork[m]
      [] pc[p] = "check" -> MaxWork[m]
      [] pc[p] = "work" -> nap[p]
      [] pc[p] = "beat" -> 0
      [] pc[p] = "rearm" -> MaxRest[m] + MaxWork[m]
      [] OTHER -> 0

\* How long, at most, until the manager lowers a raised heartbeat of m.
LowersIn(m) ==
    CASE pm \in {"create", "map"} -> MaxSettle
      [] pm = "poll" -> pmNap
      [] pm \in {"scan", "reset"} /\ (\E i \in idx .. N : Startup[i] = m) -> 0
      [] pm \in {"late", "start", "arm"} /\ (\E i \in idx + 1 .. N : Startup[i] = m) -> 0
      [] OTHER -> MaxPoll

\* While the manager waits for a healthy process, the answer comes first.
AnswersInTime ==
    \A m \in Modules :
        LET p == Current(m) IN
        cur[m] # NoSlot /\ p \notin faulty /\ ~hb[m] /\ ~Stopped
            /\ ~(pm = "arm" /\ Startup[idx] = m)
            => AnswerIn(p) < pmTimer[m]

\* While a healthy process waits for the manager, the manager looks in time.
LowersInTime ==
    \A p \in Procs :
        pc[p] \in {"test", "check"} /\ p \notin faulty /\ ~Stopped =>
            /\ pc[p] = "test" => timer[p] > nap[p]
            /\ hb[Image(p)] => timer[p] > LowersIn(Image(p)) + MaxRest[Image(p)]

NapsBounded ==
    /\ pmNap <= MaxSettle \/ pmNap <= MaxPoll
    /\ pmNap > 0 => pm = "poll"
    /\ pm = "poll" => idx = 1
    /\ \A p \in Procs :
        /\ pc[p] \in {"load", "check", "beat", "rearm", "dead"} => nap[p] = 0
        /\ pc[p] = "boot" => nap[p] <= MaxBoot[Image(p)]
        /\ pc[p] = "work" => nap[p] <= MaxWork[Image(p)]
        /\ pc[p] = "test" => nap[p] <= MaxRest[Image(p)] \/ nap[p] <= MaxInit[Image(p)]

\* Until the manager has slept its first Sleep nobody is asked for a heartbeat.
Settling == pm \in {"create", "map"} \/ (pm = "poll" /\ pmNap > MaxPoll)
NothingAsked ==
    Settling => /\ \A m \in Modules : hb[m]
                /\ \A p \in Procs : pc[p] \notin {"work", "beat", "rearm"}

\* Past its start-up loop the manager has created every module.
AllCreated ==
    /\ pm = "create" => \A i \in 1 .. idx - 1 : cur[Startup[i]] # NoSlot
    /\ pm = "map" => \A i \in 1 .. idx : cur[Startup[i]] # NoSlot
    /\ pm \notin {"create", "map"} /\ ~Stopped => \A m \in Modules : cur[m] # NoSlot

\* Marks are of running processes, and of failed ones while the manager runs;
\* the others of its processes run.
HealthyRun ==
    \A p \in Procs :
        /\ p \in stalled \cup blind \cup leaving \cup doomed => Alive(p)
        /\ p \notin faulty /\ ~Stopped =>
               /\ p \notin stalled \cup blind \cup leaving \cup doomed
               /\ cur[Image(p)] # NoSlot /\ p = Current(Image(p)) => Alive(p)

\* A healthy process the manager found waiting has not run out of time.
LateIsFaulty ==
    pm = "late" /\ Current(Startup[idx]) \notin faulty => pmTimer[Startup[idx]] > 0

TimelyInv ==
    /\ AnswersInTime /\ LowersInTime /\ NapsBounded /\ NothingAsked
    /\ AllCreated /\ HealthyRun /\ LateIsFaulty /\ NoFalseAlarm
==============================================================================
