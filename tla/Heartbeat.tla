------------------------------ MODULE Heartbeat ------------------------------
(***************************************************************************)
(* The process manager (ProcessManagementModule/src/Main.cpp) and the      *)
(* processes it supervises, which meet in one array of shared booleans,    *)
(* the heartbeats.  The manager sets a module's heartbeat to FALSE, the    *)
(* module answers by setting it to TRUE; either side gives the other up    *)
(* when its own timer expires first.                                       *)
(*                                                                         *)
(* A process is a pair <<module, slot>>: every CreateProcess takes a slot  *)
(* of its module that no process is running in, so that two processes of   *)
(* one module can coexist if the manager lets them.                        *)
(*                                                                         *)
(* The two kinds of module share the states of pc and differ in the order  *)
(* of their loop.  A module with a TCP client (laser, GNSS, teleoperation) *)
(* tests its timer, looks at its heartbeat and does its work, which may    *)
(* block in the socket, only when the manager asked for it.  A GLUT module *)
(* (display, camera) renders in every frame, and an expired timer only     *)
(* asks the main loop to return once the callback is over.                 *)
(*                                                                         *)
(* Here every step may be delayed at will: the clock ticks whenever it     *)
(* likes.  TimelyHeartbeat restricts it.                                   *)
(***************************************************************************)
EXTENDS Timer, FiniteSets

CONSTANTS
    Modules,        \* the modules of mod::STARTUP
    Startup,        \* their order: [1 .. N -> Modules]
    N,
    TcpModules,     \* modules with a TCP client; the others run GLUT callbacks
    Critical,       \* laser and camera: their failure ends the manager
    OpensMap,       \* the mappings a module opens, by owner
    CreatesMap,     \* modules that create the mapping they use
    ToleratesNull,  \* modules that may send a heartbeat without touching it
    Decoders,       \* GLUT modules that decode frames: the camera
    Slots, NoSlot,
    PMTimeout,      \* TIMEOUT_4S of the manager's timers
    FirstTimeout,   \* TIMEOUT_4S armed before a module's loop
    BeatTimeout,    \* by module, armed after a heartbeat
    MaxSettle,      \* bounds on what Sleep and I/O take: Sleep(600)
    MaxPoll,        \* Sleep(200)
    MaxBoot,        \* by module, from CreateProcess to the timer
    MaxInit,        \* by module, from the timer to the loop
    MaxRest,        \* by module, one turn of its loop
    MaxWork         \* by module, the answer of its server

VARIABLES
    hb,        \* the heartbeats
    mapped,    \* modules whose file mapping exists
    pm,        \* where the manager is
    idx,       \* the process its for loop is at
    pmNap,     \* what is left of its Sleep
    pmTimer,   \* Process::timer, by module
    cur,       \* Process::pinfo, by module
    pc, nap, timer,       \* of every process: where it is, its Sleep, its timer
    stalled,   \* processes blocked in connect, send or recv
    blind,     \* processes with a NULL view of a mapping they use
    leaving,   \* processes that called glutLeaveMainLoop
    doomed,    \* processes TerminateProcess was called on
    faulty     \* history: processes that failed since they were created

pmVars == <<pm, idx, pmNap, pmTimer, cur>>
marks == <<stalled, blind, leaving, doomed>>
procVars == <<pc, nap, timer, marks, faulty>>
vars == <<hb, mapped, pmVars, procVars>>

ASSUME ModulesAssumption ==
    /\ N \in Nat \ {0}
    /\ Startup \in [1 .. N -> Modules]
    /\ \A m \in Modules : \E i \in 1 .. N : Startup[i] = m
    /\ \A i, j \in 1 .. N : Startup[i] = Startup[j] => i = j
    /\ TcpModules \subseteq Modules
    /\ Critical \subseteq Modules
    /\ OpensMap \in [Modules -> SUBSET Modules]
    /\ CreatesMap \subseteq Modules
    /\ ToleratesNull \subseteq Modules
    /\ Decoders \subseteq Modules \ TcpModules
    /\ NoSlot \notin Slots

ASSUME DurationsAssumption ==
    /\ PMTimeout \in Nat /\ FirstTimeout \in Nat
    /\ MaxSettle \in Nat \ {0} /\ MaxPoll \in Nat \ {0}
    /\ BeatTimeout \in [Modules -> Nat]
    /\ MaxBoot \in [Modules -> Nat]
    /\ MaxInit \in [Modules -> Nat]
    /\ MaxRest \in [Modules -> Nat \ {0}]
    /\ MaxWork \in [Modules -> Nat]

Procs == Modules \X Slots
Image(p) == p[1]
Alive(p) == pc[p] # "dead"
Current(m) == <<m, cur[m]>>
Stopped == pm \in {"exited", "killed", "failed", "aborted"}

\* Process::isAlive.  A zero process id (nothing was created yet) is not alive.
IsAlive(m) == cur[m] # NoSlot /\ Alive(Current(m))

\* A mutant of Init: the heartbeats start lowered.
InitLowered ==
    /\ hb = [m \in Modules |-> FALSE]
    /\ mapped = {}
    /\ pm = "create" /\ idx = 1 /\ pmNap = 0
    /\ pmTimer = [m \in Modules |-> Unset]
    /\ cur = [m \in Modules |-> NoSlot]
    /\ pc = [p \in Procs |-> "dead"]
    /\ nap = [p \in Procs |-> 0]
    /\ timer = [p \in Procs |-> Unset]
    /\ stalled = {} /\ blind = {} /\ leaving = {} /\ doomed = {}
    /\ faulty = {}

Init ==
    /\ hb = [m \in Modules |-> TRUE]
    /\ mapped = {}
    /\ pm = "create" /\ idx = 1 /\ pmNap = 0
    /\ pmTimer = [m \in Modules |-> Unset]
    /\ cur = [m \in Modules |-> NoSlot]
    /\ pc = [p \in Procs |-> "dead"]
    /\ nap = [p \in Procs |-> 0]
    /\ timer = [p \in Procs |-> Unset]
    /\ stalled = {} /\ blind = {} /\ leaving = {} /\ doomed = {}
    /\ faulty = {}

(***************************************************************************)
(* The process manager.                                                    *)
(***************************************************************************)

\* CreateProcess: a new process, as good as new.
Launch(m) ==
    \E s \in Slots :
        LET p == <<m, s>> IN
        /\ s # cur[m] /\ ~Alive(p)
        /\ cur' = [cur EXCEPT ![m] = s]
        /\ pc' = [pc EXCEPT ![p] = "load"]
        /\ faulty' = faulty \ {p}
        /\ UNCHANGED <<nap, timer, marks>>

\* exit or return: the manager's handles and timers go with it.
Stop(how) ==
    /\ pm' = how
    /\ pmNap' = 0
    /\ pmTimer' = [m \in Modules |-> Unset]
    /\ UNCHANGED <<hb, mapped, idx, cur, procVars>>

\* A mutant of Start: a process is created whether or not one is alive.
StartAlways(m, next) ==
    Launch(m) /\ pm' = next /\ UNCHANGED <<hb, mapped, idx, pmNap, pmTimer>>

\* Process::start, then on to state next: keep a process that is still alive,
\* else create one or end the manager.
Start(m, next) ==
    \/ /\ IsAlive(m)
       /\ pm' = next
       /\ UNCHANGED <<hb, mapped, idx, pmNap, pmTimer, cur, procVars>>
    \/ /\ ~IsAlive(m)
       /\ Launch(m)
       /\ pm' = next
       /\ UNCHANGED <<hb, mapped, idx, pmNap, pmTimer>>
    \/ ~IsAlive(m) /\ Stop("aborted")

\* The end of a turn of the for loop, and of a round of it.
NextModule ==
    \/ idx < N /\ pm' = "scan" /\ idx' = idx + 1 /\ pmNap' = 0
    \/ idx = N /\ pm' = "poll" /\ idx' = 1 /\ pmNap' \in 1 .. MaxPoll

\* Process process(minfo)
Create == pm = "create" /\ Start(Startup[idx], "map")

\* A mutant of CreateMapping: the mapping is not created.
CreateNoMapping ==
    /\ pm = "map"
    /\ \/ idx < N /\ pm' = "create" /\ idx' = idx + 1 /\ pmNap' = 0
       \/ idx = N /\ pm' = "poll" /\ idx' = 1 /\ pmNap' \in 1 .. MaxSettle
    /\ UNCHANGED <<hb, mapped, pmTimer, cur, procVars>>

\* map.createFileMapping(), then the next module or Sleep(600)
CreateMapping ==
    /\ pm = "map"
    /\ mapped' = mapped \cup {Startup[idx]}
    /\ \/ idx < N /\ pm' = "create" /\ idx' = idx + 1 /\ pmNap' = 0
       \/ idx = N /\ pm' = "poll" /\ idx' = 1 /\ pmNap' \in 1 .. MaxSettle
    /\ UNCHANGED <<hb, pmTimer, cur, procVars>>

\* while (!_kbhit()) without, and with, a key
Poll ==
    /\ pm = "poll" /\ pmNap = 0
    /\ pm' = "scan"
    /\ UNCHANGED <<hb, mapped, idx, pmNap, pmTimer, cur, procVars>>

KeyHit == pm = "poll" /\ pmNap = 0 /\ Stop("exited")

\* The manager's console is closed, or it dies: its children are told nothing.
ManagerDies == ~Stopped /\ Stop("killed")

\* The heartbeat is read, then written: the module may act in between.
ReadBeat ==
    /\ pm = "scan"
    /\ pm' = IF hb[Startup[idx]] THEN "reset" ELSE "late"
    /\ UNCHANGED <<hb, mapped, idx, pmNap, pmTimer, cur, procVars>>

\* A mutant of ResetBeat: the heartbeat stays raised.
ResetNothing ==
    /\ pm = "reset"
    /\ pm' = "arm"
    /\ UNCHANGED <<hb, mapped, idx, pmNap, pmTimer, cur, procVars>>

ResetBeat ==
    /\ pm = "reset"
    /\ hb' = [hb EXCEPT ![Startup[idx]] = FALSE]
    /\ pm' = "arm"
    /\ UNCHANGED <<mapped, idx, pmNap, pmTimer, cur, procVars>>

\* A mutant of ArmTimer: a shorter timeout.
ArmShort ==
    /\ pm = "arm"
    /\ pmTimer' = [pmTimer EXCEPT ![Startup[idx]] = Armed(0)]
    /\ NextModule
    /\ UNCHANGED <<hb, mapped, cur, procVars>>

\* process.first.timer.time(TIMEOUT_4S), after a heartbeat or a restart
ArmTimer ==
    /\ pm = "arm"
    /\ pmTimer' = [pmTimer EXCEPT ![Startup[idx]] = Armed(PMTimeout)]
    /\ NextModule
    /\ UNCHANGED <<hb, mapped, cur, procVars>>

\* A mutant of StillWaiting: every look at a module gives it more time.
WaitAfresh ==
    /\ pm = "late"
    /\ MayHold(pmTimer[Startup[idx]])
    /\ pmTimer' = [pmTimer EXCEPT ![Startup[idx]] = Armed(PMTimeout)]
    /\ NextModule
    /\ UNCHANGED <<hb, mapped, cur, procVars>>

\* else if (process.first.timer.expired()), for a module that is not late ...
StillWaiting ==
    /\ pm = "late"
    /\ MayHold(pmTimer[Startup[idx]])
    /\ NextModule
    /\ UNCHANGED <<hb, mapped, pmTimer, cur, procVars>>

\* ... for a critical one ...
FailCritical ==
    /\ pm = "late"
    /\ MayExpire(pmTimer[Startup[idx]])
    /\ Startup[idx] \in Critical
    /\ Stop("failed")

\* Mutants of Kill: critical modules are restarted too; only a module that still
\* runs is restarted.
KillAny ==
    /\ pm = "late"
    /\ MayExpire(pmTimer[Startup[idx]])
    /\ doomed' = IF IsAlive(Startup[idx])
                 THEN doomed \cup {Current(Startup[idx])} ELSE doomed
    /\ pm' = "start"
    /\ UNCHANGED <<hb, mapped, idx, pmNap, pmTimer, cur, pc, nap, timer,
                   stalled, blind, leaving, faulty>>

KillTheLiving ==
    /\ pm = "late"
    /\ MayExpire(pmTimer[Startup[idx]])
    /\ Startup[idx] \notin Critical
    /\ \/ /\ IsAlive(Startup[idx])
          /\ doomed' = doomed \cup {Current(Startup[idx])}
          /\ pm' = "start"
          /\ UNCHANGED <<idx, pmNap>>
       \/ ~IsAlive(Startup[idx]) /\ NextModule /\ UNCHANGED doomed
    /\ UNCHANGED <<hb, mapped, pmTimer, cur, pc, nap, timer, stalled, blind,
                   leaving, faulty>>

\* ... and for the others: TerminateProcess only requests the end of the
\* process, and does nothing to one that is gone.
Kill ==
    /\ pm = "late"
    /\ MayExpire(pmTimer[Startup[idx]])
    /\ Startup[idx] \notin Critical
    /\ doomed' = IF IsAlive(Startup[idx])
                 THEN doomed \cup {Current(Startup[idx])} ELSE doomed
    /\ pm' = "start"
    /\ UNCHANGED <<hb, mapped, idx, pmNap, pmTimer, cur, pc, nap, timer,
                   stalled, blind, leaving, faulty>>

Restart == pm = "start" /\ Start(Startup[idx], "arm")

Manager ==
    Create \/ CreateMapping \/ Poll \/ ReadBeat \/ ResetBeat \/ ArmTimer
        \/ StillWaiting \/ FailCritical \/ Kill \/ Restart

(***************************************************************************)
(* The processes.                                                          *)
(***************************************************************************)
Moves(p, from, to) == pc[p] = from /\ pc' = [pc EXCEPT ![p] = to]

\* The end of a process, for whatever reason.
Gone(p) ==
    /\ pc' = [pc EXCEPT ![p] = "dead"]
    /\ nap' = [nap EXCEPT ![p] = 0]
    /\ timer' = [timer EXCEPT ![p] = Unset]
    /\ stalled' = stalled \ {p} /\ blind' = blind \ {p}
    /\ leaving' = leaving \ {p} /\ doomed' = doomed \ {p}
    /\ UNCHANGED <<hb, mapped, pmVars>>

\* openFileMapping does not notice that a mapping is missing (the API answers
\* NULL, the code expects INVALID_HANDLE_VALUE), and the view of it is NULL.
Load(p) ==
    LET m == Image(p)
        lost == {p : o \in OpensMap[m] \ mapped}
    IN  /\ Moves(p, "load", "boot")
        /\ mapped' = mapped \cup ({m} \cap CreatesMap)
        /\ blind' = blind \cup lost
        /\ faulty' = faulty \cup lost
        /\ \E d \in 0 .. MaxBoot[m] : nap' = [nap EXCEPT ![p] = d]
        /\ UNCHANGED <<hb, pmVars, timer, stalled, leaving, doomed>>

\* Connected, or the window made: the first timer is armed.
Boot(p) ==
    /\ nap[p] = 0 /\ p \notin stalled
    /\ Moves(p, "boot", "test")
    /\ timer' = [timer EXCEPT ![p] = Armed(FirstTimeout)]
    /\ \E d \in 0 .. MaxInit[Image(p)] : nap' = [nap EXCEPT ![p] = d]
    /\ UNCHANGED <<hb, mapped, pmVars, marks, faulty>>

\* Where a NULL view is used: a GLUT module draws from it in every frame, a TCP
\* module stores its result through it.  The GNSS module stores a fix only when
\* the telegram is valid, so that it may fault here or go on.
Faults(p) ==
    /\ p \in blind
    /\ pc[p] = IF Image(p) \in TcpModules THEN "work" ELSE "test"

MustFault(p) == Faults(p) /\ Image(p) \notin ToleratesNull

\* A mutant of TestTimer: the loop has no end.
TestNothing(p) ==
    /\ Image(p) \in TcpModules
    /\ pc[p] = "test" /\ nap[p] = 0
    /\ pc' = [pc EXCEPT ![p] = "check"]
    /\ UNCHANGED <<hb, mapped, pmVars, nap, timer, marks, faulty>>

\* while (!timer.expired()): the loop of a TCP module is left at once.
TestTimer(p) ==
    /\ Image(p) \in TcpModules
    /\ pc[p] = "test" /\ nap[p] = 0
    /\ \/ /\ MayHold(timer[p])
          /\ pc' = [pc EXCEPT ![p] = "check"]
          /\ UNCHANGED <<hb, mapped, pmVars, nap, timer, marks>>
       \/ MayExpire(timer[p]) /\ Gone(p)
    /\ UNCHANGED faulty

\* A mutant of TestFrame: the main loop is never left.
FrameForever(p) ==
    /\ Image(p) \notin TcpModules
    /\ ~MustFault(p)
    /\ nap[p] = 0
    /\ Moves(p, "test", "check")
    /\ UNCHANGED <<hb, mapped, pmVars, nap, timer, marks, faulty>>

\* if (timer.expired()) glutLeaveMainLoop(): the callback goes on.
TestFrame(p) ==
    /\ Image(p) \notin TcpModules
    /\ ~MustFault(p)
    /\ nap[p] = 0
    /\ Moves(p, "test", "check")
    /\ \/ MayHold(timer[p]) /\ leaving' = leaving
       \/ MayExpire(timer[p]) /\ leaving' = leaving \cup {p}
    /\ UNCHANGED <<hb, mapped, pmVars, nap, timer, stalled, blind, doomed, faulty>>

\* The end of a turn: the main loop returns if it was asked to, else the
\* process rests.
EndTurn(p) ==
    \/ p \in leaving /\ Gone(p)
    \/ /\ p \notin leaving
       /\ pc' = [pc EXCEPT ![p] = "test"]
       /\ \E d \in 1 .. MaxRest[Image(p)] : nap' = [nap EXCEPT ![p] = d]
       /\ UNCHANGED <<hb, mapped, pmVars, marks>>

\* A mutant of CheckBeat: a TCP module works in every turn.
CheckNothing(p) ==
    /\ pc[p] = "check"
    /\ \/ /\ Image(p) \in TcpModules
          /\ pc' = [pc EXCEPT ![p] = "work"]
          /\ \E d \in 0 .. MaxWork[Image(p)] : nap' = [nap EXCEPT ![p] = d]
          /\ UNCHANGED <<hb, mapped, pmVars, timer, marks>>
       \/ /\ ~hb[Image(p)]
          /\ Image(p) \notin TcpModules
          /\ pc' = [pc EXCEPT ![p] = "beat"]
          /\ UNCHANGED <<hb, mapped, pmVars, nap, timer, marks>>
       \/ /\ hb[Image(p)] /\ Image(p) \notin TcpModules
          /\ EndTurn(p)
          /\ (p \notin leaving => UNCHANGED timer)
    /\ UNCHANGED faulty

\* if (*heartbeat == false)
CheckBeat(p) ==
    /\ pc[p] = "check"
    /\ \/ /\ ~hb[Image(p)]
          /\ Image(p) \in TcpModules
          /\ pc' = [pc EXCEPT ![p] = "work"]
          /\ \E d \in 0 .. MaxWork[Image(p)] : nap' = [nap EXCEPT ![p] = d]
          /\ UNCHANGED <<hb, mapped, pmVars, timer, marks>>
       \/ /\ ~hb[Image(p)]
          /\ Image(p) \notin TcpModules
          /\ pc' = [pc EXCEPT ![p] = "beat"]
          /\ UNCHANGED <<hb, mapped, pmVars, nap, timer, marks>>
       \/ /\ hb[Image(p)]
          /\ EndTurn(p)
          /\ (p \notin leaving => UNCHANGED timer)
    /\ UNCHANGED faulty

\* The request is answered and the result stored.
Work(p) ==
    /\ nap[p] = 0 /\ p \notin stalled /\ ~MustFault(p)
    /\ Moves(p, "work", "beat")
    /\ UNCHANGED <<hb, mapped, pmVars, nap, timer, marks, faulty>>

\* *heartbeat = true
Beat(p) ==
    /\ Moves(p, "beat", "rearm")
    /\ hb' = [hb EXCEPT ![Image(p)] = TRUE]
    /\ UNCHANGED <<mapped, pmVars, nap, timer, marks, faulty>>

\* A mutant of Rearm: the timer is armed only once, before the loop.
RearmNothing(p) ==
    /\ pc[p] = "rearm"
    /\ EndTurn(p)
    /\ (p \notin leaving => UNCHANGED timer)
    /\ UNCHANGED faulty

\* timer.time(TIMEOUT_2S), TIMEOUT_4S in the GNSS module
Rearm(p) ==
    /\ pc[p] = "rearm"
    /\ EndTurn(p)
    /\ (p \notin leaving =>
            timer' = [timer EXCEPT ![p] = Armed(BeatTimeout[Image(p)])])
    /\ UNCHANGED faulty

\* The access violation of a process that uses a NULL view.
NullFault(p) == Faults(p) /\ nap[p] = 0 /\ p \notin stalled /\ Gone(p) /\ UNCHANGED faulty

Process(p) ==
    Load(p) \/ Boot(p) \/ TestTimer(p) \/ TestFrame(p) \/ CheckBeat(p)
        \/ Work(p) \/ Beat(p) \/ Rearm(p) \/ NullFault(p)

(***************************************************************************)
(* The environment of the processes.                                       *)
(***************************************************************************)

\* TerminateProcess takes effect.
Dies(p) == p \in doomed /\ Gone(p) /\ UNCHANGED faulty

\* The process ends by itself: no connection, a malformed scan, the ESC key,
\* its console closed.
Crash(p) == Alive(p) /\ Gone(p) /\ faulty' = faulty \cup {p}

\* A frame that cannot be decoded makes the camera leave its main loop.
BadFrame(p) ==
    /\ Image(p) \in Decoders
    /\ pc[p] = "test" /\ nap[p] = 0
    /\ leaving' = leaving \cup {p}
    /\ faulty' = faulty \cup {p}
    /\ UNCHANGED <<hb, mapped, pmVars, pc, nap, timer, stalled, blind, doomed>>

\* A call on the socket blocks for longer than it should, and returns.
Stall(p) ==
    /\ Image(p) \in TcpModules
    /\ pc[p] \in {"boot", "work"} /\ p \notin stalled
    /\ stalled' = stalled \cup {p}
    /\ faulty' = faulty \cup {p}
    /\ UNCHANGED <<hb, mapped, pmVars, pc, nap, timer, blind, leaving, doomed>>

Answer(p) ==
    /\ p \in stalled
    /\ stalled' = stalled \ {p}
    /\ UNCHANGED <<hb, mapped, pmVars, pc, nap, timer, blind, leaving, doomed, faulty>>

Environment(p) == Dies(p) \/ Crash(p) \/ BadFrame(p) \/ Stall(p) \/ Answer(p)

\* Time passes for every timer and every Sleep.
Tick ==
    /\ pmNap' = Elapse(pmNap)
    /\ pmTimer' = [m \in Modules |-> Elapse(pmTimer[m])]
    /\ nap' = [p \in Procs |-> Elapse(nap[p])]
    /\ timer' = [p \in Procs |-> Elapse(timer[p])]
    /\ <<pmNap, pmTimer, nap, timer>>' # <<pmNap, pmTimer, nap, timer>>
    /\ UNCHANGED <<hb, mapped, pm, idx, cur, pc, marks, faulty>>

\* Nothing is left to do: the system has shut down.
Quiet == Stopped /\ \A p \in Procs : ~Alive(p)
Done == Quiet /\ UNCHANGED vars

Next ==
    \/ Manager
    \/ KeyHit
    \/ ManagerDies
    \/ \E p \in Procs : Process(p) \/ Environment(p)
    \/ Tick
    \/ Done

\* The manager and every process are scheduled, a terminated process ends and
\* time passes.  Nothing is promised of the servers.
Fairness ==
    /\ WF_vars(Manager)
    /\ \A p \in Procs : WF_vars(Process(p)) /\ WF_vars(Dies(p))
    /\ WF_vars(Tick)

Spec == Init /\ [][Next]_vars /\ Fairness

(***************************************************************************)
(* Properties.                                                             *)
(***************************************************************************)
\* Every variable has its type.
TypeOK ==
    /\ hb \in [Modules -> BOOLEAN]
    /\ mapped \subseteq Modules
    /\ pm \in {"create", "map", "poll", "scan", "reset", "arm", "late", "start",
              "exited", "killed", "failed", "aborted"}
    /\ idx \in 1 .. N
    /\ pmNap \in Nat
    /\ pmTimer \in [Modules -> Timers(PMTimeout)]
    /\ cur \in [Modules -> Slots \cup {NoSlot}]
    /\ pc \in [Procs -> {"dead", "load", "boot", "test", "check", "work",
                        "beat", "rearm"}]
    /\ nap \in [Procs -> Nat]
    /\ timer \in [Procs -> Nat \cup {Unset}]
    /\ stalled \subseteq Procs /\ blind \subseteq Procs
    /\ leaving \subseteq Procs /\ doomed \subseteq Procs
    /\ faulty \subseteq Procs

\* However a restart interleaves with the end of the process it replaces, the
\* only process of a module that runs is the one the manager has a handle on:
\* never two processes behind one heartbeat, one socket and one mapping.
OneProcess == \A p \in Procs : Alive(p) => p = Current(Image(p))

\* A module that is about to send a heartbeat finds the flag still lowered: no
\* heartbeat is sent that nobody asked for, and none overwrites another.
BeatIsOwed == \A p \in Procs : pc[p] \in {"work", "beat"} => ~hb[Image(p)]

\* The manager never consults the timer that Process's move constructor left
\* indeterminate: the heartbeats start raised, so it arms a timer first.
ArmedBeforeRead == pm = "late" => pmTimer[Startup[idx]] # Unset

\* Only while the manager is in its start-up loop can a process end up with a
\* NULL view: every process it starts later finds all the mappings it opens.
BlindOnlyAtStartup ==
    [][\A p \in Procs : p \in blind' \ blind => pm \in {"create", "map"} \/ Stopped]_vars

\* A non-critical module that is not running is started again, unless the
\* manager stops.
Recovery ==
    \A m \in Modules \ Critical : ~IsAlive(m) ~> IsAlive(m) \/ Stopped

\* A non-critical module blocked in its socket does not stay so while the
\* manager runs.
HungIsReplaced ==
    \A p \in Procs : p \in stalled /\ Image(p) \notin Critical ~> p \notin stalled \/ Stopped

\* Once the manager has stopped, every process stops, if the servers answer.
ShutdownIfServersAnswer ==
    <>[](stalled = {}) => (Stopped ~> Quiet)

\* What the supervision implements (Supervisor).
Launched == {m \in Modules : cur[m] # NoSlot}
Up == {m \in Modules : \E s \in Slots : Alive(<<m, s>>)}
Sup == INSTANCE Supervisor WITH running <- ~Stopped, launched <- Launched, up <- Up

\* The supervision implements its abstract specification: starts happen only
\* while the manager runs, never on top of a running process and only once for
\* a critical module; an ended module is started again or, if it is critical,
\* the manager gives up.
Supervises == Sup!Spec

\* README.md:30,31: the end of the manager shuts every process down, here one that
\* is in its main loop, where the GNSS module is blocked in recv only, and whose server
\* in the end either answers or is silent for good.
InLoop(p) == pc[p] \in {"test", "check", "work", "beat", "rearm"}
MadeUpItsMind(p) == <>[](p \in stalled) \/ <>[](p \notin stalled)
Shutdown ==
    \A p \in Procs : MadeUpItsMind(p) => (Stopped /\ InLoop(p) ~> ~Alive(p))
==============================================================================
