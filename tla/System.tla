-------------------------------- MODULE System -------------------------------
(***************************************************************************)
(* The camera, display and vehicle control modules under the process        *)
(* manager.  The manager is the abstract one of Supervisor, which Heartbeat *)
(* is shown to implement: a critical module is never started again, another *)
(* one always, and a module whose process is gone for good because it was   *)
(* critical ends the manager.                                              *)
(*                                                                         *)
(* A behaviour is about the images or about the commands: in the one the    *)
(* vehicle control module is not asked for any, in the other the server     *)
(* publishes nothing.  The two ways share nothing but the supervision.      *)
(***************************************************************************)
EXTENDS CameraFeed, Teleop

CONSTANT MaxFalls   \* bound on the modules that end though nothing is wrong

ASSUME FallsAssumption == MaxFalls \in Nat

VARIABLES
    running, launched, up,  \* of Supervisor
    falls,                  \* modules that ended by themselves
    scene                   \* what this behaviour is about

supVars == <<running, launched, up>>
systemVars == <<feedVars, teleopVars, supVars, falls, scene>>

Modules == {"camera", "display", "teleop"}

Sup == INSTANCE Supervisor WITH Critical <- {"camera"}

SystemInit ==
    /\ FeedInit /\ TeleopInit /\ Sup!Init
    /\ falls = 0 /\ scene \in {"images", "commands"}

\* A process starts, for the first time or again.
Launch(m) ==
    /\ Sup!Launch(m)
    /\ IF m = "teleop" THEN TeleopStart ELSE UNCHANGED teleopVars
    /\ IF m = "camera" THEN FeedStart ELSE UNCHANGED feedVars
    /\ UNCHANGED <<falls, scene>>

\* A process has ended.
Ended(m) ==
    /\ Sup!Down(m)
    /\ IF m = "teleop" THEN TeleopEnds
       ELSE IF m = "display" THEN DisplayEnds ELSE UNCHANGED teleopVars
    /\ IF m = "camera" THEN FeedGone ELSE UNCHANGED feedVars
    /\ scene' = scene

\* It crashes, fails to connect, or is killed for a heartbeat that comes too late.
Falls(m) == falls < MaxFalls /\ falls' = falls + 1 /\ Ended(m)

\* The camera's process has closed what it held.
CameraEnds == stage = "ended" /\ Ended("camera") /\ falls' = falls

\* Once the manager is gone a module's timer expires: ShutdownIfServersAnswer of Heartbeat.
Follows(m) == ~running /\ m # "camera" /\ Ended(m) /\ falls' = falls

\* A key, or a critical module that is gone.
KeyHit == Sup!Stop /\ UNCHANGED <<feedVars, teleopVars, falls, scene>>

CameraRuns ==
    /\ "camera" \in up
    /\ FeedStep \/ (~running /\ TimesOut)
    /\ UNCHANGED <<teleopVars, supVars, falls, scene>>

ServerPublishes == scene = "images" /\ Server /\ UNCHANGED <<teleopVars, supVars, falls, scene>>

TeleopRuns ==
    /\ "teleop" \in up /\ TeleopStep
    /\ UNCHANGED <<feedVars, supVars, falls, scene>>

DisplayRuns ==
    /\ "display" \in up /\ ReadCommand
    /\ UNCHANGED <<feedVars, supVars, falls, scene>>

ManagerAsks ==
    /\ scene = "commands" /\ running /\ "teleop" \in launched /\ Ask
    /\ UNCHANGED <<feedVars, supVars, falls, scene>>

Driver == scene = "commands" /\ ChangeKey /\ UNCHANGED <<feedVars, supVars, falls, scene>>

SystemNext ==
    \/ \E m \in Modules : Launch(m) \/ Falls(m) \/ Follows(m)
    \/ CameraEnds \/ KeyHit \/ CameraRuns \/ ServerPublishes
    \/ TeleopRuns \/ DisplayRuns \/ ManagerAsks \/ Driver

\* The manager keeps its promises, and every process is scheduled.
SystemFairness ==
    /\ \A m \in Modules : WF_systemVars(Launch(m)) /\ WF_systemVars(Follows(m))
    /\ WF_systemVars("camera" \in launched \ up /\ KeyHit)
    /\ WF_systemVars(CameraRuns) /\ WF_systemVars(CameraEnds)
    /\ WF_systemVars(TeleopRuns) /\ WF_systemVars(ManagerAsks)
    /\ \A w \in {"steer", "speed"} :
        WF_systemVars("display" \in up /\ ReadWord(w) /\ UNCHANGED <<feedVars, supVars, falls, scene>>)

SystemSpec == SystemInit /\ [][SystemNext]_systemVars /\ SystemFairness

(***************************************************************************)
(* Properties.                                                             *)
(***************************************************************************)
\* Every variable has its type.
TypeOK ==
    /\ FeedTypeOK /\ TeleopTypeOK
    /\ running \in BOOLEAN /\ launched \subseteq Modules /\ up \subseteq launched
    /\ falls \in 0 .. MaxFalls

\* A module that is killed leaves its last command in shared memory, and the
\* display's vehicle drives on: until the new process stores what the keys say.
\* When they have been let go of, the vehicle is commanded to stop for good, or
\* there is no display any more.
RunawayEnds ==
    <>[](keys = {}) => <>[](driven = Zero \/ "display" \notin up)

\* However the messages that are lost, the restarts of the module and the flag, which
\* begins anew with every process, fall together, the server comes to obey what the
\* keys say and keeps to it, as long as there is a module to tell it.
ServerObeys ==
    \A held \in SUBSET Keys :
        <>[](keys = held) => <>[](obeyed = Input(held) \/ "teleop" \notin up)

\* One image that cannot be decoded stops the whole system, by way of the camera's
\* main loop, its static objects, and the manager that finds a critical module gone.
BadImageStopsAll == shown.state # "whole" ~> up = {} /\ ~running
==============================================================================
