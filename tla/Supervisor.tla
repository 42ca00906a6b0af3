------------------------------ MODULE Supervisor -----------------------------
(***************************************************************************)
(* What the process manager promises, without heartbeats, timers or        *)
(* processes that block: it starts the modules, starts the ones it can do  *)
(* without again when they end, never starts a critical one twice, and     *)
(* gives up for good when a critical one is gone.                          *)
(***************************************************************************)
CONSTANTS Modules, Critical

VARIABLES
    running,    \* the manager has not stopped
    launched,   \* modules started at least once
    up          \* modules with a process

vars == <<running, launched, up>>

Init == running = TRUE /\ launched = {} /\ up = {}

\* A module is started, once if it is critical, and never on top of itself.
Launch(m) ==
    /\ running
    /\ m \notin up
    /\ m \in Critical => m \notin launched
    /\ launched' = launched \cup {m}
    /\ up' = up \cup {m}
    /\ running' = running

\* A process ends.
Down(m) == m \in up /\ up' = up \ {m} /\ UNCHANGED <<running, launched>>

\* The manager ends: by a key, a failure, or on its own.
Stop == running /\ running' = FALSE /\ UNCHANGED <<launched, up>>

Next == Stop \/ \E m \in Modules : Launch(m) \/ Down(m)

GiveUp == \E m \in Critical : m \in launched \ up /\ Stop

Fairness ==
    /\ \A m \in Modules : WF_vars(Launch(m))
    /\ WF_vars(GiveUp)

Spec == Init /\ [][Next]_vars /\ Fairness
==============================================================================
