------------------------------ MODULE DriveAxis ------------------------------
(***************************************************************************)
(* One axis of the teleoperation, speed or steering, from the keys that    *)
(* VehicleControlModule/src/Main.cpp polls, through its word of shared      *)
(* memory, to the vehicle the display simulates (Display's idle callback    *)
(* and Vehicle::update).                                                    *)
(*                                                                         *)
(* Vehicle::update moves the axis towards the command by the share          *)
(* dt * Gain of the way, keeps it within its limits and stops it when it is *)
(* closer to zero than Dead.  dt is the measured time of a frame.  The      *)
(* doubles are modelled by integers: values in thousandths of m/s or        *)
(* hundredths of a degree, dt in milliseconds, shares in thousandths.       *)
(*                                                                         *)
(* The display negates the steering word; here the sign is left alone.      *)
(***************************************************************************)
EXTENDS Integers

CONSTANTS
    Limit,      \* 1 m/s, or 40 degrees
    Dead,       \* 0.1
    Gain,       \* 4, or 6
    GaugeMax,   \* the end of the axis's gauge on the display
    Dts         \* the times a frame may take

ASSUME AxisAssumption ==
    /\ Dead \in Nat /\ Gain \in Nat /\ Limit \in Nat
    /\ Dead <= Limit
    /\ GaugeMax \in Nat \ {0}
    /\ Dts \subseteq Nat

VARIABLES
    keys,       \* the keys held on the keyboard: "more", "less"
    tapped,     \* keys pressed since they were last polled
    focus,      \* the window with the keyboard
    up,         \* the vehicle control module runs
    word,       \* its word of shared memory
    value,      \* speed or steering of the display's vehicle
    odd         \* flips with every frame, to tell a frame from none

keyboard == <<keys, tapped, focus>>
vars == <<keyboard, up, word, value, odd>>

Abs(v) == IF v < 0 THEN -v ELSE v
Clamp(v) == IF v < -Limit THEN -Limit ELSE IF v > Limit THEN Limit ELSE v

\* teleopInput: no key counts unless the module's own console has the keyboard,
\* and the key that is polled last wins.  GetAsyncKeyState answers for a key that
\* is down, and once for a key that was pressed since it was last asked.
Command ==
    LET polled == IF focus = "console" THEN keys \cup tapped ELSE {}
    IN  IF "less" \in polled THEN -Limit ELSE IF "more" \in polled THEN Limit ELSE 0

\* A mutant of Update: the axis stops at the edge of the dead band, too.
UpdateAtMost(v, c, dt) ==
    LET moved == Clamp(v + ((c - v) * dt * Gain) \div 1000)
    IN  IF Abs(moved) <= Dead THEN 0 ELSE moved

\* Vehicle::update
Update(v, c, dt) ==
    LET moved == Clamp(v + ((c - v) * dt * Gain) \div 1000)
    IN  IF Abs(moved) < Dead THEN 0 ELSE moved

\* DrawGauge: the needle's place on a scale of 1000 parts, and where it is drawn.
Scaled(v) == ((v + GaugeMax) * 1000) \div (2 * GaugeMax)
Needle(v) == IF Scaled(v) < 0 THEN 0 ELSE IF Scaled(v) > 1000 THEN 1000 ELSE Scaled(v)

Init ==
    /\ keys = {} /\ tapped = {} /\ focus = "console"
    /\ up = FALSE /\ word = 0 /\ value = 0 /\ odd = FALSE

\* A key goes down or up, in whatever window.
Press(k) ==
    /\ k \notin keys
    /\ keys' = keys \cup {k} /\ tapped' = tapped \cup {k}
    /\ UNCHANGED <<focus, up, word, value, odd>>

Release(k) ==
    /\ k \in keys
    /\ keys' = keys \ {k}
    /\ UNCHANGED <<tapped, focus, up, word, value, odd>>

\* Another window gets the keyboard.
Focus ==
    /\ focus' \in {"console", "display"}
    /\ UNCHANGED <<keys, tapped, up, word, value, odd>>

\* The module starts, or starts again, or ends; the word stays as it is.
Start == ~up /\ up' = TRUE /\ UNCHANGED <<keyboard, word, value, odd>>
End == up /\ up' = FALSE /\ UNCHANGED <<keyboard, word, value, odd>>

\* A mutant of Turn: a command is sent for a key only.
TurnOnKey ==
    /\ up /\ Command # 0
    /\ word' = Command
    /\ tapped' = {}
    /\ UNCHANGED <<keys, focus, up, value, odd>>

\* A turn of the module's loop that was asked for a heartbeat: poll and store.
Turn ==
    /\ up
    /\ word' = Command
    /\ tapped' = IF focus = "console" THEN {} ELSE tapped
    /\ UNCHANGED <<keys, focus, up, value, odd>>

\* A frame of the display.
Frame ==
    /\ \E dt \in Dts : value' = Update(value, word, dt)
    /\ odd' = ~odd
    /\ UNCHANGED <<keyboard, up, word>>

Next ==
    \/ \E k \in {"more", "less"} : Press(k) \/ Release(k)
    \/ Focus \/ Start \/ End \/ Turn \/ Frame

\* Both processes are scheduled, and the manager keeps asking for heartbeats.  A
\* frame need not change the value; nothing is promised of the time it takes.
Spec == Init /\ [][Next]_vars /\ WF_vars(Turn) /\ WF_vars(Frame)

(***************************************************************************)
(* Properties.                                                             *)
(***************************************************************************)
\* However the frames are timed, letting go of the keys, or of the console,
\* stops the vehicle for good and not just almost: a key pressed earlier or in
\* another window is forgotten, and the filter neither oscillates nor creeps.
Stops ==
    <>[](up /\ keys = {}) \/ <>[](up /\ focus # "console") => <>[](value = 0)

NearLimit == value >= Limit - Limit \div 10
OnScale == \E v \in {value} : Needle(v) = Scaled(v)

\* Holding a key brings the axis near its limit, from standstill, and the needle shows
\* it there: the dead band does not swallow the first step however often frames are
\* drawn, and a late frame does not put the value behind the end of the gauge.
Drives ==
    <>[](up /\ focus = "console" /\ keys = {"more"})
        => <>[](NearLimit /\ OnScale)
==============================================================================
