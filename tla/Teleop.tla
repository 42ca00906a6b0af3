-------------------------------- MODULE Teleop -------------------------------
(***************************************************************************)
(* The way of a command from the keys to the UGV's server and to the        *)
(* vehicle that the display simulates (VehicleControlModule/src/Main.cpp    *)
(* and idle of DisplayModule/src/Main.cpp).  The command is two words of     *)
(* shared memory, which the module stores one after the other and the       *)
(* display reads one after the other, with no lock; a process that is       *)
(* killed leaves behind what it has stored.                                *)
(*                                                                         *)
(* What a key commands along one axis is in DriveAxis.  Here the keys are    *)
(* those that teleopInput finds pressed: none while another window has the  *)
(* keyboard.                                                               *)
(*                                                                         *)
(* The server is not part of the program.  It is taken to use the flag of a *)
(* message for what an alternating flag is for: a message with the flag of  *)
(* the last one that it got is not a new command.  Of a connection that is  *)
(* made anew it may take the first message as new or not.                  *)
(***************************************************************************)
EXTENDS Integers, Command

CONSTANTS
    Keys,           \* the keys of the keyboard
    MaxPresses,     \* bound on the changes of the keys
    MaxLosses       \* bound on the messages that are lost

ASSUME KeysAssumption ==
    /\ Keys \subseteq {"W", "S", "A", "D"}
    /\ MaxPresses \in Nat /\ MaxLosses \in Nat

VARIABLES
    keys, presses,
    asked,      \* the module's heartbeat is lowered
    step,       \* of the module's process
    command,    \* of this turn
    flag,       \* of the message
    words,      \* steer and speed in shared memory
    losses,     \* messages that were lost
    told,       \* the flag of the last message that the server got, or none
    obeyed,     \* the last command that the server took for a new one
    reading,    \* the words the display has read in this frame
    driven,     \* steer and speed that moved its vehicle last
    given,      \* history: the commands of all turns
    overlap     \* history: a store came between the reads, or is half done

keyVars == <<keys, presses>>
displayReads == <<reading, driven, overlap>>
serverVars == <<losses, told, obeyed>>
teleopVars == <<keyVars, asked, step, command, flag, words, serverVars, displayReads, given>>

TeleopSteps == {"gone", "connect", "rest", "steer", "speed", "send", "beat"}

TeleopInit ==
    /\ keys = {} /\ presses = 0
    /\ asked = FALSE /\ step = "gone" /\ command = Zero /\ flag = FALSE
    /\ words = Zero
    /\ losses = 0 /\ told = "none" /\ obeyed = Zero
    /\ reading = {} /\ driven = Zero /\ overlap = FALSE
    /\ given = {Zero}

ChangeKey ==
    /\ presses < MaxPresses /\ presses' = presses + 1
    /\ \E k \in Keys : keys' \in {keys \cup {k}, keys \ {k}}
    /\ UNCHANGED <<asked, step, command, flag, words, serverVars, displayReads, given>>

\* The manager lowers the heartbeat.
Ask ==
    /\ ~asked /\ asked' = TRUE
    /\ UNCHANGED <<keyVars, step, command, flag, words, serverVars, displayReads, given>>

\* The process starts: its mapping keeps the words of the last one.
TeleopStart ==
    /\ step = "gone" /\ step' = "connect"
    /\ flag' = FALSE
    /\ told' \in {told, "none"}
    /\ UNCHANGED <<keyVars, asked, command, words, losses, obeyed, displayReads, given>>

\* It ends: by itself, or killed at any step.
TeleopEnds ==
    /\ step # "gone" /\ step' = "gone"
    /\ UNCHANGED <<keyVars, asked, command, flag, words, serverVars, displayReads, given>>

Connected ==
    /\ step = "connect" /\ step' = "rest"
    /\ UNCHANGED <<keyVars, asked, command, flag, words, serverVars, displayReads, given>>

\* Mutants of Poll: a turn waits for a key; the flag is turned for a new command only.
PollOnKey ==
    /\ step = "rest" /\ asked /\ Input(keys) # Zero /\ step' = "steer"
    /\ command' = Input(keys)
    /\ given' = given \cup {command'}
    /\ flag' = ~flag
    /\ UNCHANGED <<keyVars, asked, words, serverVars, displayReads>>

PollOnNew ==
    /\ step = "rest" /\ asked /\ step' = "steer"
    /\ command' = Input(keys)
    /\ given' = given \cup {command'}
    /\ flag' = (flag # (command' # command))
    /\ UNCHANGED <<keyVars, asked, words, serverVars, displayReads>>

\* A turn that was asked for a heartbeat polls the keys.
Poll ==
    /\ step = "rest" /\ asked /\ step' = "steer"
    /\ command' = Input(keys)
    /\ given' = given \cup {command'}
    /\ flag' = ~flag
    /\ UNCHANGED <<keyVars, asked, words, serverVars, displayReads>>

Store(from, to, word) ==
    /\ step = from /\ step' = to
    /\ words' = [words EXCEPT ![word] = command[word]]
    /\ overlap' = (overlap \/ (reading # {} /\ words' # words))
    /\ UNCHANGED <<keyVars, asked, command, flag, serverVars, reading, driven, given>>

StoreSteer == Store("steer", "speed", "steer")

StoreSpeed == Store("speed", "send", "speed")

Name(f) == IF f THEN "one" ELSE "zero"

\* The server gets the message.
ServerGets ==
    /\ told' = Name(flag)
    /\ obeyed' = IF told = Name(flag) THEN obeyed ELSE command
    /\ losses' = losses

\* tcpSend: that a message could not be sent is only reported.
Send ==
    /\ step = "send" /\ step' = "beat"
    /\ \/ ServerGets
       \/ losses < MaxLosses /\ losses' = losses + 1 /\ UNCHANGED <<told, obeyed>>
    /\ UNCHANGED <<keyVars, asked, command, flag, words, displayReads, given>>

Beat ==
    /\ step = "beat" /\ step' = "rest" /\ asked' = FALSE
    /\ UNCHANGED <<keyVars, command, flag, words, serverVars, displayReads, given>>

\* A mutant of ReadWord: the second pointer points to the first word, too.
ReadWordFirst(w) ==
    /\ w \notin reading
    /\ reading' = IF reading = {} THEN {w} ELSE {}
    /\ driven' = [driven EXCEPT ![w] = words.steer]
    /\ overlap' = (IF reading = {} THEN words \notin given ELSE overlap)
    /\ UNCHANGED <<keyVars, asked, step, command, flag, words, serverVars, given>>

\* idle: the arguments of update, in whatever order they are evaluated.
ReadWord(w) ==
    /\ w \notin reading
    /\ reading' = IF reading = {} THEN {w} ELSE {}
    /\ driven' = [driven EXCEPT ![w] = words[w]]
    /\ overlap' = (IF reading = {} THEN words \notin given ELSE overlap)
    /\ UNCHANGED <<keyVars, asked, step, command, flag, words, serverVars, given>>

ReadCommand == \E w \in {"steer", "speed"} : ReadWord(w)

\* The display's process ends in the middle of a frame or not.
DisplayEnds ==
    /\ reading' = {} /\ driven' = Zero /\ overlap' = FALSE
    /\ UNCHANGED <<keyVars, asked, step, command, flag, words, serverVars, given>>

TeleopStep == Connected \/ Poll \/ StoreSteer \/ StoreSpeed \/ Send \/ Beat

(***************************************************************************)
(* Properties.                                                             *)
(***************************************************************************)
TeleopTypeOK ==
    /\ keys \subseteq Keys /\ presses \in 0 .. MaxPresses
    /\ step \in TeleopSteps /\ asked \in BOOLEAN /\ flag \in BOOLEAN
    /\ {command, words, driven, obeyed} \subseteq Commands /\ given \subseteq Commands
    /\ losses \in 0 .. MaxLosses /\ told \in {"none", "one", "zero"}
    /\ reading \subseteq {"steer", "speed"} /\ reading # {"steer", "speed"}
    /\ overlap \in BOOLEAN

\* The vehicle of the display moves by a steering and a speed that were never
\* commanded together only if a store came between the two reads of its frame, or
\* was half done when it began: half done for as long as it takes to start a new
\* process, if the old one was killed there.
MixedByOverlapOnly == reading = {} /\ driven \notin given => overlap
==============================================================================
