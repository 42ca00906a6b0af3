------------------------------ MODULE MCDisplay ------------------------------
(***************************************************************************)
(* One run for the parts of the display that share no state in the models:  *)
(* the viewpoint, the pitch of its drags, the geometry of its turns, its     *)
(* modes, the direction it follows from, the course of the vehicle, the      *)
(* calls of a frame, the texts about vehicles, and the circular queue.       *)
(* A behaviour is one of one part; the others rest in their initial states. *)
(***************************************************************************)
EXTENDS Viewpoint, Pitch, Turning, ViewModes, Follow, Course, FrameCalls,
        Messages, CircularQueue

VARIABLE part   \* the part of the display that this behaviour is about

displayVars == <<part, viewVars, pitchVars, turnVars, cam, follow, courseVars, glVars,
                 messageVars, queueVars>>

MCDown45 == -8
MCDrags == (-3) .. 3 \cup {-12, 12}
\* About the tangents of 30 and of 40 radians: Camera.cpp:104 gives 60 degrees, which the
\* frustum multiplies by the aspect of the window, here 4 to 3, and takes for radians.
MCHigh == [side |-> -143, ahead |-> 24, edge |-> 145]
MCWide == [side |-> -21, ahead |-> 20, edge |-> 29]
MCGrid == {-150, 0, 150}

DisplayInit ==
    /\ part \in {"viewpoint", "pitch", "turning", "modes", "following", "course", "frame",
                 "messages", "queue"}
    /\ ViewInit /\ PitchInit /\ TurnInit /\ ModesInit /\ FollowInit /\ CourseInit
    /\ GlInit /\ MessageInit /\ QueueInit

Rest(others) == UNCHANGED <<part, others>>

Watch ==
    /\ part = "viewpoint"
    /\ Rest(<<pitchVars, turnVars, cam, follow, courseVars, glVars, messageVars, queueVars>>)
Tilt ==
    /\ part = "pitch"
    /\ Rest(<<viewVars, turnVars, cam, follow, courseVars, glVars, messageVars, queueVars>>)
Rove ==
    /\ part = "turning"
    /\ Rest(<<viewVars, pitchVars, cam, follow, courseVars, glVars, messageVars, queueVars>>)
Switch ==
    /\ part = "modes"
    /\ Rest(<<viewVars, pitchVars, turnVars, follow, courseVars, glVars, messageVars, queueVars>>)
Orbit ==
    /\ part = "following"
    /\ Rest(<<viewVars, pitchVars, turnVars, cam, courseVars, glVars, messageVars, queueVars>>)
Tour ==
    /\ part = "course"
    /\ Rest(<<viewVars, pitchVars, turnVars, cam, follow, glVars, messageVars, queueVars>>)
Draw ==
    /\ part = "frame"
    /\ Rest(<<viewVars, pitchVars, turnVars, cam, follow, courseVars, messageVars, queueVars>>)
Tell ==
    /\ part = "messages"
    /\ Rest(<<viewVars, pitchVars, turnVars, cam, follow, courseVars, glVars, queueVars>>)
Turnover ==
    /\ part = "queue"
    /\ Rest(<<viewVars, pitchVars, turnVars, cam, follow, courseVars, glVars, messageVars>>)

DisplayNext ==
    \/ ViewNext /\ Watch
    \/ PitchNext /\ Tilt
    \/ TurnNext /\ Rove
    \/ ModesNext /\ Switch
    \/ FollowNext /\ Orbit
    \/ CourseNext /\ Tour
    \/ GlNext /\ Draw
    \/ MessageNext /\ Tell
    \/ QueueNext /\ Turnover

\* The main loop keeps calling idle.
DisplaySpec == DisplayInit /\ [][DisplayNext]_displayVars /\ WF_viewVars(Frame /\ Watch)

\* Every variable of every part has its type.
TypeOK ==
    /\ ViewTypeOK /\ PitchTypeOK /\ TurnTypeOK /\ ModesTypeOK /\ FollowTypeOK
    /\ CourseTypeOK /\ GlTypeOK
==============================================================================
