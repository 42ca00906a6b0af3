----------------------------- MODULE FrameCalls ------------------------------
(***************************************************************************)
(* The OpenGL calls of one frame of the display, in their order: display    *)
(* and reshape (DisplayModule/src/Main.cpp) and what they call in the       *)
(* camera, the ground, the vehicle, the scan, the trace and the gauges.     *)
(* OpenGL keeps state from call to call and from frame to frame, and a call *)
(* that is not allowed has no effect and is never reported: the program     *)
(* does not ask for errors.                                                *)
(*                                                                         *)
(* A matrix is the sequence of what it was multiplied from; the size of the *)
(* window is part of a projection.  Calls that draw a run of vertices of    *)
(* one thing are one "vertex".  Colours and coordinates are left out.       *)
(***************************************************************************)
EXTENDS Integers, Sequences

CONSTANTS
    Sizes,                  \* sizes of the window
    FirstSize,              \* the one it opens with
    ViewDepth, ProjDepth    \* places of the two matrix stacks

ASSUME SizeAssumption ==
    FirstSize \in Sizes /\ ViewDepth \in Nat \ {0} /\ ProjDepth \in Nat \ {0}

VARIABLES
    size,   \* Camera::window_width, window_height
    mode,   \* the stack that matrix calls are about
    stack,  \* both matrix stacks, the top first
    open,   \* between glBegin and glEnd
    todo    \* the calls that are left of this callback

glVars == <<size, mode, stack, open, todo>>

Call(name) == [do |-> name, what |-> "-"]
Vertex(thing) == <<Call("begin"), [do |-> "vertex", what |-> thing], Call("end")>>
Calls(names) == [i \in 1 .. Len(names) |-> Call(names[i])]

\* Camera::setWindowDimensions, then reshape
Reshaped ==
    Calls(<<"viewport", "projection", "identity", "perspective", "modelview", "identity",
            "modelview", "identity">>)

\* drawUGV: two wheels with the steering, two without
Wheel == Calls(<<"push", "move", "cylinder", "pop">>)
Ugv ==
    Vertex("ugv") \o Vertex("ugv") \o Vertex("ugv")
    \o Calls(<<"push", "color", "move", "push", "move">>) \o Wheel
    \o Calls(<<"move">>) \o Wheel \o Calls(<<"pop">>)
    \o Calls(<<"push", "move", "cylinder", "move", "cylinder", "pop", "pop">>)

\* LIDAR::draw and GPS::draw, with and without points; the scan chooses no colour.
Points(things) == [i \in 1 .. Len(things) |-> [do |-> "vertex", what |-> things[i]]]
Scan(points) == Calls(<<"move", "begin">>) \o Points(points) \o Calls(<<"end">>)
Lines(things) == Calls(<<"begin", "color">>) \o Points(things) \o Calls(<<"end">>)

\* MyVehicle::draw
MyVehicle(points, trace) ==
    Calls(<<"push", "place", "turn">>) \o Ugv \o Scan(points) \o Lines(trace) \o Calls(<<"pop">>)

\* HUD::RenderString, DrawGauge and Draw
String == Calls(<<"raster", "bitmap">>)

Gauge ==
    Calls(<<"push", "move", "disable">>) \o String \o Vertex("gauge")
    \o String \o String \o String \o Calls(<<"color">>) \o Vertex("gauge")
    \o String \o Calls(<<"color">>) \o Vertex("gauge") \o Calls(<<"pop">>)

\* Camera::switchTo2DDrawing, switchTo3DDrawing
To2D == Calls(<<"projection", "push", "identity", "ortho", "modelview", "push", "identity">>)

\* A mutant of To3D: the stack is not chosen before the second matrix is taken off.
To3DShort == Calls(<<"pop", "pop", "projection", "modelview">>)

To3D == Calls(<<"pop", "projection", "pop", "modelview">>)

Hud == To2D \o Calls(<<"color">>) \o Gauge \o Calls(<<"color">>) \o Gauge \o To3D

\* display
Displayed(points, trace) ==
    Calls(<<"clear", "modelview", "identity", "lookat">>) \o Lines(<<"ground">>)
    \o MyVehicle(points, trace) \o Hud \o Calls(<<"swap">>)

(***************************************************************************)
(* What a call does.                                                       *)
(***************************************************************************)
Now == Head(todo)
Top(m) == Head(stack[m])
Limit(m) == IF m = "modelview" THEN ViewDepth ELSE ProjDepth
InBrackets == {"vertex", "color"}   \* what may be called between glBegin and glEnd
Factors == {"perspective", "ortho", "lookat", "place", "turn", "move"}

Factor(name) ==
    [by |-> name, size |-> IF name \in {"perspective", "ortho"} THEN size ELSE FirstSize]

Legal ==
    /\ open => Now.do \in InBrackets \cup {"end"}
    /\ Now.do \in {"vertex", "end"} => open
    /\ Now.do = "push" => Len(stack[mode]) < Limit(mode)
    /\ Now.do = "pop" => Len(stack[mode]) > 1

Changed ==
    CASE Now.do = "push" -> <<Top(mode)>> \o stack[mode]
      [] Now.do = "pop" -> Tail(stack[mode])
      [] Now.do = "identity" -> <<<<>>>> \o Tail(stack[mode])
      [] Now.do \in Factors -> <<Append(Top(mode), Factor(Now.do))>> \o Tail(stack[mode])
      [] OTHER -> stack[mode]

Stacked == IF Legal THEN Changed ELSE stack[mode]

Execute ==
    /\ todo # <<>>
    /\ open' = IF Now.do \in {"begin", "end"} THEN Now.do = "begin" ELSE open
    /\ mode' = IF Now.do \in {"projection", "modelview"} /\ ~open THEN Now.do ELSE mode
    /\ stack' = [stack EXCEPT ![mode] = Stacked]
    /\ todo' = Tail(todo)
    /\ size' = size

\* main, before the main loop
GlInit ==
    /\ size = FirstSize
    /\ mode = "modelview" /\ open = FALSE
    /\ stack = [m \in {"modelview", "projection"} |-> <<<<>>>>]
    /\ todo = SubSeq(Reshaped, 1, 6)

\* idle and the window system call display.
DrawFrame ==
    /\ todo = <<>>
    /\ \E points \in {<<>>, <<"scan">>}, trace \in {<<>>, <<"trace", "trace">>} :
        todo' = Displayed(points, trace)
    /\ UNCHANGED <<size, mode, stack, open>>

\* A mutant of Resize: only the viewport follows the window.
ResizeView ==
    /\ todo = <<>>
    /\ size' \in Sizes
    /\ todo' = Calls(<<"viewport", "modelview", "identity">>)
    /\ UNCHANGED <<mode, stack, open>>

Resize ==
    /\ todo = <<>>
    /\ size' \in Sizes
    /\ todo' = Reshaped
    /\ UNCHANGED <<mode, stack, open>>

GlNext == Execute \/ DrawFrame \/ Resize

GlSpec == GlInit /\ [][GlNext]_glVars

(***************************************************************************)
(* Properties.                                                             *)
(***************************************************************************)
GlTypeOK ==
    /\ size \in Sizes /\ open \in BOOLEAN
    /\ mode \in {"modelview", "projection"}
    /\ \A m \in DOMAIN stack : stack[m] # <<>>

\* No call is one that OpenGL would refuse without a word: none but vertices and
\* colours between glBegin and glEnd, and never more matrices on a stack, the
\* projection's of two places included, than it has room for.
EveryCallCounts == todo # <<>> => Legal

\* What the matrices of a vertex have to be: the ground under the camera alone, the
\* vehicle and what it carries in its place, the gauges flat on the window; and the
\* projection is that of the window's present size.
DrawnInPlace ==
    todo # <<>> /\ Now.do = "vertex" =>
        LET view == Top("modelview")
            names == [i \in 1 .. Len(view) |-> view[i].by]
        IN  /\ Now.what = "ground" => names = <<"lookat">>
            /\ Now.what \in {"ugv", "scan", "trace"} =>
                Len(names) >= 3 /\ SubSeq(names, 1, 3) = <<"lookat", "place", "turn">>
            /\ Now.what = "gauge" => names = <<"move">>
            /\ Top("projection") =
                <<[by |-> IF Now.what = "gauge" THEN "ortho" ELSE "perspective", size |-> size]>>
==============================================================================
