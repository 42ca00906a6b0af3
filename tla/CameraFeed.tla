------------------------------ MODULE CameraFeed -----------------------------
(***************************************************************************)
(* The images of the UGV's camera on their way to the screen: CameraModule/ *)
(* src/Main.cpp, with the subscriber socket and the context of ZeroMQ as     *)
(* zmq.hpp wraps them.  The module's heartbeat and timer are in Heartbeat;  *)
(* here a frame may find the timer expired when the manager is gone.        *)
(*                                                                         *)
(* Images are numbered as the server publishes them.  A socket of libzmq    *)
(* keeps those that nobody has taken, up to a limit, and drops what comes   *)
(* beyond it; it connects again by itself when the link was down.  An image *)
(* is an id and a state: "whole", or damaged in its header or its body.     *)
(***************************************************************************)
EXTENDS Integers, Sequences

CONSTANTS
    MaxImages,      \* bound on the images that are published
    QueueLimit      \* the high-water mark of the socket, 1000 by default

ASSUME FeedAssumption == MaxImages \in Nat /\ QueueLimit \in Nat \ {0}

VARIABLES
    link,       \* the socket's connection to the server
    sent,       \* images published
    queue,      \* images in the socket
    texture,    \* what glTexImage2D was given last
    shown,      \* what the window shows
    handles,    \* the context and the socket, while they are open
    stage,      \* of the process
    last        \* history: the last image that got into the socket

feedVars == <<link, sent, queue, texture, shown, handles, stage, last>>

Stages == {"absent", "started", "connected", "subscribed", "loop", "leaving", "ended"}
Black == [id |-> 0, state |-> "whole"]
States == {"whole", "header", "body"}

FeedInit ==
    /\ link = TRUE /\ sent = 0 /\ queue = <<>> /\ last = 0
    /\ texture = Black /\ shown = Black
    /\ handles = {} /\ stage = "absent"

\* The process starts: context_t and socket_t of the static objects.
FeedStart ==
    /\ stage = "absent"
    /\ stage' = "started" /\ handles' = {"context", "socket"}
    /\ UNCHANGED <<link, sent, queue, texture, shown, last>>

\* The server publishes an image.  Nothing is kept for a socket that has not
\* subscribed yet, whose link is down, or whose queue is full.
Publish ==
    /\ sent < MaxImages
    /\ sent' = sent + 1
    /\ IF /\ link /\ "socket" \in handles
          /\ stage \notin {"absent", "started", "connected"}
          /\ Len(queue) < QueueLimit
       THEN /\ \E state \in States : queue' = Append(queue, [id |-> sent', state |-> state])
            /\ last' = sent'
       ELSE UNCHANGED <<queue, last>>
    /\ UNCHANGED <<link, texture, shown, handles, stage>>

LinkDrops == link /\ link' = FALSE /\ UNCHANGED <<sent, queue, texture, shown, handles, stage, last>>
LinkReturns == ~link /\ link' = TRUE /\ UNCHANGED <<sent, queue, texture, shown, handles, stage, last>>

Goes(from, to) ==
    stage = from /\ stage' = to
    /\ UNCHANGED <<link, sent, queue, texture, shown, handles, last>>

\* main: the socket, and then the window, while images already come in.
Connect == Goes("started", "connected")
Subscribe == Goes("connected", "subscribed")
OpenWindow == Goes("subscribed", "loop")

\* display: the window shows the texture.
Draw == shown' = texture'

\* Mutants of IdleFrame: the window is only drawn for an image, and before it is
\* decoded; the newest image is taken and the others stay.
IdleFrameBehind ==
    /\ stage = "loop" /\ queue # <<>>
    /\ queue' = Tail(queue) /\ texture' = Head(queue) /\ UNCHANGED stage
    /\ shown' = texture
    /\ UNCHANGED <<link, sent, handles, last>>

IdleFrameNewest ==
    /\ stage = "loop"
    /\ IF queue = <<>>
       THEN UNCHANGED <<queue, texture>>
       ELSE queue' = SubSeq(queue, 1, Len(queue) - 1) /\ texture' = queue[Len(queue)]
    /\ UNCHANGED stage
    /\ Draw
    /\ UNCHANGED <<link, sent, handles, last>>

\* idle: one image if there is one, decoded, given to OpenGL and shown.  An image
\* that cannot be decoded ends the loop, but only after this callback: whatever is
\* in the buffer is shown once.
IdleFrame ==
    /\ stage = "loop"
    /\ IF queue = <<>>
       THEN UNCHANGED <<queue, texture, stage>>
       ELSE /\ queue' = Tail(queue)
            /\ texture' = Head(queue)
            /\ stage' = IF texture'.state = "whole" THEN "loop" ELSE "leaving"
    /\ Draw
    /\ UNCHANGED <<link, sent, handles, last>>

\* The timer, once the manager has stopped asking for heartbeats.
TimesOut ==
    /\ stage = "loop" /\ stage' = "leaving"
    /\ UNCHANGED <<link, sent, queue, texture, shown, handles, last>>

CloseHandle(h) ==
    /\ stage = "leaving" /\ h \in handles
    /\ handles' = handles \ {h}
    /\ queue' = IF h = "socket" THEN <<>> ELSE queue
    /\ stage' = IF handles' = {} THEN "ended" ELSE stage
    /\ UNCHANGED <<link, sent, texture, shown, last>>

\* A mutant of Destroy: the context, declared last, is destroyed first.
DestroyContextFirst ==
    \/ "socket" \notin handles /\ CloseHandle("context")
    \/ "context" \notin handles /\ CloseHandle("socket")

\* main has returned: the static objects are destroyed in the reverse order of
\* their declarations.  zmq_ctx_destroy does not return before the socket is closed.
Destroy == CloseHandle("socket") \/ ("socket" \notin handles /\ CloseHandle("context"))

\* The process is gone, by itself or from outside, and what it held with it.
FeedGone ==
    /\ stage' = "ended" /\ handles' = {} /\ queue' = <<>>
    /\ UNCHANGED <<link, sent, texture, shown, last>>

FeedStep == Connect \/ Subscribe \/ OpenWindow \/ IdleFrame \/ Destroy
Server == Publish \/ LinkDrops \/ LinkReturns
FeedNext == FeedStart \/ FeedStep \/ Server

FeedSpec == FeedInit /\ [][FeedNext]_feedVars /\ WF_feedVars(FeedStart) /\ WF_feedVars(FeedStep)

(***************************************************************************)
(* Properties.                                                             *)
(***************************************************************************)
FeedTypeOK ==
    /\ link \in BOOLEAN /\ stage \in Stages /\ handles \subseteq {"context", "socket"}
    /\ sent \in 0 .. MaxImages /\ last \in 0 .. sent
    /\ Len(queue) <= QueueLimit
    /\ {texture, shown} \subseteq [id : 0 .. MaxImages, state : States]

\* Whatever is lost on the way, the window never goes back to an earlier image.
ImagesInOrder == [][shown'.id >= shown.id]_feedVars

\* An image that could not be decoded is the last thing that is shown: the buffer
\* it leaves is never mistaken for a picture by a loop that goes on.
GarbageIsLast == shown.state # "whole" => stage \in {"leaving", "ended"}

\* While the module runs, every backlog is shown to its end: when no more images
\* come, the window settles on the last one that got through.
CatchesUp == <>[](stage = "loop") => <>[](shown.id = last)

\* README.md:53: the module gets the most recent image there is.
MostRecent == [][shown'.id # shown.id => shown'.id = last]_feedVars
==============================================================================
