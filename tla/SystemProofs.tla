----------------------------- MODULE SystemProofs ----------------------------
(***************************************************************************)
(* The safety of the images and of the commands under the manager, for any  *)
(* number of images, size of the socket's queue, keys and falls.  A step of *)
(* the system is a step of the feed or leaves its variables alone, and so   *)
(* it is with the way of the commands; the rest is shown for each of them.  *)
(***************************************************************************)
EXTENDS System, TLAPS

FeedAny == FeedStart \/ FeedStep \/ Server \/ TimesOut \/ FeedGone

TeleopAny ==
    \/ ChangeKey \/ Ask \/ TeleopStart \/ TeleopEnds
    \/ TeleopStep \/ ReadCommand \/ DisplayEnds

\* Whatever the manager does to the camera's process is a step of the feed.
LEMMA ImageSteps == [SystemNext]_systemVars => [FeedAny]_feedVars
<1> SUFFICES ASSUME [SystemNext]_systemVars PROVE [FeedAny]_feedVars
    OBVIOUS
<1>1. ASSUME NEW m \in Modules, Launch(m) PROVE [FeedAny]_feedVars
    BY <1>1 DEF Launch, FeedAny
<1>2. ASSUME NEW m \in Modules, Ended(m) PROVE [FeedAny]_feedVars
    BY <1>2 DEF Ended, FeedAny
<1>3. CASE CameraEnds
    BY <1>2, <1>3 DEF CameraEnds, Modules
<1>4. CASE CameraRuns
    BY <1>4 DEF CameraRuns, FeedAny
<1>5. CASE ServerPublishes
    BY <1>5 DEF ServerPublishes, FeedAny
<1>6. CASE KeyHit \/ TeleopRuns \/ DisplayRuns \/ ManagerAsks \/ Driver
    BY <1>6 DEF KeyHit, TeleopRuns, DisplayRuns, ManagerAsks, Driver
<1>7. CASE UNCHANGED systemVars
    BY <1>7 DEF systemVars
<1>8. ASSUME NEW m \in Modules, Launch(m) \/ Falls(m) \/ Follows(m)
      PROVE  [FeedAny]_feedVars
    BY <1>1, <1>2, <1>8 DEF Falls, Follows
<1> QED BY <1>3, <1>4, <1>5, <1>6, <1>7, <1>8 DEF SystemNext

\* And whatever it does to the vehicle control module or the display is one of the
\* way of the commands.
LEMMA CommandSteps == [SystemNext]_systemVars => [TeleopAny]_teleopVars
<1> SUFFICES ASSUME [SystemNext]_systemVars PROVE [TeleopAny]_teleopVars
    OBVIOUS
<1>1. ASSUME NEW m \in Modules, Launch(m) PROVE [TeleopAny]_teleopVars
    BY <1>1 DEF Launch, TeleopAny
<1>2. ASSUME NEW m \in Modules, Ended(m) PROVE [TeleopAny]_teleopVars
    BY <1>2 DEF Ended, TeleopAny, Modules
<1>3. CASE CameraEnds
    BY <1>2, <1>3 DEF CameraEnds, Modules
<1>4. CASE CameraRuns \/ ServerPublishes \/ KeyHit
    BY <1>4 DEF CameraRuns, ServerPublishes, KeyHit
<1>5. CASE TeleopRuns
    BY <1>5 DEF TeleopRuns, TeleopAny
<1>6. CASE DisplayRuns
    BY <1>6 DEF DisplayRuns, TeleopAny
<1>7. CASE ManagerAsks
    BY <1>7 DEF ManagerAsks, TeleopAny
<1>8. CASE Driver
    BY <1>8 DEF Driver, TeleopAny
<1>9. CASE UNCHANGED systemVars
    BY <1>9 DEF systemVars
<1>10. ASSUME NEW m \in Modules, Launch(m) \/ Falls(m) \/ Follows(m)
       PROVE  [TeleopAny]_teleopVars
    BY <1>1, <1>2, <1>10 DEF Falls, Follows
<1> QED BY <1>3, <1>4, <1>5, <1>6, <1>7, <1>8, <1>9, <1>10 DEF SystemNext

(***************************************************************************)
(* Images.                                                                 *)
(***************************************************************************)
\* A damaged image is in the window or in the texture only once the loop is left.
Framed == \A t \in {texture, shown} : t.state = "whole" \/ stage \in {"leaving", "ended"}

Image == [id : Nat, state : States]

\* The images in the socket are in order, and newer than any that was shown.
Ordered ==
    /\ sent \in Nat
    /\ queue \in Seq(Image)
    /\ texture \in Image /\ shown \in Image
    /\ shown.id <= texture.id /\ texture.id <= sent
    /\ \A i \in 1 .. Len(queue) : texture.id < queue[i].id /\ queue[i].id <= sent
    /\ \A i, j \in 1 .. Len(queue) : i < j => queue[i].id < queue[j].id

LEMMA FramedInit == SystemInit => Framed
  BY DEF SystemInit, FeedInit, Framed, Black

LEMMA FramedStep == Framed /\ [FeedAny]_feedVars => Framed'
<1> SUFFICES ASSUME Framed, [FeedAny]_feedVars PROVE Framed'
    OBVIOUS
<1> USE DEF Framed
<1>1. CASE FeedStart
    BY <1>1 DEF FeedStart
<1>2. CASE Connect \/ Subscribe \/ OpenWindow
    BY <1>2 DEF Connect, Subscribe, OpenWindow, Goes
<1>3. CASE IdleFrame
    <2>1. texture.state = "whole"
        BY <1>3 DEF IdleFrame, Draw
    <2>2. CASE queue = <<>>
        BY <1>3, <2>1, <2>2 DEF IdleFrame, Draw
    <2>3. CASE queue # <<>>
        BY <1>3, <2>3 DEF IdleFrame, Draw
    <2> QED BY <2>2, <2>3
<1>4. CASE Destroy
    BY <1>4 DEF Destroy, CloseHandle
<1>5. CASE Server
    BY <1>5 DEF Server, Publish, LinkDrops, LinkReturns
<1>6. CASE TimesOut
    BY <1>6 DEF TimesOut
<1>7. CASE FeedGone
    BY <1>7 DEF FeedGone
<1>8. CASE UNCHANGED feedVars
    BY <1>8 DEF feedVars
<1> QED BY <1>1, <1>2, <1>3, <1>4, <1>5, <1>6, <1>7, <1>8 DEF FeedAny, FeedStep

\* CameraModule/src/Main.cpp, idle: a damaged image that a frame has shown is the last
\* one, whatever becomes of the link, the camera's process and the manager.
THEOREM GarbageIsLastAlways == SystemSpec => []GarbageIsLast
<1>1. SystemInit => Framed
    BY FramedInit
<1>2. Framed /\ [SystemNext]_systemVars => Framed'
    BY FramedStep, ImageSteps
<1>3. Framed => GarbageIsLast
    BY DEF Framed, GarbageIsLast
<1> QED BY <1>1, <1>2, <1>3, PTL DEF SystemSpec

LEMMA Member ==
    ASSUME NEW S, NEW q \in Seq(S), NEW i \in 1 .. Len(q) PROVE q[i] \in S
  OBVIOUS

\* Every image in the socket has a number.
LEMMA Numbered == Ordered => \A i \in 1 .. Len(queue) : queue[i] \in Image /\ queue[i].id \in Nat
<1> SUFFICES ASSUME Ordered, NEW i \in 1 .. Len(queue)
             PROVE  queue[i] \in Image /\ queue[i].id \in Nat
    OBVIOUS
<1>1. queue[i] \in Image
    BY Member DEF Ordered
<1> QED BY <1>1 DEF Image

LEMMA OrderedInit == SystemInit => Ordered
  BY DEF SystemInit, FeedInit, Ordered, Black, States, Image

\* One frame takes the oldest image, which is newer than what is shown.
LEMMA OrderedFrame == Ordered /\ IdleFrame => Ordered' /\ shown'.id >= shown.id
<1> SUFFICES ASSUME Ordered, IdleFrame PROVE Ordered' /\ shown'.id >= shown.id
    OBVIOUS
<1> USE DEF Ordered
<1>1. \A i \in 1 .. Len(queue) : queue[i] \in Image /\ queue[i].id \in Nat
    BY Numbered
<1>2. texture.id \in Nat /\ shown.id \in Nat /\ Len(queue) \in Nat
    BY DEF Image
<1>3. sent' = sent /\ shown' = texture'
    BY DEF IdleFrame, Draw
<1>4. CASE queue = <<>>
    <2>1. queue' = queue /\ texture' = texture
        BY <1>4 DEF IdleFrame, Draw
    <2> QED BY <1>2, <1>3, <2>1
<1>5. CASE queue # <<>>
    <2>1. queue' = Tail(queue) /\ texture' = queue[1]
        BY <1>5 DEF IdleFrame, Draw
    <2>2. Len(queue) > 0 /\ 1 \in 1 .. Len(queue)
        BY <1>2, <1>5
    <2>3. queue' \in Seq(Image) /\ Len(queue') = Len(queue) - 1
        BY <1>5, <2>1
    <2>4. \A i \in 1 .. Len(queue') : queue'[i] = queue[i + 1] /\ i + 1 \in 1 .. Len(queue)
        BY <1>5, <2>1, <2>2, <2>3
    <2>5. texture.id < queue[1].id /\ queue[1].id <= sent /\ queue[1] \in Image
        BY <1>1, <2>2
    <2>6. ASSUME NEW i \in 1 .. Len(queue')
          PROVE  queue[1].id < queue'[i].id /\ queue'[i].id <= sent
        <3>1. 1 < i + 1 /\ i + 1 \in 1 .. Len(queue)
            BY <2>3, <2>4
        <3> QED BY <2>2, <2>4, <3>1
    <2>7. ASSUME NEW i \in 1 .. Len(queue'), NEW j \in 1 .. Len(queue'), i < j
          PROVE  queue'[i].id < queue'[j].id
        <3>1. i + 1 < j + 1
            BY <2>3, <2>7
        <3> QED BY <2>4, <3>1
    <2>8. shown.id <= queue[1].id
        BY <1>1, <1>2, <2>2, <2>5
    <2>9. shown'.id <= texture'.id /\ texture'.id <= sent' /\ shown'.id >= shown.id
        BY <1>1, <1>2, <1>3, <2>1, <2>2, <2>5, <2>8
    <2>10. \A i \in 1 .. Len(queue') : texture'.id < queue'[i].id /\ queue'[i].id <= sent'
        BY <1>3, <2>1, <2>6
    <2> QED BY <1>3, <2>1, <2>3, <2>5, <2>7, <2>9, <2>10
<1> QED BY <1>4, <1>5

LEMMA OrderedPublish == Ordered /\ Publish => Ordered' /\ shown' = shown
<1> SUFFICES ASSUME Ordered, Publish PROVE Ordered' /\ shown' = shown
    OBVIOUS
<1> USE DEF Ordered
<1>1. sent' = sent + 1 /\ texture' = texture /\ shown' = shown
    BY DEF Publish
<1>2. \A i \in 1 .. Len(queue) : queue[i].id \in Nat
    BY Numbered
<1>3. texture.id \in Nat /\ shown.id \in Nat /\ Len(queue) \in Nat
    BY DEF Image
<1>4. CASE UNCHANGED queue
    BY <1>1, <1>2, <1>3, <1>4
<1>5. CASE \E state \in States : queue' = Append(queue, [id |-> sent', state |-> state])
    <2>1. PICK state \in States : queue' = Append(queue, [id |-> sent', state |-> state])
        BY <1>5
    <2> DEFINE new == [id |-> sent', state |-> state]
    <2>2. new \in Image /\ new.id = sent + 1
        BY <1>1, <2>1 DEF Image
    <2>3. queue' = Append(queue, new)
        BY <2>1
    <2> HIDE DEF new
    <2>4. queue' \in Seq(Image) /\ Len(queue') = Len(queue) + 1
        BY <2>2, <2>3
    <2>5. /\ \A i \in 1 .. Len(queue) : queue'[i] = queue[i]
          /\ queue'[Len(queue) + 1] = new
        BY <2>3
    <2>6. ASSUME NEW i \in 1 .. Len(queue')
          PROVE  texture.id < queue'[i].id /\ queue'[i].id <= sent + 1
        <3>1. CASE i \in 1 .. Len(queue)
            BY <1>2, <1>3, <2>5, <3>1
        <3>2. CASE i = Len(queue) + 1
            BY <1>3, <2>2, <2>5, <3>2
        <3> QED BY <1>3, <2>4, <3>1, <3>2
    <2>7. ASSUME NEW i \in 1 .. Len(queue'), NEW j \in 1 .. Len(queue'), i < j
          PROVE  queue'[i].id < queue'[j].id
        <3>1. i \in 1 .. Len(queue) /\ queue'[i] = queue[i]
            BY <1>3, <2>4, <2>5, <2>7
        <3>2. CASE j \in 1 .. Len(queue)
            BY <2>5, <2>7, <3>1, <3>2
        <3>3. CASE j = Len(queue) + 1
            BY <1>2, <2>2, <2>5, <3>1, <3>3
        <3> QED BY <1>3, <2>4, <3>2, <3>3
    <2> QED BY <1>1, <1>3, <2>4, <2>6, <2>7
<1> QED BY <1>4, <1>5 DEF Publish

LEMMA OrderedStep == Ordered /\ [FeedAny]_feedVars => Ordered' /\ shown'.id >= shown.id
<1> SUFFICES ASSUME Ordered, [FeedAny]_feedVars PROVE Ordered' /\ shown'.id >= shown.id
    OBVIOUS
<1> shown.id \in Nat
    BY DEF Ordered, Image
<1>1. CASE UNCHANGED <<sent, texture, shown>> /\ queue' \in {queue, <<>>}
    <2>1. CASE queue' = queue
        BY <1>1, <2>1 DEF Ordered
    <2>2. CASE queue' = <<>>
        <3>1. queue' \in Seq(Image) /\ Len(queue') = 0
            BY <2>2
        <3> QED BY <1>1, <3>1 DEF Ordered
    <2> QED BY <1>1, <2>1, <2>2
<1>2. CASE Publish
    BY <1>2, OrderedPublish
<1>3. CASE IdleFrame
    BY <1>3, OrderedFrame
<1>4. CASE FeedStart \/ TimesOut \/ FeedGone
    BY <1>1, <1>4 DEF FeedStart, TimesOut, FeedGone
<1>5. CASE Connect \/ Subscribe \/ OpenWindow
    BY <1>1, <1>5 DEF Connect, Subscribe, OpenWindow, Goes
<1>6. CASE Destroy
    BY <1>1, <1>6 DEF Destroy, CloseHandle
<1>7. CASE LinkDrops \/ LinkReturns
    BY <1>1, <1>7 DEF LinkDrops, LinkReturns
<1>8. CASE UNCHANGED feedVars
    BY <1>1, <1>8 DEF feedVars
<1> QED BY <1>2, <1>3, <1>4, <1>5, <1>6, <1>7, <1>8 DEF FeedAny, FeedStep, Server

\* CameraModule/src/Main.cpp, idle: images that are dropped, damaged or late never
\* bring the window back to an earlier one.
THEOREM ImagesInOrderAlways == SystemSpec => ImagesInOrder
<1>1. SystemInit => Ordered
    BY OrderedInit
<1>2. Ordered /\ [SystemNext]_systemVars => Ordered'
    BY OrderedStep, ImageSteps
<1>3. Ordered /\ [SystemNext]_systemVars => [shown'.id >= shown.id]_feedVars
    BY OrderedStep, ImageSteps
<1> QED BY <1>1, <1>2, <1>3, PTL DEF SystemSpec, ImagesInOrder

(***************************************************************************)
(* Commands.                                                               *)
(***************************************************************************)
\* Unless a store came between, what the display has read of a command in this frame
\* is still there, and what it read in the last one was commanded.
Coupled ==
    /\ Zero \in given /\ overlap \in BOOLEAN
    /\ words \in Commands /\ driven \in Commands /\ command \in Commands
    /\ reading \in {{}, {"steer"}, {"speed"}}
    /\ ~overlap /\ reading = {} => driven \in given
    /\ ~overlap /\ reading # {} =>
        words \in given /\ \A w \in reading : driven[w] = words[w]

LEMMA InputCommands == \A held : Input(held) \in Commands
  BY DEF Input, Commands

LEMMA CoupledStore ==
    ASSUME Coupled, NEW from, NEW to, NEW word \in {"steer", "speed"}, Store(from, to, word)
    PROVE  Coupled'
<1> USE DEF Coupled
<1>1. words' \in Commands
    BY DEF Store, Commands
<1>2. UNCHANGED <<given, driven, command, reading>>
    BY DEF Store
<1>3. overlap' = (overlap \/ (reading # {} /\ words' # words))
    BY DEF Store
<1>4. overlap' \in BOOLEAN
    BY <1>3
<1>5. ~overlap' /\ reading # {} => words' = words /\ ~overlap
    BY <1>3
<1>6. ~overlap' => ~overlap
    BY <1>3
<1> QED BY <1>1, <1>2, <1>4, <1>5, <1>6

LEMMA CoupledRead ==
    ASSUME Coupled, NEW w \in {"steer", "speed"}, ReadWord(w)
    PROVE  Coupled'
<1> USE DEF Coupled
<1>1. UNCHANGED <<given, words, command>>
    BY DEF ReadWord
<1>2. driven' = [driven EXCEPT ![w] = words[w]] /\ driven' \in Commands
    BY DEF ReadWord, Commands
<1>3. CASE reading = {}
    <2>1. reading' = {w} /\ overlap' = (words \notin given)
        BY <1>3 DEF ReadWord
    <2>2. driven'[w] = words[w]
        BY <1>2 DEF Commands
    <2>3. overlap' \in BOOLEAN
        BY <2>1
    <2> QED BY <1>1, <1>2, <2>1, <2>2, <2>3
<1>4. CASE reading # {}
    <2>1. reading' = {} /\ overlap' = overlap
        BY <1>4 DEF ReadWord
    <2>2. PICK u \in {"steer", "speed"} : reading = {u} /\ u # w
        BY <1>4 DEF ReadWord
    <2>3. ASSUME ~overlap PROVE driven' \in given
        <3>1. driven[u] = words[u] /\ words \in given
            BY <1>4, <2>2, <2>3
        <3>2. driven'.steer = words.steer /\ driven'.speed = words.speed
            BY <1>2, <2>2, <3>1 DEF Commands
        <3>3. driven' = words
            BY <1>2, <3>2 DEF Commands
        <3> QED BY <3>1, <3>3, <1>1
    <2> QED BY <1>1, <1>2, <2>1, <2>3
<1> QED BY <1>3, <1>4

LEMMA CoupledStep == Coupled /\ [TeleopAny]_teleopVars => Coupled'
<1> SUFFICES ASSUME Coupled, [TeleopAny]_teleopVars PROVE Coupled'
    OBVIOUS
<1>1. CASE UNCHANGED <<given, words, driven, command, overlap, reading>>
    BY <1>1 DEF Coupled
<1>2. CASE ChangeKey \/ Ask \/ TeleopStart \/ TeleopEnds \/ Connected \/ UNCHANGED teleopVars
    BY <1>1, <1>2 DEF ChangeKey, Ask, TeleopStart, TeleopEnds, Connected, displayReads,
                      teleopVars
<1>3. CASE Send \/ Beat
    BY <1>1, <1>3 DEF Send, ServerGets, Beat, displayReads
<1>4. CASE Poll
    <2>1. command' \in Commands
        BY <1>4, InputCommands DEF Poll
    <2>2. given' = given \cup {command'} /\ UNCHANGED <<words, reading, driven, overlap>>
        BY <1>4 DEF Poll, displayReads
    <2> QED BY <2>1, <2>2 DEF Coupled
<1>5. CASE StoreSteer \/ StoreSpeed
    BY <1>5, CoupledStore DEF StoreSteer, StoreSpeed
<1>6. CASE ReadCommand
    BY <1>6, CoupledRead DEF ReadCommand
<1>7. CASE DisplayEnds
    <2>1. driven' = Zero /\ Zero \in Commands
        BY <1>7 DEF DisplayEnds, Zero, Commands
    <2>2. reading' = {} /\ overlap' = FALSE /\ UNCHANGED <<given, words, command>>
        BY <1>7 DEF DisplayEnds
    <2> QED BY <2>1, <2>2 DEF Coupled
<1> QED BY <1>2, <1>3, <1>4, <1>5, <1>6, <1>7 DEF TeleopAny, TeleopStep

LEMMA CoupledInit == SystemInit => Coupled
<1> SUFFICES ASSUME SystemInit PROVE Coupled
    OBVIOUS
<1>1. /\ words = Zero /\ driven = Zero /\ command = Zero /\ given = {Zero}
      /\ reading = {} /\ overlap = FALSE
    BY DEF SystemInit, TeleopInit
<1>2. Zero \in Commands
    BY DEF Zero, Commands
<1> QED BY <1>1, <1>2 DEF Coupled

\* DisplayModule/src/Main.cpp, idle: the vehicle moves by a steering and a speed that
\* were never commanded together only if a store came between the two reads, or was
\* half done when the frame began.
THEOREM MixedByOverlapOnlyAlways == SystemSpec => []MixedByOverlapOnly
<1>1. SystemInit => Coupled
    BY CoupledInit
<1>2. Coupled /\ [SystemNext]_systemVars => Coupled'
    BY CoupledStep, CommandSteps
<1>3. Coupled => MixedByOverlapOnly
    BY DEF Coupled, MixedByOverlapOnly
<1> QED BY <1>1, <1>2, <1>3, PTL DEF SystemSpec

(***************************************************************************)
(* Types.                                                                  *)
(***************************************************************************)
LEMMA FeedTypesStep == FeedTypeOK /\ Ordered /\ [FeedAny]_feedVars => FeedTypeOK'
<1> SUFFICES ASSUME FeedTypeOK, Ordered, [FeedAny]_feedVars PROVE FeedTypeOK'
    OBVIOUS
<1> USE FeedAssumption DEF FeedTypeOK
<1>0. queue \in Seq(Image) /\ Len(queue) \in Nat
    BY DEF Ordered
<1>1. CASE /\ UNCHANGED <<sent, last, texture, shown>> /\ queue' \in {queue, <<>>}
           /\ link' \in BOOLEAN /\ stage' \in Stages /\ handles' \subseteq {"context", "socket"}
    BY <1>0, <1>1
<1>2. CASE FeedStart \/ TimesOut \/ FeedGone
    BY <1>1, <1>2 DEF FeedStart, TimesOut, FeedGone, Stages
<1>3. CASE Connect \/ Subscribe \/ OpenWindow
    BY <1>1, <1>3 DEF Connect, Subscribe, OpenWindow, Goes, Stages
<1>4. CASE Destroy
    BY <1>1, <1>4 DEF Destroy, CloseHandle, Stages
<1>5. CASE LinkDrops \/ LinkReturns
    BY <1>1, <1>5 DEF LinkDrops, LinkReturns
<1>6. CASE UNCHANGED feedVars
    BY <1>1, <1>6 DEF feedVars
<1>7. CASE Publish
    <2>1. sent' \in 0 .. MaxImages /\ UNCHANGED <<link, texture, shown, handles, stage>>
        BY <1>7 DEF Publish
    <2>2. last' \in 0 .. sent'
        BY <1>7 DEF Publish
    <2>3. Len(queue') <= QueueLimit
        <3>1. CASE queue' = queue
            BY <3>1
        <3>2. CASE /\ Len(queue) < QueueLimit
                   /\ \E state \in States : queue' = Append(queue, [id |-> sent', state |-> state])
            BY <1>0, <3>2
        <3> QED BY <1>7, <3>1, <3>2 DEF Publish
    <2> QED BY <2>1, <2>2, <2>3
<1>8. CASE IdleFrame
    <2>1. UNCHANGED <<link, sent, handles, last>> /\ shown' = texture'
        BY <1>8 DEF IdleFrame, Draw
    <2>2. stage' \in Stages
        BY <1>8 DEF IdleFrame, Draw, Stages
    <2>3. CASE queue = <<>>
        BY <1>8, <2>1, <2>2, <2>3 DEF IdleFrame, Draw
    <2>4. CASE queue # <<>>
        <3>1. queue' = Tail(queue) /\ texture' = queue[1] /\ 1 \in 1 .. Len(queue)
            BY <1>0, <1>8, <2>4 DEF IdleFrame, Draw
        <3>2. texture' \in Image /\ texture'.id <= sent
            BY <3>1, Numbered DEF Ordered
        <3>3. texture' \in [id : 0 .. MaxImages, state : States]
            BY <3>2 DEF Image
        <3>4. Len(queue') <= QueueLimit
            BY <1>0, <2>4, <3>1
        <3> QED BY <2>1, <2>2, <3>3, <3>4
    <2> QED BY <2>3, <2>4
<1> QED BY <1>2, <1>3, <1>4, <1>5, <1>6, <1>7, <1>8 DEF FeedAny, FeedStep, Server

LEMMA TeleopTypesStep == TeleopTypeOK /\ Coupled /\ [TeleopAny]_teleopVars => TeleopTypeOK'
<1> SUFFICES ASSUME TeleopTypeOK, Coupled, [TeleopAny]_teleopVars PROVE TeleopTypeOK'
    OBVIOUS
<1>0. Coupled' /\ overlap' \in BOOLEAN /\ {command', words', driven'} \subseteq Commands
      /\ reading' \subseteq {"steer", "speed"} /\ reading' # {"steer", "speed"}
    BY CoupledStep DEF Coupled
<1> USE KeysAssumption DEF TeleopTypeOK
<1>1. CASE ChangeKey
    BY <1>0, <1>1 DEF ChangeKey, displayReads, serverVars
<1>2. CASE Ask \/ TeleopStart \/ TeleopEnds \/ Connected \/ Beat
    BY <1>0, <1>2 DEF Ask, TeleopStart, TeleopEnds, Connected, Beat, keyVars, displayReads,
                      serverVars, TeleopSteps
<1>3. CASE Poll
    BY <1>0, <1>3 DEF Poll, serverVars, keyVars, displayReads, TeleopSteps
<1>4. CASE StoreSteer \/ StoreSpeed
    BY <1>0, <1>4 DEF StoreSteer, StoreSpeed, Store, keyVars, serverVars, TeleopSteps
<1>5. CASE Send
    BY <1>0, <1>5 DEF Send, ServerGets, Name, keyVars, displayReads, TeleopSteps
<1>6. CASE ReadCommand \/ DisplayEnds
    BY <1>0, <1>6 DEF ReadCommand, ReadWord, DisplayEnds, keyVars, serverVars
<1>7. CASE UNCHANGED teleopVars
    BY <1>0, <1>7 DEF teleopVars, keyVars, displayReads, serverVars
<1> QED BY <1>1, <1>2, <1>3, <1>4, <1>5, <1>6, <1>7 DEF TeleopAny, TeleopStep

SupTypes ==
    /\ running \in BOOLEAN /\ launched \subseteq Modules /\ up \subseteq launched
    /\ falls \in 0 .. MaxFalls

LEMMA SupTypesStep == SupTypes /\ [SystemNext]_systemVars => SupTypes'
<1> SUFFICES ASSUME SupTypes, [SystemNext]_systemVars PROVE SupTypes'
    OBVIOUS
<1> USE FallsAssumption DEF SupTypes
<1>1. ASSUME NEW m \in Modules, Launch(m) PROVE SupTypes'
    BY <1>1 DEF Launch, Sup!Launch
<1>2. ASSUME NEW m \in Modules, Ended(m), falls' \in 0 .. MaxFalls PROVE SupTypes'
    BY <1>2 DEF Ended, Sup!Down
<1>3. ASSUME NEW m \in Modules, Falls(m) \/ Follows(m) PROVE SupTypes'
    BY <1>2, <1>3 DEF Falls, Follows
<1>4. CASE CameraEnds
    BY <1>2, <1>4 DEF CameraEnds, Modules
<1>5. CASE KeyHit
    BY <1>5 DEF KeyHit, Sup!Stop
<1>6. CASE UNCHANGED <<supVars, falls>>
    BY <1>6 DEF supVars
<1>7. CASE CameraRuns \/ ServerPublishes \/ TeleopRuns \/ DisplayRuns \/ ManagerAsks \/ Driver
    BY <1>6, <1>7 DEF CameraRuns, ServerPublishes, TeleopRuns, DisplayRuns, ManagerAsks, Driver
<1>8. CASE UNCHANGED systemVars
    BY <1>6, <1>8 DEF systemVars
<1> QED BY <1>1, <1>3, <1>4, <1>5, <1>7, <1>8 DEF SystemNext

\* Every variable of the system keeps its type: the socket's queue within its limit, and
\* no module has a process that the manager has not launched.
THEOREM SystemTyping == SystemSpec => []TypeOK
<1>1. SystemInit => TypeOK /\ Ordered /\ Coupled
    <2> SUFFICES ASSUME SystemInit PROVE TypeOK
        BY OrderedInit, CoupledInit
    <2> USE FeedAssumption, KeysAssumption, FallsAssumption DEF SystemInit
    <2>1. FeedTypeOK
        BY DEF FeedInit, FeedTypeOK, Stages, Black, States
    <2>2. TeleopTypeOK
        <3>1. Zero \in Commands
            BY DEF Zero, Commands
        <3>2. /\ words = Zero /\ driven = Zero /\ command = Zero /\ given = {Zero}
              /\ reading = {} /\ overlap = FALSE
            BY DEF TeleopInit
        <3>3. /\ keys = {} /\ presses = 0 /\ step = "gone" /\ asked = FALSE /\ flag = FALSE
              /\ losses = 0 /\ told = "none" /\ obeyed = Zero
            BY DEF TeleopInit
        <3>4. {command, words, driven} \subseteq Commands /\ given \subseteq Commands
            BY <3>1, <3>2
        <3>5. reading \subseteq {"steer", "speed"} /\ "steer" \notin reading
            BY <3>2
        <3>6. keys \subseteq Keys /\ presses \in 0 .. MaxPresses /\ step \in TeleopSteps
            BY <3>3, KeysAssumption DEF TeleopSteps
        <3>7. /\ asked \in BOOLEAN /\ flag \in BOOLEAN /\ overlap \in BOOLEAN
              /\ told \in {"none", "one", "zero"} /\ obeyed \in Commands
            BY <3>1, <3>2, <3>3
        <3>8. losses \in 0 .. MaxLosses
            BY <3>3, KeysAssumption
        <3> QED BY <3>4, <3>5, <3>6, <3>7, <3>8 DEF TeleopTypeOK
    <2>3. SupTypes
        BY DEF SupTypes, Sup!Init, Modules
    <2> QED BY <2>1, <2>2, <2>3 DEF TypeOK, SupTypes
<1>2. TypeOK /\ Ordered /\ Coupled /\ [SystemNext]_systemVars => (TypeOK /\ Ordered /\ Coupled)'
    BY ImageSteps, CommandSteps, OrderedStep, CoupledStep, FeedTypesStep, TeleopTypesStep,
       SupTypesStep
       DEF TypeOK, SupTypes
<1> QED BY <1>1, <1>2, PTL DEF SystemSpec
==============================================================================
