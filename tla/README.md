# A verification of the UGV control system

The repository (`src/`) holds six Windows programs that teleoperate an unmanned
ground vehicle (UGV): a process manager and the five modules it starts, which
meet in shared memory. This directory models them in TLA+, checks the models
with TLC and proves the most important properties for every value of the
constants with TLAPS. Paths below are relative to `src/sln/`; every operator
has the lines it stands for in `PROJECT.json` ("map").

## 1. Inventory

### Components, their state and operations

| Component | Source | State | Operations |
|---|---|---|---|
| Process manager | `ProcessManagementModule/` | one heartbeat flag per module (shared), a timer and a process handle per module | start every module and create its mapping; every 200 ms, for each module: lower a raised heartbeat and arm the timer, or, when the timer has expired, end itself (laser, camera) or kill and restart the module |
| Laser module | `LaserModule/src/Main.cpp` | points and their number (shared), heartbeat, timer, socket | when asked for a heartbeat: request a scan, receive it, parse it into shared memory |
| GNSS module | `GNSSModule/src/Main.cpp` | the fix (shared), heartbeat, timer, socket and its buffer | when asked: receive, compare CRCs, store the fix |
| Vehicle control module | `VehicleControlModule/src/Main.cpp` | steering and speed words (shared), alternating flag, heartbeat, timer, socket | when asked: poll the keyboard, store and send the command |
| Camera module | `CameraModule/src/Main.cpp` | ZeroMQ subscription, heartbeat, timer | in every frame: decode and draw an image if there is one |
| Display module | `DisplayModule/` | simulated vehicle, viewpoint, GPS trace, keys, heartbeat, timer | in every frame: move the viewpoint by the keys, move the vehicle by the command, draw the scan, the trace and the gauges |
| Shared memory, timer, TCP client | `include/` | named mappings; (reference, expiry); socket and a 2046-byte buffer cleared once | create, open, map; `time`, `expired`; connect, send, receive |

Present and without effect: `JobManager.hpp` (every use is commented out),
`CircularQueue.hpp` (called by nothing), `Messages.cpp` (called by nothing), and the
camera's view modes, orbits and follow keys (bound to no key). All but the first and
the orbits are modelled.

### How they interact

All modules read and write one array of booleans, the heartbeats, with no lock.
The manager lowers a module's flag, the module raises it; the manager gives the
module up 4 s after lowering, the module gives the manager up 2 s (GNSS: 4 s)
after raising, or 4 s after its start. There is no other signal: when the
manager ends, for whatever reason, the modules find out from their timers.
The display reads what the laser, GNSS and vehicle control modules store, word
by word, while they store it. The UGV itself is at the other end of three TCP
connections and of the camera's ZeroMQ subscription.

### What is hard here

* The two timers of a handshake run at the same time and each side's turn takes
  time: a scan takes 500 ms and more, a GNSS turn 500 ms, the manager's 200 ms.
* A restart is `TerminateProcess`, which returns before the process has ended,
  followed by a start that keeps a process it finds alive.
* Processes are started before the mappings they open exist.
* `recv` blocks for ever, fails or returns part of a message; the code goes on
  with the old contents of the buffer.
* Shared memory is read while it is written, and after its writer was killed
  in the middle of a store.
* The numeric parts (vehicle filter, camera approach, pitch) depend on measured
  frame times and on thresholds.
* Angles become directions by different conventions in the vehicle, its drawing, the
  scan, the gauges and the pursuit, and signs change on the way from the keys.
* OpenGL is a state machine that lives from frame to frame and refuses calls silently.
* Images wait in a socket while frames are late, and one that is damaged ends the
  process through two static objects that must be destroyed in the right order.

`PROJECT.json` lists each hazard at its line with the properties that cover it,
or the reason why none does.

### What makes each component correct

* Manager: never two processes of a module; a failed non-critical module comes
  back; a failed critical one ends everything; healthy modules are left alone.
* A module: answers only when asked, gives up only a manager that is gone, and
  ends when it is gone.
* Laser and display: a drawing has no ghosts of older scans.
* GNSS and display: what is stored is one whole fix, the trace follows the vehicle.
* Vehicle control and display: no key, no movement; a key, full speed.
* Viewpoint: gets where it is going, does not swing, does not turn over; every drag and
  key turns and moves it as seen on the screen, at every heading and pitch.
* Camera module: images in order, garbage never mistaken for a picture, no image left over.
* A frame: every call counts, and leaves nothing behind for the next.

## 2. Modules

| Module | Models | EXTENDS |
|---|---|---|
| `Timer` | `tmr::Timer`, and the indeterminate timer of a moved `Process` | |
| `Heartbeat` | manager, processes of all modules, their faults, the clock | `Timer` |
| `Supervisor` | abstract: what the manager promises, with no heartbeat or timer | |
| `TimelyHeartbeat` | `Heartbeat` under bounds on what every turn takes | `Heartbeat` |
| `Deadlines` | how long each side of a handshake takes to deal with the failure of the other | `TimelyHeartbeat` |
| `HeartbeatProofs`, `TimelyProofs` | proofs | the above |
| `LaserScan`, `LaserProofs` | scan in shared memory, its parser and its drawing | |
| `GnssReceiver` | TCP buffer, CRC check and store | |
| `GpsTrace`, `GnssProofs` | the display's sampling of the fix, composed with its writer; proofs of both | `GnssReceiver` |
| `DriveAxis` | one axis from the keyboard to the gauge: vehicle control, shared word, simulated vehicle, HUD | |
| `AxisProofs` | proofs | `DriveAxis` |
| `Command` | the command that the keys make | |
| `Teleop` | both words of a command: poll, store, send, flag; the server that gets the messages, or not; the display that reads the words | `Command` |
| `CameraFeed` | images from the server through socket and decoder to the window | |
| `System` | `CameraFeed` and `Teleop` under the abstract manager, with crashes | both; INSTANCE `Supervisor` |
| `SystemProofs` | proofs | `System` |
| `Viewpoint` | camera position: keys, pursuit, approach, drags | |
| `Pitch` | camera pitch: the two guards of `mouseRotateCamera` and `rotateCameraAxis`, for drags that may pass the vertical | |
| `Space` | vectors and quaternions with integer components | |
| `Frustum` | planes and corners of the view volume, as the angle that the camera gives it makes them, and the test of a sphere | `Space` |
| `Turning` | the camera's turns by the mouse and moves by the keys, with the code's own products | `Frustum`; INSTANCE `Compass` |
| `Compass` | abstract: what a drag does, as a heading and a level | |
| `ViewModes` | the five view modes, the moves that depend on them, and the pursuit, which goes on in all of them | `Viewpoint`, `Space` |
| `Follow` | the direction the camera would follow something from, as its angles | |
| `Course` | position and heading of the simulated vehicle, and all that is turned to it | `Space`, `Command` |
| `FrameCalls` | the OpenGL calls of a frame and what OpenGL makes of them | |
| `Messages` | the texts about vehicles, obstacles and the goal, and what their readers make of losses | |
| `CircularQueue` | `cq::enqueue`, `dequeue`, `tokenise` | |
| `MCDisplay` | one run for the parts of the display that share no state | the modules of the display above, `Messages` and `CircularQueue` |
| `CameraProofs` | proofs about the camera | `Turning`, `Pitch`, `ViewModes` |
| `DisplayProofs` | proofs about the vehicle, the queue, the texts and the composition | `MCDisplay`, `CameraProofs` |
| other `MC*` | instances for TLC | |

A definition preceded by "A mutant of X" is a plausible wrong version of X; no
specification uses it. It is what the checks substitute to see that a property
can fail.

### Heartbeat

A process is a pair of its module and a slot, so that two processes of one
module can exist if the manager lets them. `pm` is the line the manager is at:
`create` and `map` in the start-up loop, `poll` at `_kbhit`, `scan`, `reset`,
`arm` and `late`, `start` in the for loop. Testing and lowering a heartbeat are
two steps, as are `kill()` and `start()`. `pc[p]` is where a process is; a TCP
module and a GLUT module use the same places in their own order: the first
tests its timer and leaves at once, the second only asks its main loop to return
(`leaving`) and still finishes the callback, with a heartbeat. `Crash`, `Stall`
and `Answer`, `BadFrame` and `Dies` are what the environment does: exits of every
kind, sockets that block, frames that cannot be decoded, the end of a terminated
process. `blind` are the processes that opened a mapping before it existed:
`OpenFileMapping` answers NULL, `SharedMemory.hpp:59` expects
`INVALID_HANDLE_VALUE`, and the process faults when it uses the view. The GNSS
module uses it only once a fix is valid, so with `ToleratesNull` a blind process may
fault where it would store or go on. The manager's own mapping
exists before any module starts.

Time is in ticks. A `Timer` is the time it has left; `Unset` is the value that
`Process`'s move constructor reads from itself, which may answer either way.
In `Heartbeat` the clock may tick at any time, so every step may be late.
In `TimelyHeartbeat` time waits for what is due, except for `faulty` processes. Its next-state
relation is a `Step` of the program or its environment, or a tick.

`Deadlines` adds two history variables to it, which no step reads: `silent` counts the ticks for
which a module that is gone or blocked has gone unnoticed (`Mute`, `Unnoticed`), `alone` those since the
manager stopped. Their bounds say in ticks what `Recovery`, `HungIsReplaced` and the shutdown only
say will happen: the manager deals with a module within `NoticeBound`, the longer of its settling
and its polling, then its timeout, then one more turn of its loop (`NoticedInTime`), and
once the manager has stopped a process that has not failed itself ends within `EndBound`
(`EndsInTime`).

### Data modules

`LaserScan` knows of a point only which scan it is of; `GnssReceiver` knows of a byte
only which part of the server's stream it is; both models keep each single store
as a step. `DriveAxis` computes with integers in thousandths; the 25 ms that a
frame sleeps is the least time of a frame, and a late frame is one of nearly
half a second. `Viewpoint` computes on one axis of movement, in quarters of a
metre. `Pitch` has ten parts to the radian; it compares sines as the code does, so that a
turn past the vertical counts by what it ends at (`Above`).

In `Messages` a field is whole, `short` (its last number has lost its end) or `cut` (a number
is missing). `sscanf` counts the numbers that it finds and does not ask for the bracket
behind the last, so the readers take a short field, with another number, and refuse a cut one. A
cylinder's attributes are asked for by `operator>>` until the text ends: without one it is read
all the same.

`Teleop` ends at the UGV's server, which is not part of the repository. It is taken to use the
alternating flag for what such a flag is for: a message with the flag of the last one it
got is not a new command. On a new connection it may take the first message as new or not.

### Geometry

Directions are integer vectors of a fixed length and turns are by angles with rational
sine and cosine, so that every product of the code is computed exactly and none of the
properties is about rounding: a quarter to the side, and up or down the angle whose sine
is 3/5. (`Follow`, whose keys turn by 0.01 radians, keeps angles instead.) A quaternion need not have length 1; `RotateKeepsLength` says by how much the result is too
long, and `Over` divides by it. `Turning` computes with `cross`, `normalise`, `operator*`
and `getConjugate` as the code does, refused turns included, and is compared with
`Compass`, which counts. `Frustum` gives its half angles by their tangents. `Camera.cpp:104` passes
60 and 60 times the aspect, degrees, and the constructor takes the tangents of half of them as radians
(`Frustum.hpp:18` says what it wants), which are negative: about tan 30 and, in a window of
4 to 3, tan 40, here -143/24 and -21/20, which have rational sines. `Course` has
headings in quarters. The properties of these modules say where things are on the screen
and relative to each other, never how they are computed.

### Composition

`System` starts, kills and restarts processes by the actions of `Supervisor`, which `Heartbeat`
is shown to implement; a process runs by the actions of `CameraFeed` or `Teleop` while
`Supervisor` has it up. Between the two, `Follows` and `TimesOut` are what
`ShutdownIfServersAnswer` of `Heartbeat` states: once the manager is gone, a module ends. `CameraEnds` links the other
way: only when the camera's process has really ended, socket and context destroyed, does
the manager find a critical module gone.

`MCDisplay` composes modules that share no variable; a behaviour picks one of them in its
initial state. It saves runs and adds nothing to what each module says.

## 3. Runs

| Run | Instance and bounds | Shows |
|---|---|---|
| `hb_display_camera` | both GLUT modules, display non-critical, camera critical; timeouts of 0 and 1 ticks, two slots | one process per module; no indeterminate timer is read; `Supervisor` is implemented, with its promise that a lost critical module stops the manager |
| `hb_gnss` | the GNSS module, which may be blind and goes on or faults; timeouts of 2 ticks | every heartbeat was asked for; a module that is gone or hangs is replaced; shutdown completes if the server answers |
| `hb_shutdown` | the same module, with the same bounds | **violation**: shutdown as the README promises it |
| `timely` | display and laser; a settling and a poll of the manager take up to 2 ticks, a turn of a module and a boot 1; the timeouts are the least that the assumptions allow | neither side gives up a healthy other side; each deals with the failure of the other in time; processes are blind only from start-up |
| `laser_scan` | 6 places, lead 2, telegrams of 0, 1, 3 and 4 points, 3 scans | no ghosts; at every instant the array is sectors of one scan each, the newest first |
| `laser_length` | the same | **violation**: the number stored is the length of the array |
| `gps_trace` | fixes of 4 parts, a buffer of 6, 3 fixes, 2 points | whole fixes only; coordinates never go back; torn points only by overlap |
| `gnss_zeros` | fixes of 3 parts, 2 fixes | **violation**: only valid data are stored |
| `drive_speed` | 1 m/s in thousandths, frames of 25, 40 and 450 ms | stops for good; reaches its limit, and the needle shows it there |
| `display` | nine parts, see below | see below |
| `system` | 3 images, a queue of 2, two keys, two changes of them, one lost message, one crash | images in order, backlogs shown to the end; commands mixed only by overlap, a runaway vehicle is stopped, the server comes to obey the keys; one bad image stops everything |
| `camera_recent` | the same feed | **violation**: the most recent image is shown |

The parts of `display`:

| Part | Bounds | Shows |
|---|---|---|
| viewpoint | the keys reach 3 m from the origin either way, and the vehicle drives there | arrives |
| pitch | ten parts to the radian, drags of up to three, and of twelve, which pass the vertical | within a radian of the horizon; comes back from a pursuit |
| turning | headings in quarters, three levels, one step of every key | drags add up as on a compass; keys move as seen; the planes are those of the faces that are drawn, and keep nothing |
| modes | 3 m either way; a pursuit along four headings | a look belongs to its mode unless a pursuit has turned the camera since |
| following | steps of 10 thousandths of a radian, two turns aside | never vertical, however often it goes over the top |
| course | 3 m of room, a frame that turns by a quarter | no sliding; wheels, gauge, nose, scan and pursuit agree |
| frame | two sizes of the window, stacks of 32 and 2 as OpenGL guarantees | every call counts; all is drawn in its place |
| messages | two shapes, each losing one thing; lists of two with items whole, short or cut | a loss stays with its shape; of the lists that are checked only cut items are left out |
| queue | 3 places, 6 items | order and capacity |

Why the bounds are enough. Two slots suffice for `OneProcess`: a third process
would need a second one first. Two modules suffice for the manager's loop: it
has a first, a next and a last one, and modules share nothing but the manager.
In `hb_display_camera` timeouts of 0 and 1 ticks let every timer expire at every
point of either loop; `timely` shows its two bounds to be exact, as TLC finds a violation
of either when it is one tick less; `hb_gnss` has longer ones because with those a healthy
handshake need not be cut short, which is the case its liveness is about. The laser's
lengths are shorter and longer than its lead, so that scans overlay each other
in all the ways `NewestFirst` tells apart. In the GPS runs the buffer is longer
than a fix and no multiple of it, so that receives leave the end of one fix
behind the start of another; three fixes are what a copy can meet at most
before, while and after it is made. The frame times of `drive_speed` are the
one that ends a first step exactly on the edge of the dead band (25 ms), an
ordinary one, and one whose gain (1.8) overshoots; `Drives` relies on `Sleep(25)` never
returning early. In `drive_speed` the values are limited as the code limits them. The code does
not limit where the keys take the camera: `Room` is a guard, a frame that would leave the room
is not looked at, and as the approach depends on distances alone, nothing new happens
outside. In `system` a queue of 2 and 3 images are a backlog, a drop and an image
after the drop; one crash is enough to kill a store half-way, and two changes of the keys
to leave a command that must still be withdrawn. One lost message puts the server out of step with
the flag, so that it takes one more for a repeat; with the restart, which begins the flag anew, that
can happen twice. A behaviour of `system` is about images or
about commands: the two share only the manager, which knows nothing of either. In the
display's geometry the set of directions is closed under the turns, so that nothing is cut
off; places are bounded by a step away from the origin, as everything is relative to the camera.
The follow direction goes round and round over the top, as only its turns aside are bounded; the
queue goes round its places twice.

Every property has a mutant of the mapped code that breaks it (`PROJECT.json`).

### Fairness

* `Heartbeat`: weak fairness of the manager, of every process, of the end of a
  terminated process and of the clock. The operating system schedules all of
  them and `Sleep` returns. Nothing is assumed of the servers: a stalled socket
  may stay so for ever, nor that anybody presses a key.
* `DriveAxis`: weak fairness of the module's turn and of the display's frame.
  Both are loops that the manager keeps asking for heartbeats. `odd` flips with
  every frame so that fairness counts a frame that changes nothing, and promises
  nothing of the times frames take.
* `Viewpoint`: weak fairness of `idle`, which GLUT calls when it has nothing else to do.
* `System`: weak fairness of what the manager promises (launches, and its end when the
  camera is gone), of the end of a module that has lost its manager (both are properties of
  `Heartbeat`), and of the steps of every process; that the manager asks the vehicle control
  module for heartbeats. Nothing is assumed of the link, the images or the keys, but messages are lost and
  processes crash only so often (`MaxLosses`, `MaxFalls`): `ServerObeys` and `RunawayEnds` are about what
  follows the last time. That the server obeys a message with a new flag is part of the model of the server.

Deadlock is checked in every run. `Done` in `Heartbeat` is the state in which the
manager and all modules have ended.

### Findings

The four violations, with their lines and quotations, are in `PROJECT.json`:

1. `hb_shutdown` (`include/TCPClient.hpp:74`): a module that receives, here the GNSS module, never
   learns that the manager is gone when it is blocked in `recv`; `ShutdownIfServersAnswer` and `EndsInTime`, which
   has a GLUT module too, show that this is the only thing in the way.
2. `laser_length` (`LaserModule/src/Main.cpp:97`): points are stored from index 6
   on and counted from 0, so the last six are never drawn.
3. `gnss_zeros` (`GNSSModule/src/Main.cpp:50`): the CRC of a cleared buffer is the
   zero it is compared with; after a restart zeros replace the last valid fix.
4. `camera_recent` (`CameraModule/src/Main.cpp:78`): a frame takes the oldest image that
   waits, not the most recent one. `CatchesUp` shows that the window settles on the last
   image when no more come.

Noted while modelling, with no run:

* Commands come from the keys of the module's own console window, never from the display's
  (`VehicleControlModule/src/Main.cpp:75`), while `README.md:60` of the repository ticks "Get key
  commands from display module and send as message for teleop".
* `updateLocation` compares positions only (`Camera.cpp:308`); a held `p` toggles the pursuit
  again and again (`DisplayModule/src/Main.cpp:246`); a key released with shift stays pressed for
  the display (252).
* Below minus a radian the excess of a drag is doubled instead of removed (`Camera.cpp:393`),
  which the second guard hides.
* `Camera.cpp:104` gives the frustum degrees for radians. The tangents come out negative, so that
  upper and lower, right and left change places in what is drawn, and the upper and the lower plane bound
  what lies behind the camera: `PlanesAsDrawn` says that planes and drawing agree, and that a test against
  the planes keeps nothing. The left plane adds where it should multiply (`Frustum.cpp:124`), so do the
  planes in `pointInFrustum` (273-276); which corners are on the left
  plane, `PlanesAsDrawn` does not say. Nothing asks the frustum yet.
* The pursuit goes on in every view mode and sets the direction (`DisplayModule/src/Main.cpp:132`):
  a camera that looks straight down from above is turned to the vehicle's heading.
* A list or a shape that is cut within its last number is read, with another number
  (`Messages.cpp:32`, 134, 188), and a cylinder that has lost `wheel=1` is read as one that does not roll.
* After a lost message the server may take the next one, with the flag it got last, for a
  repeat (`VehicleControlModule/src/Main.cpp:44`): one command more is passed over.
* `orbitInDirection` (`Camera.cpp:635`) does not do what `Camera.hpp` says of it: it scales the
  position instead of the distance from the centre and assigns to `destpos[Z]` for `destdir[Z]`.
* A lap of the view modes leaves the camera 1.5 m from where it was (`Camera.cpp:684`): two
  modes move it back and only one forward.
* An image is decoded as RGB and uploaded as BGR (`CameraModule/src/Main.cpp:91`, 106).
* The trace of fixes is drawn within the vehicle's matrix, and takes the vehicle's height for
  one of its coordinates (`MyVehicle.cpp:137`).
* Fields of triangular and trapezoidal prisms and of cylinders are written in another order than they
  are read in (`Messages.cpp:231-237`, 107-123); `LossCostsOneShape` says that all numbers are there, but in their places only for a rectangular prism.
* A circular queue of one item passes for an empty one (`CircularQueue.hpp:9`).

## 4. Proofs

| Theorem | Module | For all |
|---|---|---|
| `Typing`, `OneProcessAlways`, `BeatIsOwedAlways` | `HeartbeatProofs` | modules, orders, slots, durations |
| `ArmedBeforeReadAlways`, `BlindOnlyAtStartupAlways`, `SupervisesSafely` | `HeartbeatProofs` | the same |
| `NoFalseAlarmAlways`, `NoFalseExitAlways` | `TimelyProofs` | the same, with `AnswerAssumption` and `PatienceAssumption` |
| `NoticedInTimeAlways`, `EndsInTimeAlways`, `DeadlinesAreTimely` | `TimelyProofs` | the same |
| `NoGhostsAlways`, `NewestFirstAlways` | `LaserProofs` | lengths that the array has room for |
| `KeepsWholeFixesAlways` | `GnssProofs` | sizes of fix and buffer |
| `TraceInOrderAlways`, `TornByOverlapOnlyAlways` | `GnssProofs` | the same, numbers of fixes and of points |
| `NeverCreeps`, `SlowsDownAlways`, `SpeedsUpAlways` | `AxisProofs` | limits, dead bands, gains; the last two for frame times as below |
| `RotateKeepsLength`, `UprightTurnKeepsPitch`, `StrafesAreAcross` | `CameraProofs` | integer vectors and quaternions |
| `TurnTypeOKAlways`, `DragsAddUpAlways`, `KeysMoveAsSeenAlways` | `CameraProofs` | spans that 25 divides |
| `WithinRadianAlways`, `ComesBackAlways` | `CameraProofs` | limits, pursuit angles and drags |
| `ApproachGetsNearer`, `LooksByModeAlways` | `CameraProofs` | distances and rooms |
| `CourseTypeOKAlways`, `ShownAlongNoseAlways`, `DrivesAsShownAlways` | `DisplayProofs` | sizes of the field |
| `KeepsInOrderAlways` | `DisplayProofs` | numbers of places and of items |
| `LossCostsOneShapeAlways`, `CutItemsLeftOutAlways` | `DisplayProofs` | lengths of models and lists |
| `GlTypeOKAlways` | `DisplayProofs` | windows and stacks of any size |
| `DisplayTyping`, `DisplaySafety` | `DisplayProofs` | the type and nine properties of the parts, in the composition that TLC checks |
| `SystemTyping`, `GarbageIsLastAlways`, `ImagesInOrderAlways`, `MixedByOverlapOnlyAlways` | `SystemProofs` | images, queue sizes, keys, losses, crashes |

The assumptions are the `ASSUME`s of the modules; TLC evaluates them in every run.

* `OneProcess` is inductive with `TypeOK`: a start creates a process only when the
  current one is dead, and no process step revives any.
* `BeatIsOwed` needs `OneProcess`: were there two processes of a module, one could
  raise the flag while the other works.
* `ArmedBeforeRead` needs `TimersSet`: a lowered heartbeat has an armed timer, except
  between lowering and arming. It rests on the heartbeats starting raised.
* `BlindOnlyAtStartup` and `SupervisesSafely` need `Progress`: how far the start-up
  loop has come decides which modules are mapped and created, and a restart is of a
  non-critical module. `SupervisesSafely` is the step simulation of the refinement;
  its fairness stays with TLC (`Supervises`).
* `TimelyInv` is the one that took thought. `AnswersInTime` compares, for a lowered
  heartbeat, the longest time to the answer (`AnswerIn`, by the place of the process)
  with what is left of the manager's timer; `LowersInTime` compares, for a raised one,
  the longest time until the manager looks (`LowersIn`, by the place of the manager
  in its loop) with what is left of the process's timer. `NothingAsked` is needed for the
  long first Sleep, `HealthyRun` and `AllCreated` tie healthy processes to the
  manager's handles. TLC found every part to hold on the instance of `timely` before it was proved. The camera, whose
  timer runs while its window is made (`MaxInit`), is an instance of the theorem.
* `DeadlineInv` ranks the ways that are left. `NoticeIn`, by the place of the manager in its loop, is
  the longest time until it deals with a module that stays mute; `EndsIn`, by the place of a process, the
  longest until it ends without a manager. What has been waited and what is left stay together
  within the bound: `SilenceBounded` and `EndNears`. A rank is known only while its timer is, so
  the invariant carries that a lowered heartbeat has an armed timer (`TimersSet`), that the loop of a
  process has armed one (`LoopArmed`), that the manager resets only a raised heartbeat (`ResetsRaised`), and that
  nothing but a call on a socket blocks (`StalledWaits`), so that with `BeatIsOwed` a blocked process owes an answer. A module that answers
  just before it fails costs the manager's look at that answer, a timeout and one more turn: `LowersIn` of
  `TimelyInv` is used again for the first part. `DeadlinesAreTimely` forgets the history variables, so
  that all that is proved of `TimelySpec` holds here. TLC found `DeadlineInv` to hold on the instance of `timely`.
* `Scans` (`LaserProofs`): what is stored so far is a prefix of the scan being parsed
  (`Prefix`), over points at least as new as the last whole scan (`Counted`).
* `Fixes` (`GnssProofs`): while a fix is stored, the buffer it comes from still passes
  the check and the words so far are its front (`Storing`).
* `SystemProofs` first shows that a step of the system is one of the feed or leaves it alone
  (`ImageSteps`), and likewise for the commands (`CommandSteps`). `Ordered`: the images in the socket
  ascend and are newer than the texture. `Framed`: a damaged texture is only met after the loop.
  `Coupled`: while a frame has read one word and no store came between, both words are still
  those of one command.
* The trace (`Traced`) needs that time goes one way, for every word by itself: what is stored is
  not ahead of what was received (`StoredPast`), what a copy has taken is not ahead of what is
  stored (`CopiedPast`), nor is a point of what any later copy takes (`TracePast`). None of it says that
  words belong together; that is `WholeWhenStored`, outside a store that is under way or was cut off,
  and `CopyOfOne`, for a copy that met no store.
* `Stops` and `Drives` are liveness and stay with TLC; `AxisProofs` proves the variants they rest on. A
  frame that meets the command to stop leaves less of the speed, although a frame whose share of the way
  is above one (`dt * Gain` above 1000) overshoots: the rest is on the other side, and smaller, as long
  as the share is below two by more than rounding takes (`Slows`). With a key held no frame takes
  anything back, and the first leaves the dead band (`Starts`): at 1 m/s the 25 ms that a frame
  sleeps are exactly enough. All frame times of the run satisfy both.
* `RotateKeepsLength` and its companions expand the products into their components; the squared norm of a
  product is the product of the squared norms. It is what makes the exact integer turns of
  `Turning` stand for turns by unit quaternions.
* `Turning`: twelve directions, written out in multiples of a 25th of the span, are closed under the
  code's turns, one computation each for a turn up or down and for one to the side. That is the
  type, and with it each drag is the step of `Compass` that turns by as much: `DragsAddUp` is a step
  simulation under the mapping from a direction to its heading and level. `KeysMoveAsSeen` follows
  from the type alone: on the twelve directions the moves of the keys are computed and compared.
* `WithinRadian` is inductive with the types: a turn that is accepted ends within its limit, even if it
  went over the vertical (`RotatedWithin`), a refused one changes nothing, and a pursuit sets an
  angle within a radian.
* `ComesBack` needs `Left`: a camera that is too steep is at the angle of a pursuit, no other. Its
  theorem has a hypothesis, `LeadsBack`: some drag and its opposite are among the
  drags, and the drag leads from the pursuit's angle to where turns are accepted. The mouse offers drags of every
  size; in the run a drag of three does it. A single drag is not enough, as the sum may absorb it:
  the proof first drags the other way, which is taken off the sum and is refused, unless what the
  first guard adds to it takes it past the vertical: then it ends where turns are accepted, and what
  the second drag does is accepted or refused there (`LeftComesBack`).
* `LooksByMode`: the look belongs to the mode, or to a pursuit since, in every record of `Looks`, and
  every action leads from one into another. The approach between needs that `Root`, a square root rounded up, exists
  for every distance.
* `Root`, and what the loops of `Messages` collect, are proved by induction over the natural
  numbers, without the library's theorem for it, whose parameter is an operator. `SetInduction` is the same for a
  set: a set that holds 0 and with every number the next holds them all. It follows from a theorem on the
  cardinality of finite sets.
* The vehicle: `ShownAlongNose` and `DrivesAsShown` follow from the type of `Course`, by the four headings.
* The queue (`Ring`): from the tail on and round the end of the array, the items that were kept follow
  each other up to the head.
* The texts (`Told`): before it is read, every shape's text is one that its loss makes of what was
  written (`Without`), and `LossIs` says of each loss whether it is still understood. `CollectedIs` says
  where in the vector a loop has put the item of a turn: after as many as were good before it.
  `ShapeComes` is what writing, losing and reading make of one shape, kind by kind. For the lists it is
  enough that what was read is what `ReadList` makes of the text (`ListRead`).
* The follow direction, in `DisplayTyping`: its angle stays even and the vertical's is odd (`Aimed`), which
  stands for a quarter being no multiple of 0.01 radians. So the axis of the next turn always has a length.
* `GlTypeOK` needs what the matrices are made of (`GlTypes`): `Tail` of a longer stack is then a stack.
* `DisplayTyping` and `DisplaySafety`: a step of the run's `DisplaySpec` is a step of one part and leaves the others alone, so that
  a behaviour of it is one of each part's specification, and the theorems above hold of what the run checks.

## 5. Only model-checked

All liveness (`Recovery`, `HungIsReplaced`, `ShutdownIfServersAnswer`, `Stops`, `Drives`, `Arrives`,
`CatchesUp`, `RunawayEnds`, `ServerObeys`, `BadImageStopsAll`, the fairness part of `Supervises`): TLAPS does not
reason about `ENABLED` here. `NoticedInTime` and `EndsInTime` are the part of the first three that a safety
property can say, and proved; that time goes on is left to fairness.

Other properties that stay with TLC, which checks them exhaustively:

* `EveryCallCounts` and `DrawnInPlace` are about one fixed list of calls; its instance is all there is.
* `PlanesAsDrawn` is exact only where planes and corners have whole components, which depends on the
  tangents and distances together.

## 6. Not modelled

Shapes, colours and coordinates of what is drawn, and decoding beyond its failure; the camera's
orbits about a point, the stereo variant of `setLookAt` and `rotate2D`, which nothing calls;
shaking, which nothing starts; `pointInFrustum` and spherical coordinates; printing; the step of a
system clock that is set; a manager that is started again beside the modules of its predecessor; the
`JobManager`, whose uses are all commented out; closing of mappings, left to the operating system;
vendored headers, except for what the camera module uses of `zmq.hpp`. Undefined behaviour other than the
indeterminate timer and the unread numbers of `Messages` (a telegram that announces more points than the
array has) is excluded by a named assumption.

## 7. Plan

Written in this order: `Heartbeat` with `Supervisor`, `TimelyHeartbeat`, the proofs of
both, `LaserScan`, `GnssReceiver`, `GpsTrace`, `DriveAxis`, `Viewpoint`, `Pitch`; then `Space`,
`Frustum`, `Turning` with `Compass`, `Course`, `FrameCalls`, `Messages`, `CameraFeed`, `Teleop`,
`System` and its proofs, `CircularQueue`, `ViewModes`, `Follow`, `Deadlines`.
What is left, most important first:

1. A bound on how long a vehicle runs away (`RunawayEnds` has none): the manager's, which `NoticedInTime`
   gives, and the time of the restart that follows.
2. A manager that is started again: two generations of processes behind one array
   of heartbeats.
