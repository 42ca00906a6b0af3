-------------------------------- MODULE Course -------------------------------
(***************************************************************************)
(* Where the display's vehicle drives and how it is shown: idle and display *)
(* (DisplayModule/src/Main.cpp), Vehicle::update, Shape::positionInGL, the   *)
(* wheels of drawUGV, LIDAR::draw and the steering gauge.  Each of them      *)
(* turns an angle into a direction by a convention of its own, and some     *)
(* change its sign.                                                        *)
(*                                                                         *)
(* The ground is the plane of x and z, with y up and angles in degrees, all *)
(* of them multiples of 90 here: Dt is so long that full steering turns     *)
(* the vehicle by a quarter in a frame.  The filter that brings speed and    *)
(* steering to the command is in DriveAxis; here they get there or stay.    *)
(* Lengths are in tenths of a metre.                                       *)
(***************************************************************************)
EXTENDS Space, Command

CONSTANTS
    Dt,         \* a frame, in tenths of a second
    Field       \* bound on the vehicle's distance from the origin

ASSUME CourseAssumption ==
    /\ Dt \in Nat /\ Field \in Nat
    /\ (Dt * 40 * 15) \div 100 = 90

VARIABLES
    pose,   \* Shape: x, z and rotation
    drive,  \* Vehicle: speed and steering
    held    \* the keys that teleopInput finds pressed

courseVars == <<pose, drive, held>>

Zenith == V(0, 1, 0)
Angles == {0, 90, 180, 270, 360}
Cos(a) == CASE a % 360 = 0 -> 1 [] a % 360 = 180 -> -1 [] OTHER -> 0
Sin(a) == CASE a % 360 = 90 -> 1 [] a % 360 = 270 -> -1 [] OTHER -> 0

\* glRotated about the y axis, of a vector that is drawn.
RotateY(a, v) == V(v.x * Cos(a) + v.z * Sin(a), v.y, v.z * Cos(a) - v.x * Sin(a))

\* A Shape as its constructor leaves it.
AtOrigin == [x |-> 0, z |-> 0, rotation |-> 0]

CourseInit ==
    /\ pose = AtOrigin
    /\ drive = Zero
    /\ held = {}

\* The heading is kept from 0 to 360, both ends included.
Wrap(a) == IF a > 360 THEN ((a - 1) % 360) + 1 ELSE IF a < 0 THEN a % 360 ELSE a

\* Vehicle::update(dt): the position by the heading before the turn.
Integrate(p, d) ==
    [x |-> p.x + d.speed * Dt * Cos(p.rotation),
     z |-> p.z + d.speed * Dt * Sin(p.rotation),
     rotation |-> Wrap(p.rotation + (Dt * d.steer * d.speed * 15) \div 100)]

\* A mutant of Obeyed: the steering of the command is not negated.
ObeyedAsTold(command) == command

\* idle: what the command asks of the display's vehicle.
Obeyed(command) == [command EXCEPT !.steer = -command.steer]

\* A frame, with the command of the keys that are held.
Drive ==
    LET asked == Obeyed(Input(held))
    IN  /\ drive' \in [steer : {drive.steer, asked.steer}, speed : {drive.speed, asked.speed}]
        /\ pose' = Integrate(pose, drive')
        /\ {pose'.x, pose'.z} \subseteq (-Field) .. Field
        /\ held' = held

HoldKeys == held' \in SUBSET {"W", "S", "A", "D"} /\ UNCHANGED <<pose, drive>>

CourseNext == Drive \/ HoldKeys

CourseSpec == CourseInit /\ [][CourseNext]_courseVars

(***************************************************************************)
(* How the vehicle is shown.                                               *)
(***************************************************************************)
\* getX, getY and getZ: a vehicle stays on the ground.
Place(p) == V(p.x, 0, p.z)

\* positionInGL, for a direction of the vehicle that is drawn.
Placed(p, v) == RotateY(-p.rotation, v)

\* The front of drawUGV is towards x; a front wheel rolls along it, too, turned by
\* the steering.
Nose(p) == Placed(p, V(1, 0, 0))
WheelDir(p, d) ==
    LET quarter == IF d.steer > 0 THEN 90 ELSE IF d.steer < 0 THEN -90 ELSE 0
    IN  Placed(p, RotateY(-quarter, V(1, 0, 0)))

\* parsePointCloud and LIDAR::draw: what the laser sees at an angle is stored as a
\* pair of its cosine and sine, and drawn with the second first.
ScanPoint(a) == V(Sin(a), 0, Cos(a))

\* A mutant of ChaseDir: the two components are swapped.
ChaseDirSwapped(p) == V(Sin(p.rotation), -1, Cos(p.rotation))

\* display, in a pursuit: where the camera is to be and to look.
ChaseDir(p) == V(Cos(p.rotation), -1, Sin(p.rotation))
ChasePos(p) == Minus(Place(p), V(30 * Cos(p.rotation), -70, 30 * Sin(p.rotation)))

\* DrawGauge: on which side of its middle a needle is.
NeedleSide(value) == IF value > 0 THEN 1 ELSE IF value < 0 THEN -1 ELSE 0

(***************************************************************************)
(* Properties.                                                             *)
(***************************************************************************)
CourseTypeOK ==
    /\ pose \in [x : (-Field) .. Field, z : (-Field) .. Field, rotation : Angles]
    /\ drive \in Commands /\ held \subseteq {"W", "S", "A", "D"}

RightOf(v) == Cross(v, Zenith)

\* A pursuing camera has the vehicle straight ahead and looks the way the vehicle
\* is drawn to point, and what the laser sees to the right, ahead or to the left is
\* drawn there beside the vehicle (the laser counts from its right), at every heading.
ShownAlongNose ==
    LET ahead == Minus(Place(pose), ChasePos(pose))
    IN  /\ Dot(ChaseDir(pose), Nose(pose)) = 1
        /\ Dot(ahead, Nose(pose)) > 0
        /\ Dot(ahead, RightOf(ChaseDir(pose))) = 0
        /\ Placed(pose, ScanPoint(0)) = RightOf(Nose(pose))
        /\ Placed(pose, ScanPoint(90)) = Nose(pose)
        /\ Placed(pose, ScanPoint(180)) = Times(-1, RightOf(Nose(pose)))

\* The vehicle drives as it is shown.  It never slides sideways: what a frame adds to
\* its position lies along the body that the frame before has drawn.  "D" steers it to
\* the right and "A" to the left in all that is shown: the wheels, the needle of the
\* gauge, and the way the nose turns while driving forwards.
DrivesAsShown ==
    [][/\ pose' # pose =>
            Minus(Place(pose'), Place(pose)) = Times(drive'.speed * Dt, Nose(pose))
       /\ \A k \in {"A", "D"}, side \in {-1, 1} :
            /\ held' = held /\ held \ {"W", "S"} = {k}
            /\ side = (IF k = "D" THEN 1 ELSE -1)
            /\ drive'.steer \notin {0, drive.steer}
            => /\ NeedleSide(drive'.steer) = side
               /\ Dot(WheelDir(pose', drive'), RightOf(Nose(pose'))) = side
               /\ Dot(Nose(pose'), RightOf(Nose(pose))) = side * drive'.speed]_courseVars
==============================================================================
