------------------------------ MODULE DisplayProofs ------------------------------
(***************************************************************************)
(* What is proved of the vehicle that the display shows, for every size of  *)
(* its field, of the circular queue, for every length of its array, of the  *)
(* texts about vehicles, for every number of shapes, of the follow           *)
(* direction, for every even turn; and of all parts of the display together.*)
(***************************************************************************)
EXTENDS MCDisplay, CameraProofs, SequenceTheorems

(***************************************************************************)
(* The course.  Headings are in quarters, whose sines and cosines are exact.*)
(***************************************************************************)

LEMMA FrameLength == Dt = 15
BY CourseAssumption

\* The only angles there are.
LEMMA Trig ==
    ASSUME NEW a \in Angles
    PROVE  /\ Cos(a) = IF a \in {0, 360} THEN 1 ELSE IF a = 180 THEN -1 ELSE 0
           /\ Sin(a) = IF a = 90 THEN 1 ELSE IF a = 270 THEN -1 ELSE 0
           /\ Cos(-a) = Cos(a)
           /\ Sin(-a) = -Sin(a)
BY DEF Angles, Cos, Sin

LEMMA TrigType ==
    ASSUME NEW a \in Angles
    PROVE  /\ Cos(a) \in -1 .. 1 /\ Sin(a) \in -1 .. 1
           /\ Cos(a) * Cos(a) + Sin(a) * Sin(a) = 1
BY Trig DEF Angles

\* What is drawn at a heading, ahead of the vehicle and to its right.
LEMMA Drawn ==
    ASSUME NEW p, p.rotation \in Angles
    PROVE  /\ Nose(p) = V(Cos(p.rotation), 0, Sin(p.rotation))
           /\ RightOf(Nose(p)) = V(-Sin(p.rotation), 0, Cos(p.rotation))
           /\ Placed(p, V(0, 0, 1)) = RightOf(Nose(p))
           /\ Placed(p, V(0, 0, -1)) = Times(-1, RightOf(Nose(p)))
<1> DEFINE a == p.rotation
<1>1. /\ Cos(a) \in Int /\ Sin(a) \in Int
      /\ Cos(-a) = Cos(a) /\ Sin(-a) = -Sin(a)
    BY Trig, TrigType
<1>2. \A v : Placed(p, v) = V(v.x * Cos(a) + v.z * (-Sin(a)), v.y, v.z * Cos(a) - v.x * (-Sin(a)))
    BY <1>1 DEF Placed, RotateY
<1> HIDE DEF a
<1>3. Nose(p) = V(Cos(a), 0, Sin(a))
    BY <1>1, <1>2 DEF Nose, V
<1>4. RightOf(Nose(p)) = V(-Sin(a), 0, Cos(a))
    BY <1>1, <1>3 DEF RightOf, Cross, Zenith, V
<1>5. Placed(p, V(0, 0, 1)) = V(-Sin(a), 0, Cos(a))
    BY <1>1, <1>2 DEF V
<1>6. Placed(p, V(0, 0, -1)) = Times(-1, V(-Sin(a), 0, Cos(a)))
    BY <1>1, <1>2 DEF V, Times
<1> QED BY <1>3, <1>4, <1>5, <1>6 DEF a

LEMMA CourseTypeInit == CourseInit => CourseTypeOK
BY CourseAssumption DEF CourseInit, CourseTypeOK, AtOrigin, Zero, Commands, Angles

\* How far a frame turns the vehicle.
FrameTurn(d) == (Dt * d.steer * d.speed * 15) \div 100

LEMMA TurnOfFrame ==
    ASSUME NEW d \in Commands
    PROVE  /\ FrameTurn(d) \in {-90, 0, 90}
           /\ d.steer = 40 => FrameTurn(d) = 90 * d.speed
           /\ d.steer = -40 => FrameTurn(d) = -90 * d.speed
<1>1. d.steer \in {-40, 0, 40} /\ d.speed \in {-1, 0, 1} /\ Dt = 15
    BY FrameLength DEF Commands
<1>2. CASE d.steer = 0 \/ d.speed = 0
  <2>1. Dt * d.steer * d.speed * 15 = 0
    BY <1>1, <1>2
  <2>2. FrameTurn(d) = 0
    BY <2>1 DEF FrameTurn
  <2> QED BY <1>1, <1>2, <2>2
<1>3. CASE d.steer = d.speed * 40 /\ d.speed # 0
  <2>1. Dt * d.steer * d.speed * 15 = 9000
    BY <1>1, <1>3
  <2>2. FrameTurn(d) = 90
    BY <2>1 DEF FrameTurn
  <2> QED BY <1>1, <1>3, <2>2
<1>4. CASE d.steer = -(d.speed * 40) /\ d.speed # 0
  <2>1. Dt * d.steer * d.speed * 15 = -9000
    BY <1>1, <1>4
  <2>2. FrameTurn(d) = -90
    BY <2>1 DEF FrameTurn
  <2> QED BY <1>1, <1>4, <2>2
<1> QED BY <1>1, <1>2, <1>3, <1>4

\* A quarter turn, and that the heading stays one of the angles.
LEMMA Turned ==
    ASSUME NEW a \in Angles
    PROVE  /\ Wrap(a) = a
           /\ Wrap(a + 90) \in Angles /\ Wrap(a + (-90)) \in Angles
           /\ Cos(Wrap(a + 90)) = -Sin(a) /\ Sin(Wrap(a + 90)) = Cos(a)
           /\ Cos(Wrap(a + (-90))) = Sin(a) /\ Sin(Wrap(a + (-90))) = -Cos(a)
<1>1. /\ Wrap(a) = a
      /\ Wrap(a + 90) = IF a = 360 THEN 90 ELSE a + 90
      /\ Wrap(a + (-90)) = IF a = 0 THEN 270 ELSE a - 90
    BY DEF Wrap, Angles
<1>2. Wrap(a + 90) \in Angles /\ Wrap(a + (-90)) \in Angles
    BY <1>1 DEF Angles
<1> QED BY <1>1, <1>2, Trig DEF Angles

LEMMA DriveKeepsType ==
    ASSUME CourseTypeOK, Drive
    PROVE  /\ CourseTypeOK'
           /\ pose'.rotation = Wrap(pose.rotation + FrameTurn(drive'))
           /\ pose'.x = pose.x + drive'.speed * Dt * Cos(pose.rotation)
           /\ pose'.z = pose.z + drive'.speed * Dt * Sin(pose.rotation)
<1>1. drive' \in Commands
  <2>1. Obeyed(Input(held)) \in Commands
    BY DEF Obeyed, Input, Commands
  <2>2. drive \in Commands
    BY DEF CourseTypeOK
  <2> QED BY <2>1, <2>2 DEF Drive, Commands
<1>2. pose' = Integrate(pose, drive')
    BY DEF Drive
<1>3. /\ pose'.rotation = Wrap(pose.rotation + FrameTurn(drive'))
      /\ pose'.x = pose.x + drive'.speed * Dt * Cos(pose.rotation)
      /\ pose'.z = pose.z + drive'.speed * Dt * Sin(pose.rotation)
    BY <1>2 DEF Integrate, FrameTurn
<1>4. pose'.rotation \in Angles
  <2>1. pose.rotation \in Angles
    BY DEF CourseTypeOK
  <2>2. pose.rotation + 0 = pose.rotation
    BY <2>1 DEF Angles
  <2> QED BY <1>1, <1>3, <2>1, <2>2, Turned, TurnOfFrame
<1>5. pose' \in [x : (-Field) .. Field, z : (-Field) .. Field, rotation : Angles]
    BY <1>2, <1>4 DEF Drive, Integrate
<1>6. held' \subseteq {"W", "S", "A", "D"}
    BY DEF CourseTypeOK, Drive
<1> QED BY <1>1, <1>3, <1>5, <1>6 DEF CourseTypeOK

LEMMA CourseTypeNext == CourseTypeOK /\ [CourseNext]_courseVars => CourseTypeOK'
<1> SUFFICES ASSUME CourseTypeOK, [CourseNext]_courseVars PROVE CourseTypeOK'
    OBVIOUS
<1>1. CASE Drive
    BY <1>1, DriveKeepsType
<1>2. CASE HoldKeys
    BY <1>2 DEF HoldKeys, CourseTypeOK
<1>3. CASE UNCHANGED courseVars
    BY <1>3 DEF courseVars, CourseTypeOK
<1> QED BY <1>1, <1>2, <1>3 DEF CourseNext

\* Vehicle.cpp, update: whatever keys are held and however long, the heading is kept
\* from 0 to 360 and is one that Course knows the sine and cosine of.
THEOREM CourseTypeOKAlways == CourseSpec => []CourseTypeOK
BY CourseTypeInit, CourseTypeNext, PTL DEF CourseSpec

LEMMA ShownFromType == CourseTypeOK => ShownAlongNose
<1> SUFFICES ASSUME CourseTypeOK PROVE ShownAlongNose
    OBVIOUS
<1> DEFINE c == Cos(pose.rotation)  s == Sin(pose.rotation)
           ahead == Minus(Place(pose), ChasePos(pose))
<1>1. /\ pose.rotation \in Angles /\ pose.x \in Int /\ pose.z \in Int
      /\ pose.rotation \in Int
    BY CourseAssumption DEF CourseTypeOK, Angles
<1>2. c \in Int /\ s \in Int /\ c * c + s * s = 1
    BY <1>1, TrigType
<1>3. /\ Nose(pose) = V(c, 0, s) /\ RightOf(Nose(pose)) = V(-s, 0, c)
      /\ Placed(pose, V(0, 0, 1)) = RightOf(Nose(pose))
      /\ Placed(pose, V(0, 0, -1)) = Times(-1, RightOf(Nose(pose)))
    BY <1>1, Drawn
<1>4. ChaseDir(pose) = V(c, -1, s)
    BY DEF ChaseDir
<1> HIDE DEF c, s
<1>5. ahead = V(30 * c, -70, 30 * s)
  <2>1. ChasePos(pose) = V(pose.x - 30 * c, 70, pose.z - 30 * s)
    BY <1>1, <1>2 DEF ChasePos, Minus, Place, V, c, s
  <2> QED BY <1>1, <1>2, <2>1 DEF Minus, Place, V
<1>6. RightOf(ChaseDir(pose)) = V(-s, 0, c)
    BY <1>2, <1>4 DEF RightOf, Cross, Zenith, V
<1>7. Dot(ChaseDir(pose), Nose(pose)) = 1
    BY <1>2, <1>3, <1>4 DEF Dot, V
<1>8. Dot(ahead, Nose(pose)) > 0
  <2>1. Dot(ahead, Nose(pose)) = 30 * (c * c + s * s)
    BY <1>2, <1>3, <1>5 DEF Dot, V
  <2> QED BY <1>2, <2>1
<1>9. Dot(ahead, RightOf(ChaseDir(pose))) = 0
    BY <1>2, <1>5, <1>6 DEF Dot, V
<1>10. /\ ScanPoint(0) = V(0, 0, 1) /\ ScanPoint(180) = V(0, 0, -1)
       /\ ScanPoint(90) = V(1, 0, 0)
    BY Trig DEF ScanPoint, Angles
<1>11. Placed(pose, ScanPoint(90)) = Nose(pose)
    BY <1>10 DEF Nose
<1> QED BY <1>3, <1>7, <1>8, <1>9, <1>10, <1>11 DEF ShownAlongNose

\* MyVehicle.cpp, Laser.hpp and Camera.cpp, pursue: at every heading and every place
\* the scan is drawn ahead of the nose, its ends on the sides they were measured on,
\* and a pursuit looks where the nose points, with the vehicle in the middle.
THEOREM ShownAlongNoseAlways == CourseSpec => []ShownAlongNose
BY CourseTypeInit, CourseTypeNext, ShownFromType, PTL DEF CourseSpec

\* The body of DrivesAsShown.
StepAsShown ==
    /\ pose' # pose =>
            Minus(Place(pose'), Place(pose)) = Times(drive'.speed * Dt, Nose(pose))
    /\ \A k \in {"A", "D"}, side \in {-1, 1} :
            /\ held' = held /\ held \ {"W", "S"} = {k}
            /\ side = (IF k = "D" THEN 1 ELSE -1)
            /\ drive'.steer \notin {0, drive.steer}
            => /\ NeedleSide(drive'.steer) = side
               /\ Dot(WheelDir(pose', drive'), RightOf(Nose(pose'))) = side
               /\ Dot(Nose(pose'), RightOf(Nose(pose))) = side * drive'.speed

LEMMA WheelsTurned ==
    ASSUME NEW p, p.rotation \in Angles, NEW d \in Commands, d.steer # 0
    PROVE  Dot(WheelDir(p, d), RightOf(Nose(p))) = NeedleSide(d.steer)
<1> DEFINE c == Cos(p.rotation)  s == Sin(p.rotation)
<1>1. c \in Int /\ s \in Int /\ c * c + s * s = 1
    BY TrigType
<1>2. /\ RightOf(Nose(p)) = V(-s, 0, c)
      /\ Placed(p, V(0, 0, 1)) = V(-s, 0, c)
      /\ Placed(p, V(0, 0, -1)) = Times(-1, V(-s, 0, c))
    BY Drawn
<1> HIDE DEF c, s
<1>3. d.steer \in {-40, 40}
    BY DEF Commands
<1>4. Cos(90) = 0 /\ Sin(90) = 1 /\ Cos(-90) = 0 /\ Sin(-90) = -1
    BY Trig DEF Angles
<1>5. CASE d.steer = 40
  <2>1. RotateY(-90, V(1, 0, 0)) = V(0, 0, 1)
    BY <1>4 DEF RotateY, V
  <2>2. WheelDir(p, d) = V(-s, 0, c)
    BY <1>2, <1>5, <2>1 DEF WheelDir
  <2> QED BY <1>1, <1>2, <1>5, <2>2 DEF Dot, V, NeedleSide
<1>6. CASE d.steer = -40
  <2>1. RotateY(90, V(1, 0, 0)) = V(0, 0, -1)
    BY <1>4 DEF RotateY, V
  <2>2. WheelDir(p, d) = Times(-1, V(-s, 0, c))
    BY <1>2, <1>6, <2>1 DEF WheelDir
  <2> QED BY <1>1, <1>2, <1>6, <2>2 DEF Dot, V, Times, NeedleSide
<1> QED BY <1>3, <1>5, <1>6

LEMMA DriveAsShown == CourseTypeOK /\ Drive => StepAsShown
<1> SUFFICES ASSUME CourseTypeOK, Drive PROVE StepAsShown
    OBVIOUS
<1> DEFINE c == Cos(pose.rotation)  s == Sin(pose.rotation)
<1>1. /\ pose.rotation \in Angles /\ pose.x \in Int /\ pose.z \in Int
      /\ pose'.rotation \in Angles /\ drive' \in Commands
    BY DriveKeepsType, CourseAssumption DEF CourseTypeOK
<1>2. drive'.speed \in -1 .. 1 /\ drive'.steer \in {-40, 0, 40} /\ Dt = 15
    BY <1>1, FrameLength DEF Commands
<1>3. /\ pose'.x = pose.x + drive'.speed * Dt * c
      /\ pose'.z = pose.z + drive'.speed * Dt * s
      /\ pose'.rotation = Wrap(pose.rotation + FrameTurn(drive'))
    BY DriveKeepsType
<1>4. c \in -1 .. 1 /\ s \in -1 .. 1 /\ c * c + s * s = 1
    BY <1>1, TrigType
<1>5. Nose(pose) = V(c, 0, s) /\ RightOf(Nose(pose)) = V(-s, 0, c)
    BY <1>1, Drawn
<1>6. Nose(pose') = V(Cos(pose'.rotation), 0, Sin(pose'.rotation))
    BY <1>1, Drawn
<1>7. Minus(Place(pose'), Place(pose)) = Times(drive'.speed * Dt, Nose(pose))
  <2> HIDE DEF c, s
  <2>1. Minus(Place(pose'), Place(pose)) = V(drive'.speed * Dt * c, 0, drive'.speed * Dt * s)
    BY <1>1, <1>2, <1>3, <1>4 DEF Minus, Place, V
  <2>2. Times(drive'.speed * Dt, Nose(pose)) = V(drive'.speed * Dt * c, 0, drive'.speed * Dt * s)
    BY <1>2, <1>4, <1>5 DEF Times, V
  <2> QED BY <2>1, <2>2
<1>8. ASSUME NEW k \in {"A", "D"}, NEW side \in {-1, 1},
             held \ {"W", "S"} = {k}, side = (IF k = "D" THEN 1 ELSE -1),
             drive'.steer \notin {0, drive.steer}
      PROVE  /\ NeedleSide(drive'.steer) = side
             /\ Dot(WheelDir(pose', drive'), RightOf(Nose(pose'))) = side
             /\ Dot(Nose(pose'), RightOf(Nose(pose))) = side * drive'.speed
  <2>1. drive'.steer = side * 40
    <3>1. drive'.steer = -Input(held).steer
      BY <1>8 DEF Drive, Obeyed
    <3>2. Input(held).steer = IF k = "D" THEN -40 ELSE 40
      BY <1>8 DEF Input
    <3> QED BY <1>8, <3>1, <3>2
  <2>2. NeedleSide(drive'.steer) = side
    BY <1>8, <2>1 DEF NeedleSide
  <2>3. Dot(WheelDir(pose', drive'), RightOf(Nose(pose'))) = side
    BY <1>1, <1>8, <2>1, <2>2, WheelsTurned
  <2>4. FrameTurn(drive') = side * 90 * drive'.speed
    BY <1>1, <1>2, <1>8, <2>1, TurnOfFrame
  <2>5. /\ Cos(pose'.rotation) = c * (1 - drive'.speed * drive'.speed) - side * drive'.speed * s
        /\ Sin(pose'.rotation) = s * (1 - drive'.speed * drive'.speed) + side * drive'.speed * c
    <3>1. CASE drive'.speed = 0
      <4>1. pose.rotation + FrameTurn(drive') = pose.rotation
        BY <1>1, <1>8, <2>4, <3>1 DEF Angles
      <4> QED BY <1>1, <1>3, <1>4, <1>8, <3>1, <4>1, Turned
    <3>2. CASE side * drive'.speed = 1
      <4>1. FrameTurn(drive') = 90 /\ drive'.speed * drive'.speed = 1
        BY <1>2, <1>8, <2>4, <3>2
      <4> QED BY <1>1, <1>3, <1>4, <3>2, <4>1, Turned
    <3>3. CASE side * drive'.speed = -1
      <4>1. FrameTurn(drive') = -90 /\ drive'.speed * drive'.speed = 1
        BY <1>2, <1>8, <2>4, <3>3
      <4> QED BY <1>1, <1>3, <1>4, <3>3, <4>1, Turned
    <3> QED BY <1>2, <1>8, <3>1, <3>2, <3>3
  <2> HIDE DEF c, s
  <2>6. Dot(Nose(pose'), RightOf(Nose(pose))) = side * drive'.speed
    <3> DEFINE u == drive'.speed  k1 == 1 - u * u  k2 == side * u
    <3>1. Dot(Nose(pose'), RightOf(Nose(pose)))
          = (c * k1 - k2 * s) * (-s) + (s * k1 + k2 * c) * c
      BY <1>2, <1>4, <1>5, <1>6, <1>8, <2>5 DEF Dot, V
    <3>2. k1 \in Int /\ k2 \in Int
      BY <1>2, <1>8
    <3> HIDE DEF k1, k2
    <3>3. (c * k1 - k2 * s) * (-s) + (s * k1 + k2 * c) * c = k2 * (c * c + s * s)
      BY <1>4, <3>2
    <3> QED BY <1>4, <3>1, <3>2, <3>3 DEF k2
  <2> QED BY <2>2, <2>3, <2>6
<1> QED BY <1>7, <1>8 DEF StepAsShown

LEMMA OthersAsShown == CourseTypeOK /\ (HoldKeys \/ UNCHANGED courseVars) => StepAsShown
BY DEF HoldKeys, courseVars, StepAsShown

\* In every frame the vehicle moves along the nose that is drawn, and a key that is
\* newly obeyed turns wheels, gauge and nose to its own side, with all the signs that
\* change between Display's idle callback, Vehicle::update and the drawing.
THEOREM DrivesAsShownAlways == CourseSpec => DrivesAsShown
<1>1. CourseTypeOK /\ [CourseNext]_courseVars => [StepAsShown]_courseVars
    BY DriveAsShown, OthersAsShown DEF CourseNext
<1>2. CourseSpec => []CourseTypeOK
    BY CourseTypeOKAlways
<1>3. CourseSpec => [][StepAsShown]_courseVars
    BY <1>1, <1>2, PTL DEF CourseSpec
<1> QED BY <1>3 DEF DrivesAsShown, StepAsShown

(***************************************************************************)
(* The circular queue.  Its places are counted round the array from the     *)
(* tail, once at most.                                                      *)
(***************************************************************************)

\* A place that is counted round the array, once at most.
Round(a) == IF a < N THEN a ELSE a - N

LEMMA RoundIsRemainder == \A a \in 0 .. N + N - 1 : a % N = Round(a) /\ Round(a) \in 0 .. N - 1
<1> SUFFICES ASSUME NEW a \in 0 .. N + N - 1 PROVE a % N = Round(a) /\ Round(a) \in 0 .. N - 1
    OBVIOUS
<1>0. N \in Nat /\ N > 0
    BY QueueAssumption
<1>1. CASE a < N
    BY <1>0, <1>1 DEF Round
<1>2. CASE a >= N
  <2>1. a = N * 1 + (a - N) /\ a - N \in 0 .. N - 1
    BY <1>0, <1>2
  <2> QED BY <1>0, <1>2, <2>1, Z3 DEF Round
<1> QED BY <1>0, <1>1, <1>2

\* The array holds what is kept, from the tail on and round its end, up to the head.
Ring ==
    /\ t \in [0 .. N - 1 -> Nat] /\ offered \in Nat /\ kept \in Seq(Nat)
    /\ \/ head = -1 /\ tail = -1 /\ kept = <<>>
       \/ /\ head \in 0 .. N - 1 /\ tail \in 0 .. N - 1
          /\ Len(kept) \in 1 .. N
          /\ head = Round(tail + Len(kept) - 1)
          /\ \A j \in 1 .. Len(kept) : t[Round(tail + j - 1)] = kept[j]

LEMMA RingInit == QueueInit => Ring
BY QueueAssumption DEF QueueInit, Ring

\* Both tests, by the number of items, and the next place.
LEMMA Tests ==
    ASSUME Ring, head # -1
    PROVE  /\ IsEmpty <=> Len(kept) = 1
           /\ IsFull <=> Len(kept) = N
           /\ (head + 1) % N = Round(tail + Len(kept))
           /\ (tail + 1) % N = Round(tail + 1)
<1>1. /\ N \in Nat /\ N > 0 /\ Len(kept) \in 1 .. N /\ head \in 0 .. N - 1
      /\ tail \in 0 .. N - 1 /\ head = Round(tail + Len(kept) - 1)
    BY QueueAssumption DEF Ring
<1>2. (head + 1) % N = Round(head + 1) /\ (tail + 1) % N = Round(tail + 1)
  <2>1. head + 1 \in 0 .. N + N - 1 /\ tail + 1 \in 0 .. N + N - 1
    BY <1>1
  <2> QED BY <2>1, RoundIsRemainder
<1>3. Round(head + 1) = Round(tail + Len(kept))
    BY <1>1 DEF Round
<1>4. ASSUME NEW n \in 1 .. N
      PROVE  /\ Round(tail + n - 1) = tail <=> n = 1
             /\ Round(tail + n) = tail <=> n = N
    BY <1>1 DEF Round
<1>5. /\ IsEmpty <=> Len(kept) = 1
      /\ Round(tail + Len(kept)) = tail <=> Len(kept) = N
    BY <1>1, <1>4 DEF IsEmpty
<1> QED BY <1>2, <1>3, <1>5 DEF IsFull

LEMMA RingEnqueue == Ring /\ Enqueue => Ring'
<1> SUFFICES ASSUME Ring, Enqueue PROVE Ring'
    OBVIOUS
<1>0. /\ N \in Nat /\ N > 0
      /\ t \in [0 .. N - 1 -> Nat] /\ offered \in Nat /\ kept \in Seq(Nat)
      /\ offered' = offered + 1
    BY QueueAssumption DEF Ring, Enqueue
<1>1. CASE IsFull
    BY <1>0, <1>1 DEF Enqueue, Ring
<1>2. CASE ~IsFull /\ head = -1
  <2>1. tail' = 0 /\ head' = 0 /\ t' = [t EXCEPT ![0] = offered'] /\ kept = <<>>
    BY <1>0, <1>2 DEF Enqueue, Ring
  <2>2. kept' = Append(kept, offered')
    BY <1>2 DEF Enqueue
  <2>3. kept' \in Seq(Nat) /\ Len(kept') = 1 /\ kept'[1] = offered'
    BY <1>0, <2>1, <2>2
  <2>4. t' \in [0 .. N - 1 -> Nat] /\ t'[0] = offered'
    BY <1>0, <2>1
  <2>5. \A j \in 1 .. Len(kept') : t'[Round(tail' + j - 1)] = kept'[j]
    BY <1>0, <2>1, <2>3, <2>4 DEF Round
  <2>6. head' = Round(tail' + Len(kept') - 1)
    BY <1>0, <2>1, <2>3 DEF Round
  <2> QED BY <1>0, <2>1, <2>3, <2>4, <2>5, <2>6 DEF Ring
<1>3. CASE ~IsFull /\ head # -1
  <2> DEFINE n == Len(kept)
  <2>1. /\ tail' = tail /\ tail \in 0 .. N - 1 /\ n \in 1 .. N /\ n # N
        /\ head' = Round(tail + n)
        /\ t' = [t EXCEPT ![head'] = offered'] /\ kept' = Append(kept, offered')
    BY <1>3, Tests DEF Enqueue, Ring
  <2>2. kept' \in Seq(Nat) /\ Len(kept') = n + 1 /\ kept'[n + 1] = offered'
        /\ \A j \in 1 .. n : kept'[j] = kept[j]
    BY <1>0, <2>1
  <2>3. \A j \in 1 .. n : t[Round(tail + j - 1)] = kept[j]
    BY <1>3 DEF Ring
  <2> HIDE DEF n
  <2>4. head' \in 0 .. N - 1
    BY <1>0, <2>1 DEF Round
  <2>5. t' \in [0 .. N - 1 -> Nat] /\ t'[head'] = offered'
    BY <1>0, <2>1, <2>4
  <2>6. ASSUME NEW j \in 1 .. n PROVE t'[Round(tail + j - 1)] = kept'[j]
    <3>1. Round(tail + j - 1) \in 0 .. N - 1 /\ Round(tail + j - 1) # head'
      BY <1>0, <2>1 DEF Round
    <3>2. t'[Round(tail + j - 1)] = t[Round(tail + j - 1)]
      BY <1>0, <2>1, <3>1
    <3> QED BY <2>2, <2>3, <3>2
  <2>7. ASSUME NEW j \in 1 .. n + 1 PROVE t'[Round(tail' + j - 1)] = kept'[j]
    <3>1. CASE j \in 1 .. n
      BY <2>1, <2>6, <3>1, Zenon
    <3>2. CASE j = n + 1
      <4>1. tail' + j - 1 = tail + n
        BY <2>1, <3>2
      <4> QED BY <2>1, <2>2, <2>5, <3>2, <4>1
    <3>3. j \in 1 .. n \/ j = n + 1
      BY <2>1
    <3> QED BY <3>1, <3>2, <3>3
  <2>8. head' = Round(tail' + (n + 1) - 1)
    BY <2>1 DEF Round
  <2>9. n + 1 \in 1 .. N
    BY <1>0, <2>1
  <2> QED BY <1>0, <2>1, <2>2, <2>4, <2>5, <2>7, <2>8, <2>9 DEF Ring
<1> QED BY <1>1, <1>2, <1>3

LEMMA RingDequeue == Ring /\ Dequeue => Ring'
<1> SUFFICES ASSUME Ring, Dequeue PROVE Ring'
    OBVIOUS
<1>1. CASE IsEmpty
    BY <1>1 DEF Dequeue, Ring
<1>2. CASE ~IsEmpty
  <2> DEFINE n == Len(kept)
  <2>1. /\ N \in Nat /\ N > 0 /\ head # -1
        /\ t \in [0 .. N - 1 -> Nat] /\ offered \in Nat /\ kept \in Seq(Nat)
        /\ head \in 0 .. N - 1 /\ tail \in 0 .. N - 1 /\ n \in 1 .. N
        /\ head = Round(tail + n - 1) /\ \A j \in 1 .. n : t[Round(tail + j - 1)] = kept[j]
    BY <1>2, QueueAssumption DEF Ring, IsEmpty
  <2>2. n # 1
    BY <1>2, <2>1, Tests
  <2>3. /\ tail' = Round(tail + 1) /\ kept' = Tail(kept)
        /\ t' = t /\ head' = head /\ offered' = offered
    BY <1>2, <2>1, Tests DEF Dequeue
  <2>4. /\ kept' \in Seq(Nat) /\ Len(kept') = n - 1
        /\ \A j \in 1 .. n - 1 : kept'[j] = kept[j + 1]
    BY <2>1, <2>2, <2>3
  <2> HIDE DEF n
  <2>5. tail' \in 0 .. N - 1 /\ n - 1 \in 1 .. N
    BY <2>1, <2>2, <2>3 DEF Round
  <2>6. ASSUME NEW j \in 1 .. n - 1 PROVE Round(tail' + j - 1) = Round(tail + (j + 1) - 1)
    BY <2>1, <2>3 DEF Round
  <2>7. head' = Round(tail' + (n - 1) - 1)
    BY <2>1, <2>2, <2>3 DEF Round
  <2>8. ASSUME NEW j \in 1 .. n - 1 PROVE t'[Round(tail' + j - 1)] = kept'[j]
    <3>1. j + 1 \in 1 .. n
      BY <2>1
    <3>2. t[Round(tail + (j + 1) - 1)] = kept[j + 1]
      BY <2>1, <3>1
    <3> QED BY <2>3, <2>4, <2>6, <3>2
  <2> QED BY <2>1, <2>3, <2>4, <2>5, <2>7, <2>8 DEF Ring
<1> QED BY <1>1, <1>2

LEMMA RingKeeps == Ring => KeepsInOrder
<1> SUFFICES ASSUME Ring PROVE KeepsInOrder
    OBVIOUS
<1>0. N \in Nat /\ N > 0 /\ kept \in Seq(Nat)
    BY QueueAssumption DEF Ring
<1>1. CASE head = -1
  <2>1. kept = <<>> /\ tail = -1
    BY <1>1 DEF Ring
  <2>2. SubSeq(Tokens, 1, 0) = <<>>
    BY SubSeqEmpty
  <2>3. ~IsFull
    <3>1. 0 \in 0 .. N + N - 1
      BY <1>0
    <3>2. 0 % N = Round(0)
      BY <3>1, RoundIsRemainder
    <3> QED BY <1>0, <1>1, <2>1, <3>2 DEF IsFull, Round
  <2> QED BY <1>0, <1>1, <2>1, <2>2, <2>3 DEF KeepsInOrder
<1>2. CASE head # -1
  <2> DEFINE n == Len(kept)
  <2>1. /\ n \in 1 .. N /\ head = Round(tail + n - 1) /\ tail \in 0 .. N - 1
        /\ \A j \in 1 .. n : t[Round(tail + j - 1)] = kept[j]
    BY <1>2 DEF Ring
  <2>2. IsFull <=> n = N
    BY <1>2, Tests
  <2> HIDE DEF n
  <2>3. ASSUME NEW j \in 1 .. n PROVE Tokens[j] = kept[j] /\ kept[j] \in Nat
    <3>1. tail + j - 1 \in 0 .. N + N - 1 /\ j \in 1 .. N
      BY <1>0, <2>1
    <3>2. Tokens[j] = t[(tail + j - 1) % N]
      BY <3>1 DEF Tokens
    <3>3. (tail + j - 1) % N = Round(tail + j - 1)
      BY <3>1, RoundIsRemainder
    <3>4. kept[j] \in Nat
      BY <1>0 DEF n
    <3> QED BY <2>1, <3>2, <3>3, <3>4
  <2>4. SubSeq(Tokens, 1, n) = kept
    <3>1. 1 \in Int /\ n \in Int /\ \A j \in 1 .. n : Tokens[j] \in Nat
      BY <2>1, <2>3
    <3>2. /\ SubSeq(Tokens, 1, n) \in Seq(Nat) /\ Len(SubSeq(Tokens, 1, n)) = n
          /\ \A i \in 1 .. n : SubSeq(Tokens, 1, n)[i] = Tokens[1 + i - 1]
      BY <2>1, <3>1, SubSeqProperties
    <3>3. \A i \in 1 .. n : SubSeq(Tokens, 1, n)[i] = kept[i]
      BY <2>1, <2>3, <3>2
    <3> QED BY <1>0, <3>2, <3>3, SeqEqual DEF n
  <2>5. kept # <<>> /\ t[head] = kept[n]
    <3>1. n \in 1 .. n
      BY <1>0, <2>1
    <3> QED BY <1>0, <2>1, <3>1 DEF n
  <2>6. n <= N
    BY <2>1
  <2> QED BY <1>2, <2>2, <2>4, <2>5, <2>6, Zenon DEF KeepsInOrder, n
<1> QED BY <1>1, <1>2

\* CircularQueue.hpp, for every length of the array: however often it has gone round,
\* no item that was taken in is overwritten or comes out of order, N of them fit, and
\* the one that was taken in last is kept.
THEOREM KeepsInOrderAlways == QueueSpec => []KeepsInOrder
<1>1. Ring /\ [QueueNext]_queueVars => Ring'
  <2>1. Ring /\ UNCHANGED queueVars => Ring'
    BY DEF Ring, queueVars
  <2> QED BY <2>1, RingEnqueue, RingDequeue DEF QueueNext
<1> QED BY <1>1, RingInit, RingKeeps, PTL DEF QueueSpec

(***************************************************************************)
(* The texts.  What the loops of GetVehicleModels and GetObstacles collect   *)
(* is found by induction over their turns.                                  *)
(***************************************************************************)

\* What a loop has collected after each of its n turns exists: the empty list, and
\* what comes of it when e[i] is added in every turn i of K.
Collects(f, n, K, e) ==
    /\ DOMAIN f = 0 .. n /\ f[0] = <<>>
    /\ \A i \in 1 .. n : f[i] = IF i \in K THEN Append(f[i - 1], e[i]) ELSE f[i - 1]

HasCollection(n, K, e) ==
    \E f : f = [i \in 0 .. n |->
                IF i = 0 THEN <<>> ELSE IF i \in K THEN Append(f[i - 1], e[i]) ELSE f[i - 1]]

LEMMA CollectionExists == ASSUME NEW n \in Nat, NEW K, NEW e PROVE HasCollection(n, K, e)
<1> DEFINE S == {k \in Nat : \E f : f = [i \in 0 .. k |->
                IF i = 0 THEN <<>> ELSE IF i \in K THEN Append(f[i - 1], e[i]) ELSE f[i - 1]]}
<1>1. 0 \in S
  <2> DEFINE f == [i \in 0 .. 0 |-> <<>>]
  <2>1. f = [i \in 0 .. 0 |->
                IF i = 0 THEN <<>> ELSE IF i \in K THEN Append(f[i - 1], e[i]) ELSE f[i - 1]]
      OBVIOUS
  <2> HIDE DEF f
  <2> QED BY <2>1
<1>2. ASSUME NEW k \in Nat, k \in S PROVE k + 1 \in S
  <2>1. PICK f : f = [i \in 0 .. k |->
                IF i = 0 THEN <<>> ELSE IF i \in K THEN Append(f[i - 1], e[i]) ELSE f[i - 1]]
      BY <1>2
  <2>6. \A i \in 0 .. k : f[i] =
                IF i = 0 THEN <<>> ELSE IF i \in K THEN Append(f[i - 1], e[i]) ELSE f[i - 1]
      BY <2>1, Zenon
  <2> DEFINE g == [i \in 0 .. k + 1 |->
                IF i = k + 1 THEN (IF i \in K THEN Append(f[k], e[i]) ELSE f[k]) ELSE f[i]]
  <2>2. \A i \in 0 .. k : g[i] = f[i]
      OBVIOUS
  <2>3. \A i \in 0 .. k + 1 : g[i] =
                IF i = 0 THEN <<>> ELSE IF i \in K THEN Append(g[i - 1], e[i]) ELSE g[i - 1]
    <3> TAKE i \in 0 .. k + 1
    <3>1. CASE i = k + 1
        <4>1. g[i] = IF i \in K THEN Append(f[k], e[i]) ELSE f[k]
            BY <3>1
        <4>2. g[i - 1] = f[k] /\ i # 0
            BY <3>1, <2>2
        <4> HIDE DEF g
        <4> QED BY <4>1, <4>2
    <3>2. CASE i = 0
        BY <2>1, <2>2, <3>2
    <3>3. CASE i \in 1 .. k
        <4>1. f[i] = IF i \in K THEN Append(f[i - 1], e[i]) ELSE f[i - 1]
            BY <2>6, <3>3
        <4>2. g[i] = f[i] /\ g[i - 1] = f[i - 1] /\ i # 0
            BY <2>2, <3>3
        <4> HIDE DEF g
        <4> QED BY <4>1, <4>2
    <3> QED BY <3>1, <3>2, <3>3
  <2>4. g = [i \in 0 .. k + 1 |-> g[i]]
      OBVIOUS
  <2> HIDE DEF g
  <2>5. g = [i \in 0 .. k + 1 |->
                IF i = 0 THEN <<>> ELSE IF i \in K THEN Append(g[i - 1], e[i]) ELSE g[i - 1]]
      BY <2>3, <2>4
  <2> QED BY <2>5
<1>3. Nat \subseteq S
  <2> HIDE DEF S
  <2> QED BY <1>1, <1>2, SetInduction
<1> QED BY <1>3 DEF HasCollection

\* How many turns up to i add something.
Added(K, i) == Cardinality((1 .. i) \cap K)

LEMMA AddedSteps ==
    ASSUME NEW K
    PROVE  /\ Added(K, 0) = 0
           /\ \A i \in Nat : /\ Added(K, i) \in Nat
                             /\ Added(K, i + 1) = IF i + 1 \in K THEN Added(K, i) + 1 ELSE Added(K, i)
<1>1. Added(K, 0) = 0
  <2>1. (1 .. 0) \cap K = {}
      OBVIOUS
  <2> QED BY <2>1, FS_EmptySet DEF Added
<1>2. ASSUME NEW i \in Nat
      PROVE  /\ Added(K, i) \in Nat
             /\ Added(K, i + 1) = IF i + 1 \in K THEN Added(K, i) + 1 ELSE Added(K, i)
  <2> DEFINE T == (1 .. i) \cap K
  <2>1. IsFiniteSet(T) /\ Cardinality(T) \in Nat
    <3>1. IsFiniteSet(1 .. i)
        BY FS_Interval
    <3>2. IsFiniteSet(T)
        BY <3>1, FS_Subset
    <3> HIDE DEF T
    <3> QED BY <3>2, FS_CardinalityType
  <2>2. CASE i + 1 \in K
    <3>1. (1 .. i + 1) \cap K = T \cup {i + 1} /\ i + 1 \notin T
        BY <2>2
    <3> HIDE DEF T
    <3>2. Cardinality(T \cup {i + 1}) = Cardinality(T) + 1
        BY <2>1, <3>1, FS_AddElement
    <3> QED BY <2>1, <2>2, <3>1, <3>2 DEF Added, T
  <2>3. CASE i + 1 \notin K
    <3>1. (1 .. i + 1) \cap K = T
        BY <2>3
    <3> QED BY <2>1, <2>3, <3>1 DEF Added
  <2> QED BY <2>2, <2>3
<1> QED BY <1>1, <1>2

\* All that is added is of R; and a list of n turns, as long as there were items to
\* add, with each of them at its place.
AreItems(n, K, e, R) == \A i \in (1 .. n) \cap K : e[i] \in R
HasItems(list, n, K, e, R) ==
    /\ list \in Seq(R) /\ Len(list) = Added(K, n)
    /\ \A j \in (1 .. n) \cap K : Added(K, j) \in 1 .. Added(K, n) /\ list[Added(K, j)] = e[j]

LEMMA CollectionHolds ==
    ASSUME NEW n \in Nat, NEW K, NEW R, NEW e, AreItems(n, K, e, R),
           NEW f, Collects(f, n, K, e)
    PROVE  \A k \in 0 .. n : HasItems(f[k], k, K, e, R)
<1> DEFINE S == {k \in Nat : k <= n => HasItems(f[k], k, K, e, R)}
<1>1. 0 \in S
  <2>1. f[0] = <<>> /\ Added(K, 0) = 0
      BY AddedSteps DEF Collects
  <2>2. f[0] \in Seq(R) /\ Len(f[0]) = Added(K, 0)
      BY <2>1
  <2>3. \A j \in (1 .. 0) \cap K : Added(K, j) \in 1 .. Added(K, 0) /\ f[0][Added(K, j)] = e[j]
      OBVIOUS
  <2>4. HasItems(f[0], 0, K, e, R)
      BY <2>2, <2>3 DEF HasItems
  <2> QED BY <2>4
<1>2. ASSUME NEW k \in Nat, k \in S, k + 1 <= n PROVE HasItems(f[k + 1], k + 1, K, e, R)
  <2>1. /\ f[k] \in Seq(R) /\ Len(f[k]) = Added(K, k)
        /\ \A j \in (1 .. k) \cap K : Added(K, j) \in 1 .. Added(K, k) /\ f[k][Added(K, j)] = e[j]
      BY <1>2 DEF HasItems
  <2>2. f[k + 1] = IF k + 1 \in K THEN Append(f[k], e[k + 1]) ELSE f[k]
    <3>1. k + 1 \in 1 .. n /\ (k + 1) - 1 = k
        BY <1>2
    <3> QED BY <3>1 DEF Collects
  <2>3. /\ Added(K, k) \in Nat
        /\ Added(K, k + 1) = IF k + 1 \in K THEN Added(K, k) + 1 ELSE Added(K, k)
      BY AddedSteps
  <2>4. CASE k + 1 \in K
    <3>1. e[k + 1] \in R
        BY <1>2, <2>4 DEF AreItems
    <3> DEFINE s == f[k]  later == f[k + 1]  c == Added(K, k)
    <3>2. /\ later \in Seq(R) /\ Len(later) = c + 1 /\ later[c + 1] = e[k + 1]
          /\ \A i \in 1 .. c : later[i] = s[i]
        BY <2>1, <2>2, <2>4, <3>1
    <3>3. Added(K, k + 1) = c + 1
        BY <2>3, <2>4
    <3>4. ASSUME NEW j \in (1 .. k + 1) \cap K
          PROVE  Added(K, j) \in 1 .. c + 1 /\ later[Added(K, j)] = e[j]
      <4>1. CASE j = k + 1
          BY <2>3, <3>2, <3>3, <4>1
      <4>2. CASE j # k + 1
        <5>1. j \in (1 .. k) \cap K
            BY <4>2
        <5>2. Added(K, j) \in 1 .. c /\ s[Added(K, j)] = e[j]
            BY <2>1, <5>1
        <5>3. later[Added(K, j)] = s[Added(K, j)]
            BY <3>2, <5>2
        <5> HIDE DEF s, later, c
        <5> QED BY <2>3, <5>2, <5>3 DEF c
      <4> QED BY <4>1, <4>2
    <3> QED BY <3>2, <3>3, <3>4 DEF HasItems
  <2>5. CASE k + 1 \notin K
    <3>1. \A j \in (1 .. k + 1) \cap K : j \in (1 .. k) \cap K
        BY <2>5
    <3> QED BY <2>1, <2>2, <2>3, <2>5, <3>1 DEF HasItems
  <2> QED BY <2>4, <2>5
<1>3. Nat \subseteq S
  <2>1. ASSUME NEW k \in Nat, k \in S PROVE k + 1 \in S
      BY <1>2, <2>1
  <2> HIDE DEF S
  <2> QED BY <1>1, <2>1, SetInduction
<1> QED BY <1>3

LEMMA CollectedIs ==
    ASSUME NEW n \in Nat, NEW K, NEW R, NEW e, AreItems(n, K, e, R)
    PROVE  HasItems(Collected(n, K, e), n, K, e, R)
<1> DEFINE f == CHOOSE g : g = [i \in 0 .. n |->
                IF i = 0 THEN <<>> ELSE IF i \in K THEN Append(g[i - 1], e[i]) ELSE g[i - 1]]
<1>1. Collected(n, K, e) = f[n]
    BY DEF Collected
<1>0. \E g : g = [i \in 0 .. n |->
            IF i = 0 THEN <<>> ELSE IF i \in K THEN Append(g[i - 1], e[i]) ELSE g[i - 1]]
  <2>1. HasCollection(n, K, e)
      BY CollectionExists
  <2> QED BY <2>1 DEF HasCollection
<1>2. f = [i \in 0 .. n |->
            IF i = 0 THEN <<>> ELSE IF i \in K THEN Append(f[i - 1], e[i]) ELSE f[i - 1]]
    BY <1>0, Zenon
<1> HIDE DEF f
<1>3. DOMAIN f = 0 .. n
    BY <1>2, Zenon
<1>4. \A i \in 0 .. n : f[i] =
            IF i = 0 THEN <<>> ELSE IF i \in K THEN Append(f[i - 1], e[i]) ELSE f[i - 1]
    BY <1>2, Zenon
<1>5. f[0] = <<>>
  <2>1. 0 \in 0 .. n
      OBVIOUS
  <2> QED BY <1>4, <2>1
<1>6. \A i \in 1 .. n : f[i] = IF i \in K THEN Append(f[i - 1], e[i]) ELSE f[i - 1]
  <2> TAKE i \in 1 .. n
  <2>1. i \in 0 .. n /\ i # 0
      OBVIOUS
  <2> QED BY <1>4, <2>1
<1>7. Collects(f, n, K, e)
    BY <1>3, <1>5, <1>6 DEF Collects
<1>8. n \in 0 .. n
    OBVIOUS
<1>9. HasItems(f[n], n, K, e, R)
    BY <1>7, <1>8, CollectionHolds
<1> QED BY <1>1, <1>9 DEF HasItems

LEMMA ShapeIs ==
    ASSUME NEW s \in Shapes
    PROVE  /\ s.kind \in Kinds /\ Arity(s.kind) \in 2 .. 5
           /\ s.params = [i \in 1 .. Arity(s.kind) |-> i]
           /\ s.rolling \in Attributes(s.kind) /\ s.steering \in Attributes(s.kind)
<1>1. PICK kind \in Kinds : s \in ShapesOf(kind)
    BY DEF Shapes
<1>2. s.kind = kind /\ s.params = [i \in 1 .. Arity(kind) |-> i]
      /\ s.rolling \in Attributes(kind) /\ s.steering \in Attributes(kind)
    BY <1>1 DEF ShapesOf
<1>3. Arity(kind) \in 2 .. 5
    BY <1>1 DEF Kinds, Arity
<1> QED BY <1>1, <1>2, <1>3

LEMMA WriteOrderIs ==
    ASSUME NEW k \in Kinds
    PROVE  /\ \A i \in 1 .. Arity(k) : WriteOrder(k)[i] \in 1 .. Arity(k)
           /\ \A i, j \in 1 .. Arity(k) : WriteOrder(k)[i] = WriteOrder(k)[j] => i = j
           /\ \A j \in 1 .. Arity(k) : \E i \in 1 .. Arity(k) : WriteOrder(k)[i] = j
           /\ k = "rect" <=> \A i \in 1 .. Arity(k) : WriteOrder(k)[i] = i
<1>1. CASE k = "rect"
  <2>1. Arity(k) = 3 /\ WriteOrder(k) = <<1, 2, 3>>
      BY <1>1 DEF WriteOrder, Arity
  <2> QED BY <1>1, <2>1
<1>2. CASE k = "tri"
  <2>1. Arity(k) = 4 /\ WriteOrder(k) = <<1, 3, 2, 4>>
      BY <1>2 DEF WriteOrder, Arity
  <2> QED BY <1>2, <2>1
<1>3. CASE k = "trap"
  <2>1. Arity(k) = 5 /\ WriteOrder(k) = <<1, 4, 2, 5, 3>>
      BY <1>3 DEF WriteOrder, Arity
  <2> QED BY <1>3, <2>1
<1>4. CASE k = "cyl"
  <2>1. Arity(k) = 2 /\ WriteOrder(k) = <<2, 1>>
      BY <1>4 DEF WriteOrder, Arity
  <2> QED BY <1>4, <2>1
<1> QED BY <1>1, <1>2, <1>3, <1>4 DEF Kinds

Texts ==
    [type : Kinds \cup {"?"}, params : Seq(Int), place : Items,
     attrs : SUBSET ({"wheel", "steer"} \X BOOLEAN)]

LEMMA WrittenIs ==
    ASSUME NEW s \in Shapes
    PROVE  /\ Written(s) \in Texts /\ Written(s).type = s.kind /\ Written(s).place = "whole"
           /\ Len(Written(s).params) = Arity(s.kind)
           /\ \A i \in 1 .. Arity(s.kind) : Written(s).params[i] = WriteOrder(s.kind)[i]
           /\ HasAttr(Written(s), "wheel") <=> s.rolling
           /\ HasAttr(Written(s), "steer") <=> s.steering
           /\ s.rolling \in BOOLEAN /\ s.steering \in BOOLEAN
<1> DEFINE k == s.kind  n == Arity(s.kind)
           a == IF k = "cyl" THEN {<<"wheel", s.rolling>>, <<"steer", s.steering>>} ELSE {}
           p == [i \in 1 .. n |-> s.params[WriteOrder(k)[i]]]
<1>1. k \in Kinds /\ n \in 2 .. 5 /\ s.params = [i \in 1 .. n |-> i]
      /\ s.rolling \in Attributes(k) /\ s.steering \in Attributes(k)
    BY ShapeIs
<1>2. Written(s) = [type |-> k, params |-> p, place |-> "whole", attrs |-> a]
    BY DEF Written
<1>3. s.rolling \in BOOLEAN /\ s.steering \in BOOLEAN
    BY <1>1 DEF Attributes
<1>4. \A i \in 1 .. n : p[i] = WriteOrder(k)[i] /\ p[i] \in Int
    BY <1>1, WriteOrderIs
<1>5. p \in Seq(Int) /\ Len(p) = n
    BY <1>1, <1>4
<1>6. a \in SUBSET ({"wheel", "steer"} \X BOOLEAN)
    BY <1>3
<1>7. (<<"wheel", TRUE>> \in a <=> s.rolling) /\ (<<"steer", TRUE>> \in a <=> s.steering)
  <2>1. CASE k = "cyl"
    <3>1. a = {<<"wheel", s.rolling>>, <<"steer", s.steering>>}
        BY <2>1
    <3> QED BY <1>3, <3>1
  <2>2. CASE k # "cyl"
    <3>1. a = {} /\ s.rolling = FALSE /\ s.steering = FALSE
        BY <1>1, <2>2 DEF Attributes
    <3> QED BY <3>1
  <2> QED BY <2>1, <2>2
<1> HIDE DEF a, p, n, k
<1>8. /\ Written(s).type = k /\ Written(s).place = "whole"
      /\ Written(s).params = p /\ Written(s).attrs = a
    BY <1>2
<1>9. Written(s) \in Texts
  <2>1. "whole" \in Items /\ k \in Kinds \cup {"?"}
      BY <1>1 DEF Items
  <2> QED BY <1>2, <1>5, <1>6, <2>1 DEF Texts
<1> QED BY <1>3, <1>4, <1>5, <1>7, <1>8, <1>9 DEF HasAttr, n, k

LEMMA IndexIs ==
    ASSUME NEW kind \in Kinds, NEW i \in 1 .. Arity(kind)
    PROVE  Index(ReadOrder(kind), i) = i
<1>1. Len(ReadOrder(kind)) = Arity(kind) /\ \A j \in 1 .. Arity(kind) : ReadOrder(kind)[j] = j
  <2>1. CASE kind = "rect"
      BY <2>1 DEF ReadOrder, Arity
  <2>2. CASE kind = "tri"
      BY <2>2 DEF ReadOrder, Arity
  <2>3. CASE kind = "trap"
      BY <2>3 DEF ReadOrder, Arity
  <2>4. CASE kind = "cyl"
      BY <2>4 DEF ReadOrder, Arity
  <2> QED BY <2>1, <2>2, <2>3, <2>4 DEF Kinds
<1>2. Arity(kind) \in Nat
    BY DEF Kinds, Arity
<1> QED BY <1>1, <1>2 DEF Index

Fatal == {"type", "parameter", "place"}

\* What is left of the text of a shape: whether it is understood, and what is read of it.
LEMMA LossIs ==
    ASSUME NEW s \in Shapes, NEW what \in Losses \cup {"nothing"},
           NEW txt \in Without(Written(s), what)
    PROVE  /\ txt \in Texts
           /\ what \in Fatal => ~Understood(txt)
           /\ what \notin Fatal =>
                /\ Understood(txt) /\ txt.type = s.kind /\ (txt.place = "whole" <=> what # "colour")
                /\ HasAttr(txt, "wheel") => s.rolling
                /\ HasAttr(txt, "steer") => s.steering
                /\ what # "attribute" =>
                    (HasAttr(txt, "wheel") <=> s.rolling) /\ (HasAttr(txt, "steer") <=> s.steering)
                /\ what = "digit" => \E j \in 1 .. Arity(s.kind) :
                    \A i \in 1 .. Arity(s.kind) :
                        txt.params[i] = IF i = j THEN 0 ELSE WriteOrder(s.kind)[i]
                /\ what # "digit" =>
                    \A i \in 1 .. Arity(s.kind) : txt.params[i] = WriteOrder(s.kind)[i]
<1> DEFINE w == Written(s)  k == s.kind  n == Arity(s.kind)  o == WriteOrder(s.kind)
<1>1. /\ w \in Texts /\ w.type = k /\ w.place = "whole" /\ Len(w.params) = n
      /\ \A i \in 1 .. n : w.params[i] = o[i]
      /\ (HasAttr(w, "wheel") <=> s.rolling) /\ (HasAttr(w, "steer") <=> s.steering)
    BY WrittenIs
<1>2. k \in Kinds /\ n \in 2 .. 5
    BY ShapeIs
<1> HIDE DEF w, k, n, o
<1>3. CASE what = "nothing"
  <2>1. txt = w
      BY <1>3 DEF Without, w
  <2>2. Understood(w)
      BY <1>1, <1>2 DEF Understood, n, k
  <2> QED BY <1>1, <1>3, <2>1, <2>2 DEF Fatal, n, k, o
<1>4. CASE what = "type"
  <2>1. txt = [w EXCEPT !.type = "?"]
      BY <1>4 DEF Without, w
  <2>2. txt \in Texts /\ txt.type = "?"
      BY <1>1, <2>1 DEF Texts
  <2> QED BY <1>4, <2>2 DEF Fatal, Understood, Kinds
<1>5. CASE what = "parameter"
  <2>1. txt = [w EXCEPT !.params = Tail(@)]
      BY <1>5 DEF Without, w
  <2>2. w.params \in Seq(Int)
      BY <1>1 DEF Texts
  <2>3. Tail(w.params) \in Seq(Int) /\ Len(Tail(w.params)) = n - 1
      BY <1>1, <1>2, <2>2
  <2>4. txt \in Texts /\ txt.type = k /\ txt.params = Tail(w.params)
      BY <1>1, <2>1, <2>3 DEF Texts
  <2>5. ~Understood(txt)
      BY <1>2, <2>3, <2>4 DEF Understood, n, k
  <2> QED BY <1>5, <2>4, <2>5 DEF Fatal
<1>6. CASE what = "digit"
  <2>1. PICK j \in 1 .. Len(w.params) : txt = [w EXCEPT !.params[j] = 0]
      BY <1>6 DEF Without, w
  <2> DEFINE p == w.params
  <2>2. p \in Seq(Int) /\ Len(p) = n /\ j \in 1 .. n
      BY <1>1, <2>1 DEF Texts
  <2>3. /\ txt = [w EXCEPT !.params = [p EXCEPT ![j] = 0]]
      BY <2>1
  <2> DEFINE q == [p EXCEPT ![j] = 0]
  <2>4. q \in Seq(Int) /\ Len(q) = n /\ \A i \in 1 .. n : q[i] = IF i = j THEN 0 ELSE p[i]
      BY <2>2
  <2>5. \A i \in 1 .. n : p[i] = o[i]
      BY <1>1
  <2> HIDE DEF p, q
  <2>6. /\ txt \in Texts /\ txt.type = k /\ txt.place = "whole" /\ txt.params = q
        /\ txt.attrs = w.attrs
      BY <1>1, <2>3, <2>4 DEF Texts, q
  <2>7. Understood(txt)
      BY <1>2, <2>4, <2>6 DEF Understood, n, k
  <2>8. (HasAttr(txt, "wheel") <=> s.rolling) /\ (HasAttr(txt, "steer") <=> s.steering)
      BY <1>1, <2>6 DEF HasAttr
  <2>9. \A i \in 1 .. n : txt.params[i] = IF i = j THEN 0 ELSE o[i]
      BY <2>4, <2>5, <2>6
  <2> QED BY <1>6, <2>2, <2>6, <2>7, <2>8, <2>9 DEF Fatal, n, k, o
<1>7. CASE what = "place"
  <2>1. txt = [w EXCEPT !.place = "cut"]
      BY <1>7 DEF Without, w
  <2>2. txt \in Texts /\ txt.place = "cut"
      BY <1>1, <2>1 DEF Texts, Items
  <2> QED BY <1>7, <2>2 DEF Fatal, Understood
<1>8. CASE what = "colour"
  <2>1. txt = [w EXCEPT !.place = "short"]
      BY <1>8 DEF Without, w
  <2>2. /\ txt \in Texts /\ txt.place = "short" /\ txt.type = k
        /\ txt.params = w.params /\ txt.attrs = w.attrs
      BY <1>1, <2>1 DEF Texts, Items
  <2>3. Understood(txt)
      BY <1>1, <1>2, <2>2 DEF Understood, n, k
  <2>4. (HasAttr(txt, "wheel") <=> s.rolling) /\ (HasAttr(txt, "steer") <=> s.steering)
      BY <1>1, <2>2 DEF HasAttr
  <2> QED BY <1>1, <1>8, <2>2, <2>3, <2>4 DEF Fatal, n, k, o
<1>9. CASE what = "attribute"
  <2>1. PICK a \in w.attrs : txt = [w EXCEPT !.attrs = @ \ {a}]
      BY <1>9 DEF Without, w
  <2>2. /\ txt \in Texts /\ txt.place = "whole" /\ txt.type = k
        /\ txt.params = w.params /\ txt.attrs = w.attrs \ {a}
      BY <1>1, <2>1 DEF Texts
  <2>3. Understood(txt)
      BY <1>1, <1>2, <2>2 DEF Understood, n, k
  <2>4. (HasAttr(txt, "wheel") => s.rolling) /\ (HasAttr(txt, "steer") => s.steering)
      BY <1>1, <2>2 DEF HasAttr
  <2> QED BY <1>1, <1>9, <2>2, <2>3, <2>4 DEF Fatal, n, k, o
<1> QED BY <1>3, <1>4, <1>5, <1>6, <1>7, <1>8, <1>9 DEF Losses

LEMMA ShapeComes ==
    ASSUME NEW s \in Shapes, NEW what \in Losses \cup {"nothing"}, what \notin Fatal,
           NEW txt \in Without(Written(s), what)
    PROVE  ComesAs(s, ReadShape(txt), what)
<1> DEFINE k == s.kind  n == Arity(s.kind)  o == WriteOrder(s.kind)  r == ReadShape(txt)
           numbers == {r.params[j] : j \in 1 .. n}
<1>1. k \in Kinds /\ n \in 2 .. 5 /\ s.params = [i \in 1 .. n |-> i]
    BY ShapeIs
<1>2. s.rolling \in BOOLEAN /\ s.steering \in BOOLEAN
    BY WrittenIs
<1>3. /\ txt.type = k /\ (txt.place = "whole" <=> what # "colour")
      /\ HasAttr(txt, "wheel") => s.rolling
      /\ HasAttr(txt, "steer") => s.steering
      /\ what # "attribute" =>
            (HasAttr(txt, "wheel") <=> s.rolling) /\ (HasAttr(txt, "steer") <=> s.steering)
      /\ what = "digit" => \E j \in 1 .. n : \A i \in 1 .. n :
            txt.params[i] = IF i = j THEN 0 ELSE o[i]
      /\ what # "digit" => \A i \in 1 .. n : txt.params[i] = o[i]
    BY LossIs
<1>4. /\ r.kind = k /\ r.place = txt.place
      /\ r.rolling = HasAttr(txt, "wheel") /\ r.steering = HasAttr(txt, "steer")
      /\ r.params = [i \in 1 .. n |-> txt.params[Index(ReadOrder(k), i)]]
    BY <1>3 DEF ReadShape
<1>5. HasAttr(txt, "wheel") \in BOOLEAN /\ HasAttr(txt, "steer") \in BOOLEAN
    BY DEF HasAttr
<1>6. \A i \in 1 .. n : Index(ReadOrder(k), i) = i
    BY <1>1, IndexIs
<1>7. /\ \A i \in 1 .. n : o[i] \in 1 .. n
      /\ \A i, j \in 1 .. n : o[i] = o[j] => i = j
      /\ \A j \in 1 .. n : \E i \in 1 .. n : o[i] = j
      /\ k = "rect" <=> \A i \in 1 .. n : o[i] = i
    BY <1>1, WriteOrderIs
<1> HIDE DEF k, n, o, r, numbers
<1>8. r.params = [i \in 1 .. n |-> txt.params[i]]
    BY <1>4, <1>6
<1>9. ASSUME what = "digit"
      PROVE  \E m \in 1 .. n : numbers = ((1 .. n) \ {m}) \cup {0}
  <2>1. PICK j \in 1 .. n : \A i \in 1 .. n : txt.params[i] = IF i = j THEN 0 ELSE o[i]
      BY <1>3, <1>9
  <2>2. \A i \in 1 .. n : r.params[i] = IF i = j THEN 0 ELSE o[i]
      BY <1>8, <2>1
  <2>3. numbers \subseteq ((1 .. n) \ {o[j]}) \cup {0}
      BY <1>7, <2>2 DEF numbers
  <2>4. ASSUME NEW m \in (1 .. n) \ {o[j]} PROVE m \in numbers
    <3>1. PICK i \in 1 .. n : o[i] = m
        BY <1>7
    <3>2. r.params[i] = m
        BY <2>2, <2>4, <3>1
    <3> QED BY <3>2 DEF numbers
  <2>5. 0 \in numbers
    <3>1. r.params[j] = 0
        BY <2>2
    <3> QED BY <3>1 DEF numbers
  <2>6. numbers = ((1 .. n) \ {o[j]}) \cup {0}
      BY <2>3, <2>4, <2>5
  <2> QED BY <1>7, <2>6
<1>10. ASSUME what # "digit"
       PROVE  numbers = 1 .. n /\ (k = "rect" <=> r.params = s.params)
  <2>1. \A i \in 1 .. n : r.params[i] = o[i]
      BY <1>3, <1>8, <1>10
  <2>2. numbers \subseteq 1 .. n
      BY <1>7, <2>1 DEF numbers
  <2>3. ASSUME NEW j \in 1 .. n PROVE j \in numbers
    <3>1. PICK i \in 1 .. n : o[i] = j
        BY <1>7
    <3>2. r.params[i] = j
        BY <2>1, <3>1
    <3> QED BY <3>2 DEF numbers
  <2>4. r.params = s.params <=> \A i \in 1 .. n : o[i] = i
      BY <1>1, <1>8, <2>1
  <2> QED BY <1>7, <2>2, <2>3, <2>4
<1>11. r.kind = k /\ (r.place = "whole" <=> what # "colour")
    BY <1>3, <1>4
<1>12. (r.rolling => s.rolling) /\ (r.steering => s.steering)
    BY <1>3, <1>4
<1>13. what # "attribute" => r.rolling = s.rolling /\ r.steering = s.steering
    BY <1>2, <1>3, <1>4, <1>5
<1> QED BY <1>9, <1>10, <1>11, <1>12, <1>13 DEF ComesAs, k, n, o, r, numbers

\* What was told and what of it is hurt, and that it has been read by the code.
Told ==
    /\ model \in Seq(Shapes) /\ message \in Seq(Texts) /\ Len(message) = Len(model)
    /\ hurt \in Seq(Losses \cup {"nothing"}) /\ Len(hurt) = Len(model) /\ isRead \in BOOLEAN
    /\ \A i \in 1 .. Len(model) : message[i] \in Without(Written(model[i]), hurt[i])
    /\ isRead => readBack = ReadModel(message)

ListRead ==
    /\ listed.announced \in Nat /\ listed.told \in Seq(Items)
    /\ listed.read = ReadList(listed.of, listed.announced, listed.told)

LEMMA NothingRead == ReadChecked(0, <<>>) = <<>>
<1> DEFINE K == {i \in 1 .. 0 : Legible(<<>>, i)}
<1>1. ReadChecked(0, <<>>) = Collected(0, K, <<>>)
    BY DEF ReadChecked
<1> HIDE DEF K
<1>2. Collected(0, K, <<>>) \in Seq(Items) /\ Len(Collected(0, K, <<>>)) = Added(K, 0)
  <2>1. AreItems(0, K, <<>>, Items)
      BY DEF AreItems
  <2>2. HasItems(Collected(0, K, <<>>), 0, K, <<>>, Items)
      BY <2>1, CollectedIs
  <2> QED BY <2>2 DEF HasItems
<1>3. Added(K, 0) = 0
    BY AddedSteps
<1> QED BY <1>1, <1>2, <1>3

LEMMA NoListRead == listed = NoList => ListRead
BY NothingRead DEF ListRead, NoList, ReadList

LEMMA ToldInit == MessageInit => Told /\ ListRead
<1> SUFFICES ASSUME MessageInit PROVE Told /\ ListRead
    OBVIOUS
<1>1. Told
  <2>1. model = <<>> /\ message = <<>> /\ hurt = <<>> /\ isRead = FALSE
      BY DEF MessageInit
  <2>2. /\ model \in Seq(Shapes) /\ message \in Seq(Texts) /\ Len(model) = 0 /\ Len(message) = 0
        /\ hurt \in Seq(Losses \cup {"nothing"}) /\ Len(hurt) = 0
      BY <2>1
  <2>3. \A i \in 1 .. 0 : FALSE
      OBVIOUS
  <2> QED BY <2>1, <2>2, <2>3 DEF Told
<1>3. ListRead
    BY NoListRead DEF MessageInit
<1> QED BY <1>1, <1>3

LEMMA TellKeepsTold == Told /\ TellShape => Told'
<1> SUFFICES ASSUME Told, TellShape PROVE Told'
    OBVIOUS
<1>1. PICK s \in Shapes : model' = Append(model, s) /\ message' = Append(message, Written(s))
    BY DEF TellShape
<1>2. Written(s) \in Texts /\ Written(s) \in Without(Written(s), "nothing")
    BY WrittenIs DEF Without
<1> DEFINE n == Len(model)
<1>3. /\ model \in Seq(Shapes) /\ message \in Seq(Texts) /\ Len(message) = n /\ n \in Nat
      /\ hurt \in Seq(Losses \cup {"nothing"}) /\ Len(hurt) = n
      /\ hurt' = Append(hurt, "nothing") /\ isRead = FALSE /\ isRead' = isRead
      /\ \A i \in 1 .. n : message[i] \in Without(Written(model[i]), hurt[i])
    BY DEF Told, TellShape
<1>4. /\ model' \in Seq(Shapes) /\ message' \in Seq(Texts)
      /\ hurt' \in Seq(Losses \cup {"nothing"})
      /\ Len(model') = n + 1 /\ Len(message') = n + 1 /\ Len(hurt') = n + 1
      /\ model'[n + 1] = s /\ message'[n + 1] = Written(s) /\ hurt'[n + 1] = "nothing"
      /\ \A i \in 1 .. n : model'[i] = model[i] /\ message'[i] = message[i] /\ hurt'[i] = hurt[i]
    BY <1>1, <1>2, <1>3
<1>5. ASSUME NEW i \in 1 .. n + 1
      PROVE  message'[i] \in Without(Written(model'[i]), hurt'[i])
  <2>1. CASE i = n + 1
      BY <1>2, <1>4, <2>1
  <2>2. CASE i # n + 1
    <3>1. i \in 1 .. n
        BY <1>3, <2>2
    <3> QED BY <1>3, <1>4, <3>1
  <2> QED BY <2>1, <2>2
<1> HIDE DEF n
<1> QED BY <1>3, <1>4, <1>5 DEF Told, n

LEMMA LoseKeepsTold == Told /\ LoseField => Told'
<1> SUFFICES ASSUME Told, LoseField PROVE Told'
    OBVIOUS
<1> DEFINE n == Len(model)
<1>1. PICK i \in 1 .. Len(message), what \in Losses :
        /\ hurt[i] = "nothing"
        /\ \E txt \in Without(message[i], what) : message' = [message EXCEPT ![i] = txt]
        /\ hurt' = [hurt EXCEPT ![i] = what]
    BY DEF LoseField
<1>2. PICK txt \in Without(message[i], what) : message' = [message EXCEPT ![i] = txt]
    BY <1>1
<1>3. /\ model \in Seq(Shapes) /\ message \in Seq(Texts) /\ Len(message) = n /\ n \in Nat
      /\ hurt \in Seq(Losses \cup {"nothing"}) /\ Len(hurt) = n
      /\ isRead = FALSE /\ isRead' = isRead /\ model' = model
      /\ \A j \in 1 .. n : message[j] \in Without(Written(model[j]), hurt[j])
    BY DEF Told, LoseField
<1>4. i \in 1 .. n /\ model[i] \in Shapes
    BY <1>1, <1>3
<1>5. message[i] = Written(model[i])
  <2>1. message[i] \in Without(Written(model[i]), "nothing")
      BY <1>1, <1>3, <1>4
  <2> QED BY <2>1 DEF Without
<1>6. txt \in Without(Written(model[i]), what)
    BY <1>2, <1>5
<1>7. txt \in Texts
    BY <1>4, <1>6, LossIs
<1> HIDE DEF n
<1>8. /\ message' \in Seq(Texts) /\ Len(message') = n /\ message'[i] = txt
      /\ \A j \in 1 .. n : j # i => message'[j] = message[j]
    BY <1>2, <1>3, <1>4, <1>7
<1>9. /\ hurt' \in Seq(Losses \cup {"nothing"}) /\ Len(hurt') = n /\ hurt'[i] = what
      /\ \A j \in 1 .. n : j # i => hurt'[j] = hurt[j]
    BY <1>1, <1>3, <1>4
<1>10. ASSUME NEW j \in 1 .. n
       PROVE  message'[j] \in Without(Written(model'[j]), hurt'[j])
  <2>1. CASE j = i
      BY <1>3, <1>6, <1>8, <1>9, <2>1
  <2>2. CASE j # i
      BY <1>3, <1>8, <1>9, <2>2
  <2> QED BY <2>1, <2>2
<1> QED BY <1>3, <1>8, <1>9, <1>10 DEF Told, n

LEMMA OthersKeepTold ==
    Told /\ (GetModel \/ GetList \/ NextMessage \/ UNCHANGED messageVars) => Told'
<1> SUFFICES ASSUME Told, GetModel \/ GetList \/ NextMessage \/ UNCHANGED messageVars
             PROVE  Told'
    OBVIOUS
<1>1. CASE GetModel
    BY <1>1 DEF GetModel, Told
<1>2. CASE GetList
    BY <1>2 DEF GetList, Told
<1>3. CASE NextMessage
  <2>1. model' = <<>> /\ message' = <<>> /\ hurt' = <<>> /\ isRead' = FALSE
      BY <1>3 DEF NextMessage
  <2>2. /\ model' \in Seq(Shapes) /\ message' \in Seq(Texts) /\ Len(model') = 0
        /\ Len(message') = 0 /\ hurt' \in Seq(Losses \cup {"nothing"}) /\ Len(hurt') = 0
      BY <2>1
  <2>3. \A i \in 1 .. 0 : FALSE
      OBVIOUS
  <2> QED BY <2>1, <2>2, <2>3 DEF Told
<1>4. CASE UNCHANGED messageVars
    BY <1>4 DEF messageVars, Told
<1> QED BY <1>1, <1>2, <1>3, <1>4

LEMMA ListKept == ListRead /\ [MessageNext]_messageVars => ListRead'
<1> SUFFICES ASSUME ListRead, [MessageNext]_messageVars PROVE ListRead'
    OBVIOUS
<1>1. CASE TellShape
  <2>1. listed' = NoList
      BY <1>1 DEF TellShape
  <2> QED BY <2>1, NothingRead DEF ListRead, NoList, ReadList
<1>2. CASE GetList
  <2>1. PICK of \in Lists, announced \in 0 .. MaxShapes :
            \E n \in 0 .. announced : \E told \in [1 .. n -> Items] :
                listed' = [of |-> of, announced |-> announced, told |-> told,
                           read |-> ReadList(of, announced, told)]
      BY <1>2 DEF GetList
  <2>2. PICK n \in 0 .. announced : \E told \in [1 .. n -> Items] :
                listed' = [of |-> of, announced |-> announced, told |-> told,
                           read |-> ReadList(of, announced, told)]
      BY <2>1
  <2>3. PICK told \in [1 .. n -> Items] :
                listed' = [of |-> of, announced |-> announced, told |-> told,
                           read |-> ReadList(of, announced, told)]
      BY <2>2
  <2>4. told \in Seq(Items) /\ announced \in Nat
      BY MessageAssumption
  <2> QED BY <2>3, <2>4 DEF ListRead
<1>3. CASE LoseField \/ GetModel \/ NextMessage \/ UNCHANGED messageVars
  <2>1. listed' = listed
      BY <1>3 DEF LoseField, GetModel, NextMessage, messageVars
  <2> QED BY <2>1 DEF ListRead
<1> QED BY <1>1, <1>2, <1>3 DEF MessageNext

LEMMA LossFromTold == Told => LossCostsOneShape
<1> SUFFICES ASSUME Told, isRead PROVE LossCostsOneShape
    BY DEF LossCostsOneShape
<1> DEFINE n == Len(model)
           K == {i \in 1 .. Len(message) : Understood(message[i])}
           e == [i \in 1 .. Len(message) |-> ReadShape(message[i])]
           R == {e[i] : i \in K}
           left == {i \in 1 .. n : hurt[i] \notin {"type", "parameter", "place"}}
<1>1. /\ model \in Seq(Shapes) /\ Len(message) = n /\ n \in Nat
      /\ hurt \in Seq(Losses \cup {"nothing"}) /\ Len(hurt) = n
      /\ \A i \in 1 .. n : message[i] \in Without(Written(model[i]), hurt[i])
      /\ readBack = ReadModel(message)
    BY DEF Told
<1>2. readBack = Collected(n, K, e)
    BY <1>1 DEF ReadModel
<1>3. ASSUME NEW i \in 1 .. n
      PROVE  /\ model[i] \in Shapes /\ hurt[i] \in Losses \cup {"nothing"}
             /\ message[i] \in Without(Written(model[i]), hurt[i])
             /\ Understood(message[i]) <=> hurt[i] \notin Fatal
  <2>1. /\ model[i] \in Shapes /\ hurt[i] \in Losses \cup {"nothing"}
        /\ message[i] \in Without(Written(model[i]), hurt[i])
      BY <1>1
  <2> QED BY <2>1, LossIs
<1>4. K = left
    BY <1>1, <1>3 DEF Fatal
<1>5. \A i \in (1 .. n) \cap K : e[i] \in R
    OBVIOUS
<1>6. \A i \in left : e[i] = ReadShape(message[i]) /\ hurt[i] \notin Fatal /\ i \in 1 .. n
    BY <1>1 DEF Fatal
<1> HIDE DEF K, e, R, left, n
<1>7. /\ Len(readBack) = Added(K, n)
      /\ \A j \in (1 .. n) \cap K : readBack[Added(K, j)] = e[j]
  <2>1. AreItems(n, K, e, R)
      BY <1>5 DEF AreItems
  <2>2. HasItems(readBack, n, K, e, R)
      BY <1>1, <1>2, <2>1, CollectedIs
  <2> QED BY <2>2 DEF HasItems
<1>8. Len(readBack) = Cardinality(left)
  <2>1. (1 .. n) \cap left = left
      BY <1>6
  <2> QED BY <1>4, <1>7, <2>1 DEF Added
<1>9. ASSUME NEW i \in left
      PROVE  ComesAs(model[i], readBack[Cardinality((1 .. i) \cap left)], hurt[i])
  <2>1. i \in 1 .. n /\ i \in (1 .. n) \cap K /\ hurt[i] \notin Fatal
      BY <1>4, <1>6
  <2>2. readBack[Cardinality((1 .. i) \cap left)] = ReadShape(message[i])
      BY <1>4, <1>6, <1>7, <2>1 DEF Added
  <2> QED BY <1>3, <2>1, <2>2, ShapeComes
<1> QED BY <1>8, <1>9 DEF LossCostsOneShape, left, n

\* GetVehicleModels, for models of any length, of any of whose shapes a type, a number,
\* the end of one, or an attribute is lost: the loss stays with its shape, which is left
\* out only without its type, a parameter or its place.
THEOREM LossCostsOneShapeAlways == MessageSpec => []LossCostsOneShape
<1>1. Told /\ ListRead /\ [MessageNext]_messageVars => (Told /\ ListRead)'
    BY TellKeepsTold, LoseKeepsTold, OthersKeepTold, ListKept DEF MessageNext
<1> QED BY <1>1, ToldInit, LossFromTold, PTL DEF MessageSpec

LEMMA LeftOutFromRead == ListRead => CutItemsLeftOut
<1> SUFFICES ASSUME ListRead PROVE CutItemsLeftOut
    OBVIOUS
<1> DEFINE n == listed.announced  told == listed.told
           K == {i \in 1 .. n : Legible(told, i)}
<1>1. n \in Nat /\ told \in Seq(Items) /\ listed.read = ReadList(listed.of, n, told)
    BY DEF ListRead
<1>2. CASE listed.of \in {"obstacles", "vehicles"}
  <2>1. listed.read = Collected(n, K, told)
      BY <1>1, <1>2 DEF ReadList, ReadChecked
  <2>2. \A i \in (1 .. n) \cap K : told[i] \in Items
      BY <1>1 DEF Legible
  <2>3. (1 .. n) \cap K = K
      OBVIOUS
  <2> HIDE DEF K, n, told
  <2>4. HasItems(listed.read, n, K, told, Items)
    <3>1. AreItems(n, K, told, Items)
        BY <2>2 DEF AreItems
    <3> QED BY <1>1, <2>1, <3>1, CollectedIs
  <2>5. Len(listed.read) = Cardinality(K)
      BY <2>3, <2>4 DEF HasItems, Added
  <2>6. \A i \in K : listed.read[Cardinality((1 .. i) \cap K)] = told[i]
      BY <2>3, <2>4 DEF HasItems, Added
  <2> QED BY <1>2, <2>5, <2>6 DEF CutItemsLeftOut, K, n, told
<1>3. CASE listed.of \notin {"obstacles", "vehicles"}
  <2>1. listed.read
        = [i \in 1 .. n |-> IF \A j \in 1 .. i : Legible(told, j) THEN told[i] ELSE "any"]
      BY <1>1, <1>3 DEF ReadList, ReadUnchecked
  <2> HIDE DEF n, told
  <2>2. Len(listed.read) = n
      BY <1>1, <2>1
  <2>3. K = 1 .. n => \A i \in 1 .. n : listed.read[i] = told[i] /\ told[i] # "any"
    <3>1. ASSUME K = 1 .. n, NEW i \in 1 .. n PROVE listed.read[i] = told[i] /\ told[i] # "any"
      <4>1. \A j \in 1 .. i : Legible(told, j)
          BY <1>1, <3>1
      <4>2. told[i] \in Items
          BY <1>1, <4>1 DEF Legible
      <4> QED BY <2>1, <4>1, <4>2 DEF Items
    <3> QED BY <3>1
  <2>4. K # 1 .. n => \E i \in 1 .. n : listed.read[i] = "any"
    <3>1. ASSUME K # 1 .. n PROVE \E i \in 1 .. n : listed.read[i] = "any"
      <4>1. PICK i \in 1 .. n : ~Legible(told, i)
          BY <3>1
      <4>2. listed.read[i] = "any"
          BY <1>1, <2>1, <4>1
      <4> QED BY <4>2
    <3> QED BY <3>1
  <2> QED BY <1>3, <2>2, <2>3, <2>4 DEF CutItemsLeftOut, n, told
<1> QED BY <1>2, <1>3

\* GetObstacles .. GetGoalState, for lists of any length, announced and told: of what is
\* checked the items without all their numbers are left out and no other; what is not
\* checked is made up exactly if a number is missing.
THEOREM CutItemsLeftOutAlways == MessageSpec => []CutItemsLeftOut
BY ListKept, ToldInit, LeftOutFromRead, PTL DEF MessageSpec

(***************************************************************************)
(* The OpenGL calls: no stack is ever empty.                                *)
(***************************************************************************)

Stacks == {"modelview", "projection"}
Matrices == Seq([by : Factors, size : Sizes])

\* GlTypeOK with what the matrices are made of.
GlTypes ==
    /\ size \in Sizes /\ open \in BOOLEAN /\ mode \in Stacks
    /\ stack \in [Stacks -> Seq(Matrices)]
    /\ \A m \in Stacks : stack[m] # <<>>

LEMMA GlTypesInit == GlInit => GlTypes
<1> SUFFICES ASSUME GlInit PROVE GlTypes
    OBVIOUS
<1>1. <<>> \in Matrices
    BY DEF Matrices
<1>2. <<<<>>>> \in Seq(Matrices) /\ <<<<>>>> # <<>>
    BY <1>1
<1> DEFINE bottom == <<<<>>>>
<1> HIDE DEF bottom
<1>3. stack = [m \in Stacks |-> bottom]
    BY DEF GlInit, Stacks, bottom
<1>4. bottom \in Seq(Matrices) /\ bottom # <<>>
    BY <1>2 DEF bottom
<1> QED BY <1>3, <1>4, SizeAssumption DEF GlInit, GlTypes, Stacks

\* Which change a call makes.
ChangeBy(d, A, B, C, D, E) ==
    CASE d = "push" -> A
      [] d = "pop" -> B
      [] d = "identity" -> C
      [] d \in Factors -> D
      [] OTHER -> E

LEMMA ChangeOf ==
    ASSUME NEW d, NEW A, NEW B, NEW C, NEW D, NEW E
    PROVE  /\ d = "push" => ChangeBy(d, A, B, C, D, E) = A
           /\ d = "pop" => ChangeBy(d, A, B, C, D, E) = B
           /\ d = "identity" => ChangeBy(d, A, B, C, D, E) = C
           /\ d \in Factors => ChangeBy(d, A, B, C, D, E) = D
           /\ d \notin {"push", "pop", "identity"} \cup Factors => ChangeBy(d, A, B, C, D, E) = E
BY DEF ChangeBy, Factors

LEMMA ChangedIs ==
    /\ Now.do = "push" => Changed = <<Top(mode)>> \o stack[mode]
    /\ Now.do = "pop" => Changed = Tail(stack[mode])
    /\ Now.do = "identity" => Changed = <<<<>>>> \o Tail(stack[mode])
    /\ Now.do \in Factors => Changed = <<Append(Top(mode), Factor(Now.do))>> \o Tail(stack[mode])
    /\ Now.do \notin {"push", "pop", "identity"} \cup Factors => Changed = stack[mode]
<1> DEFINE d == Now.do
           A == <<Top(mode)>> \o stack[mode]
           B == Tail(stack[mode])
           C == <<<<>>>> \o Tail(stack[mode])
           D == <<Append(Top(mode), Factor(d))>> \o Tail(stack[mode])
           E == stack[mode]
<1>1. Changed = ChangeBy(d, A, B, C, D, E)
    BY DEF Changed, ChangeBy
<1> HIDE DEF d, A, B, C, D, E
<1>2. /\ d = "push" => Changed = A
      /\ d = "pop" => Changed = B
      /\ d = "identity" => Changed = C
      /\ d \in Factors => Changed = D
      /\ d \notin {"push", "pop", "identity"} \cup Factors => Changed = E
    BY <1>1, ChangeOf
<1> QED BY <1>2 DEF d, A, B, C, D, E

\* What a call leaves of the stack that it is about.
LEMMA StackedType ==
    ASSUME GlTypes
    PROVE  Stacked \in Seq(Matrices) /\ Stacked # <<>>
<1> DEFINE s == stack[mode]
<1>1. s \in Seq(Matrices) /\ s # <<>>
    BY DEF GlTypes
<1>2. Head(s) \in Matrices /\ Tail(s) \in Seq(Matrices) /\ <<>> \in Matrices
    BY <1>1 DEF Matrices
<1>3. Top(mode) = Head(s)
    BY DEF Top
<1> HIDE DEF s
<1>4. CASE ~Legal
    BY <1>1, <1>4 DEF Stacked, s
<1>5. CASE Legal /\ Now.do = "push"
  <2>1. Stacked = <<Top(mode)>> \o s
      BY <1>5, ChangedIs, Zenon DEF Stacked, s
  <2> QED BY <1>1, <1>2, <1>3, <2>1
<1>6. CASE Legal /\ Now.do = "pop"
  <2>1. Stacked = Tail(s)
      BY <1>6, ChangedIs, Zenon DEF Stacked, s
  <2>2. Len(s) > 1
      BY <1>6 DEF Legal, s
  <2>3. Len(Tail(s)) = Len(s) - 1 /\ Len(s) \in Nat
      BY <1>1, <2>2
  <2>4. Tail(s) # <<>>
    <3>1. Len(<<>>) = 0
        OBVIOUS
    <3>2. Len(Tail(s)) # 0
      <4> DEFINE n == Len(s)
      <4>1. n \in Nat /\ n > 1 /\ Len(Tail(s)) = n - 1
          BY <2>2, <2>3
      <4> HIDE DEF n
      <4>2. n - 1 # 0
          BY <4>1
      <4> QED BY <4>1, <4>2, Zenon
    <3> QED BY <3>1, <3>2, Zenon
  <2> QED BY <1>2, <2>1, <2>4
<1>7. CASE Legal /\ Now.do = "identity"
  <2>1. Stacked = <<<<>>>> \o Tail(s)
      BY <1>7, ChangedIs, Zenon DEF Stacked, s
  <2> QED BY <1>1, <1>2, <2>1
<1>8. CASE Legal /\ Now.do \in Factors
  <2>1. Factor(Now.do) \in [by : Factors, size : Sizes]
      BY <1>8, SizeAssumption DEF Factor, GlTypes
  <2>2. Append(Head(s), Factor(Now.do)) \in Matrices
      BY <1>2, <2>1 DEF Matrices
  <2>3. Stacked = <<Append(Head(s), Factor(Now.do))>> \o Tail(s)
      BY <1>3, <1>8, ChangedIs, Zenon DEF Stacked, s
  <2> QED BY <1>2, <2>2, <2>3
<1>9. CASE Legal /\ Now.do \notin {"push", "pop", "identity"} \cup Factors
    BY <1>1, <1>9, ChangedIs DEF Stacked, s
<1> QED BY <1>4, <1>5, <1>6, <1>7, <1>8, <1>9

LEMMA GlTypesNext == GlTypes /\ [GlNext]_glVars => GlTypes'
<1> SUFFICES ASSUME GlTypes, [GlNext]_glVars PROVE GlTypes'
    OBVIOUS
<1>1. CASE Execute
  <2>1. size' \in Sizes /\ open' \in BOOLEAN /\ mode' \in Stacks
      BY <1>1 DEF Execute, GlTypes, Stacks
  <2>2. stack' = [stack EXCEPT ![mode] = Stacked]
      BY <1>1 DEF Execute
  <2> QED BY <2>1, <2>2, StackedType DEF GlTypes
<1>2. CASE DrawFrame \/ Resize
    BY <1>2 DEF DrawFrame, Resize, GlTypes
<1>3. CASE UNCHANGED glVars
    BY <1>3 DEF glVars, GlTypes
<1> QED BY <1>1, <1>2, <1>3 DEF GlNext

\* Matrices are pushed, multiplied and popped for as long as frames are drawn, and
\* neither stack ever loses its last one: for windows and stacks of any size.
THEOREM GlTypeOKAlways == GlSpec => []GlTypeOK
<1>1. GlTypes => GlTypeOK
    BY DEF GlTypes, GlTypeOK, Stacks
<1> QED BY <1>1, GlTypesInit, GlTypesNext, PTL DEF GlSpec

(***************************************************************************)
(* The follow direction.  Its angle is always an even number: no turn ends  *)
(* in the vertical.                                                        *)
(***************************************************************************)

Even(n) == \E k \in Int : n = 2 * k

\* FollowTypeOK with what keeps the direction from the vertical.
Aimed ==
    /\ FollowTypeOK
    /\ Even(follow.rise)

LEMMA FollowNumbers ==
    /\ Step \in Nat \ {0} /\ Upright \in Nat /\ Step < Upright /\ MaxTurned \in Nat
    /\ \E k \in Nat : Step = 2 * k
    /\ \E k \in Nat : Upright = 2 * k + 1
BY FollowAssumption

LEMMA AimedInit == FollowInit => Aimed
<1> SUFFICES ASSUME FollowInit PROVE Aimed
    OBVIOUS
<1>1. 0 \in (1 - Upright) .. (Upright - 1) /\ 0 \in (-MaxTurned) .. MaxTurned
    BY FollowNumbers
<1>2. FALSE \in BOOLEAN
    OBVIOUS
<1>3. follow = [rise |-> 0, turned |-> 0, flipped |-> FALSE]
    BY DEF FollowInit
<1>4. FollowTypeOK
    BY <1>1, <1>2, <1>3, Zenon DEF FollowTypeOK
<1>5. follow.rise = 0
    BY <1>3
<1>6. Even(0)
    BY DEF Even
<1> QED BY <1>4, <1>5, <1>6 DEF Aimed

\* A turn past the vertical comes down on the other side of it.
LEMMA RaisedWhere ==
    ASSUME NEW sign \in {-1, 1}, NEW r \in (1 - Upright) .. (Upright - 1), Even(r)
    PROVE  LET n == r + sign * Step
               up == 2 * Upright - n
               down == -2 * Upright - n
               range == (1 - Upright) .. (Upright - 1)
           IN  /\ n > Upright => up \in range /\ Even(up)
               /\ n < -Upright => down \in range /\ Even(down)
               /\ ~(n > Upright) /\ ~(n < -Upright) => n \in range /\ Even(n)
<1>1. PICK k \in Int : r = 2 * k
    BY DEF Even
<1>2. PICK st \in Nat : Step = 2 * st
    BY FollowNumbers
<1>3. PICK v \in Nat : Upright = 2 * v + 1
    BY FollowNumbers
<1> DEFINE n == r + sign * Step  m == k + sign * st
<1>4. n = 2 * m /\ m \in Int /\ n \in Int
    BY <1>1, <1>2
<1>5. n <= Upright - 1 + Step /\ n >= 1 - Upright - Step
    BY FollowNumbers
<1> HIDE DEF n, m
<1>6. /\ n > Upright => 2 * Upright - n \in (1 - Upright) .. (Upright - 1)
      /\ n < -Upright => -2 * Upright - n \in (1 - Upright) .. (Upright - 1)
      /\ ~(n > Upright) /\ ~(n < -Upright) => n \in (1 - Upright) .. (Upright - 1)
    BY <1>3, <1>4, <1>5, FollowNumbers
<1>7. Even(n) /\ Even(2 * Upright - n) /\ Even(-2 * Upright - n)
  <2>1. n = 2 * m /\ 2 * Upright - n = 2 * (Upright - m) /\ -2 * Upright - n = 2 * (-Upright - m)
      BY <1>4, FollowNumbers
  <2>2. m \in Int /\ Upright - m \in Int /\ -Upright - m \in Int
      BY <1>4, FollowNumbers
  <2> QED BY <2>1, <2>2 DEF Even
<1> QED BY <1>6, <1>7 DEF n

LEMMA RaisedAimed ==
    ASSUME Aimed, NEW sign \in {-1, 1}, follow' = Raised(sign, follow)
    PROVE  Aimed'
<1> DEFINE r == follow.rise  n == r + sign * Step  up == 2 * Upright - n  down == -2 * Upright - n
           range == (1 - Upright) .. (Upright - 1)  turns == (-MaxTurned) .. MaxTurned
<1>1. /\ follow \in [rise : range, turned : turns, flipped : BOOLEAN]
      /\ r \in range /\ Even(r)
    BY DEF Aimed, FollowTypeOK
<1>2. /\ n > Upright => up \in range /\ Even(up)
      /\ n < -Upright => down \in range /\ Even(down)
      /\ ~(n > Upright) /\ ~(n < -Upright) => n \in range /\ Even(n)
    BY <1>1, RaisedWhere
<1>3. \E m \in range, f \in BOOLEAN :
        Even(m) /\ follow' = [follow EXCEPT !.rise = m, !.flipped = f]
  <2>0. (~follow.flipped) \in BOOLEAN /\ follow.flipped \in BOOLEAN
      BY <1>1
  <2>1. CASE n > Upright
    <3>1. follow' = [follow EXCEPT !.rise = up, !.flipped = ~follow.flipped]
        BY <2>1 DEF Raised
    <3>2. up \in range /\ Even(up)
        BY <1>2, <2>1
    <3> HIDE DEF up, range
    <3> QED BY <2>0, <3>1, <3>2
  <2>2. CASE ~(n > Upright) /\ n < -Upright
    <3>1. follow' = [follow EXCEPT !.rise = down, !.flipped = ~follow.flipped]
        BY <2>2 DEF Raised
    <3>2. down \in range /\ Even(down)
        BY <1>2, <2>2
    <3> HIDE DEF down, range
    <3> QED BY <2>0, <3>1, <3>2
  <2>3. CASE ~(n > Upright) /\ ~(n < -Upright)
    <3>1. follow' = [follow EXCEPT !.rise = n]
        BY <2>3 DEF Raised
    <3>2. n \in range /\ Even(n)
        BY <1>2, <2>3
    <3> HIDE DEF n, range, turns
    <3>3. [follow EXCEPT !.rise = n] = [follow EXCEPT !.rise = n, !.flipped = follow.flipped]
        BY <1>1
    <3> QED BY <2>0, <3>1, <3>2, <3>3
  <2> QED BY <2>1, <2>2, <2>3
<1>4. PICK m \in range, f \in BOOLEAN :
        Even(m) /\ follow' = [follow EXCEPT !.rise = m, !.flipped = f]
    BY <1>3
<1> HIDE DEF range, turns
<1>5. follow' \in [rise : range, turned : turns, flipped : BOOLEAN] /\ follow'.rise = m
    BY <1>1, <1>4
<1> QED BY <1>4, <1>5 DEF Aimed, FollowTypeOK, range, turns

LEMMA AimedNext == Aimed /\ [FollowNext]_follow => Aimed'
<1> SUFFICES ASSUME Aimed, [FollowNext]_follow PROVE Aimed'
    OBVIOUS
<1>1. CASE UNCHANGED follow
    BY <1>1 DEF Aimed, FollowTypeOK
<1>2. ASSUME NEW sign \in {-1, 1}, follow' = Raised(sign, follow) PROVE Aimed'
    BY <1>2, RaisedAimed
<1>3. ASSUME NEW sign \in {-1, 1}, follow' = Aside(sign, follow),
             follow'.turned \in (-MaxTurned) .. MaxTurned
      PROVE  Aimed'
  <2> DEFINE range == (1 - Upright) .. (Upright - 1)  turns == (-MaxTurned) .. MaxTurned
             n == follow.turned + sign
  <2>1. /\ follow \in [rise : range, turned : turns, flipped : BOOLEAN]
        /\ follow' = [follow EXCEPT !.turned = n] /\ follow'.turned \in turns
      BY <1>3 DEF Aimed, FollowTypeOK, Aside
  <2> HIDE DEF range, turns, n
  <2>2. n \in turns
      BY <2>1
  <2>3. follow' \in [rise : range, turned : turns, flipped : BOOLEAN]
        /\ follow'.rise = follow.rise
      BY <2>1, <2>2
  <2> QED BY <2>3 DEF Aimed, FollowTypeOK, range, turns
<1> QED BY <1>1, <1>2, <1>3 DEF FollowNext

\* However often the direction is turned up, down, over the top or aside, it is never
\* vertical, where the axis of the next turn would have the length zero: for any turn
\* that is even in units in which a quarter is odd.
THEOREM FollowTypeOKAlways == FollowSpec => []FollowTypeOK
<1>1. Aimed => FollowTypeOK
    BY DEF Aimed
<1> QED BY <1>1, AimedInit, AimedNext, PTL DEF FollowSpec

(***************************************************************************)
(* The parts of the display together: what is proved of each by itself is   *)
(* so in every behaviour of DisplaySpec.                                    *)
(***************************************************************************)

LEMMA PartsStep ==
    [DisplayNext]_displayVars =>
        /\ [ViewNext]_viewVars /\ [PitchNext]_pitchVars /\ [TurnNext]_turnVars
        /\ [ModesNext]_cam /\ [FollowNext]_follow /\ [CourseNext]_courseVars
        /\ [GlNext]_glVars /\ [MessageNext]_messageVars /\ [QueueNext]_queueVars
<1> SUFFICES ASSUME [DisplayNext]_displayVars
             PROVE  /\ [ViewNext]_viewVars /\ [PitchNext]_pitchVars /\ [TurnNext]_turnVars
                    /\ [ModesNext]_cam /\ [FollowNext]_follow /\ [CourseNext]_courseVars
                    /\ [GlNext]_glVars /\ [MessageNext]_messageVars /\ [QueueNext]_queueVars
    OBVIOUS
<1> USE DEF Rest
<1>1. CASE ViewNext /\ Watch
    BY <1>1 DEF Watch
<1>2. CASE PitchNext /\ Tilt
    BY <1>2 DEF Tilt
<1>3. CASE TurnNext /\ Rove
    BY <1>3 DEF Rove
<1>4. CASE ModesNext /\ Switch
    BY <1>4 DEF Switch
<1>5. CASE FollowNext /\ Orbit
    BY <1>5 DEF Orbit
<1>6. CASE CourseNext /\ Tour
    BY <1>6 DEF Tour
<1>7. CASE GlNext /\ Draw
    BY <1>7 DEF Draw
<1>8. CASE MessageNext /\ Tell
    BY <1>8 DEF Tell
<1>9. CASE QueueNext /\ Turnover
    BY <1>9 DEF Turnover
<1>10. CASE UNCHANGED displayVars
    BY <1>10 DEF displayVars
<1> QED BY <1>1, <1>2, <1>3, <1>4, <1>5, <1>6, <1>7, <1>8, <1>9, <1>10 DEF DisplayNext

\* The looks of the modes, with the room that the camera has.
ModesTyped == cam \in Looks /\ ModesTypeOK

LEMMA ModesTypedAlways == ModesSpec => []ModesTyped
<1>1. ModesInit => ModesTyped
  <2>1. ModesInit => cam.at = 0 /\ cam.to = 0 /\ 0 \in Places
      BY RoomAssumption DEF ModesInit, Places
  <2> QED BY <2>1, LooksInit DEF ModesTyped, ModesTypeOK, Looks, Cameras
<1>2. ModesTyped /\ [ModesNext]_cam => ModesTyped'
  <2> SUFFICES ASSUME ModesTyped, [ModesNext]_cam PROVE ModesTyped'
      OBVIOUS
  <2>1. cam' \in Looks
      BY LooksNext DEF ModesTyped
  <2>2. cam'.at \in Places /\ cam'.to \in Places
      BY DEF ModesTyped, ModesTypeOK, ModesNext, InRoom
  <2> QED BY <2>1, <2>2 DEF ModesTyped, ModesTypeOK, Looks, Cameras
<1> QED BY <1>1, <1>2, PTL DEF ModesSpec

LEMMA TiltedAlways == PitchSpec => []Tilted
<1>1. Tilted /\ [PitchNext]_pitchVars => Tilted'
    BY DragKeepsTilted, OthersKeepTilted DEF PitchNext
<1> QED BY <1>1, TiltedInit, PTL DEF PitchSpec

\* The run's own type: every variable of every part has its type, whatever part a
\* behaviour is about.
THEOREM DisplayTyping == DisplaySpec => []TypeOK
<1>1. DisplayInit => /\ ViewInit /\ PitchInit /\ TurnInit /\ ModesInit
                     /\ FollowInit /\ CourseInit /\ GlInit
    BY DEF DisplayInit
<1>2. DisplaySpec => []ViewTypeOK
    BY <1>1, PartsStep, ViewTypeInit, ViewTypeNext, PTL DEF DisplaySpec
<1>3. DisplaySpec => PitchSpec /\ TurnSpec /\ ModesSpec
    BY <1>1, PartsStep, PTL DEF DisplaySpec, PitchSpec, TurnSpec, ModesSpec
<1>4. DisplaySpec => FollowSpec /\ CourseSpec /\ GlSpec
    BY <1>1, PartsStep, PTL DEF DisplaySpec, FollowSpec, CourseSpec, GlSpec
<1>5. Tilted => PitchTypeOK
    BY DEF Tilted
<1>6. ModesTyped => ModesTypeOK
    BY DEF ModesTyped
<1> QED BY <1>2, <1>3, <1>4, <1>5, <1>6, TiltedAlways, TurnTypeOKAlways, ModesTypedAlways,
           FollowTypeOKAlways, CourseTypeOKAlways, GlTypeOKAlways, PTL DEF TypeOK

\* The run's own specification: whatever part of the display a behaviour is about, the
\* properties that are proved of the parts hold of it.
THEOREM DisplaySafety ==
    DisplaySpec =>
        /\ [](WithinRadian /\ KeysMoveAsSeen /\ LooksByMode /\ ShownAlongNose)
        /\ [](LossCostsOneShape /\ CutItemsLeftOut /\ KeepsInOrder)
        /\ DragsAddUp /\ DrivesAsShown
<1>1. DisplayInit => /\ PitchInit /\ TurnInit /\ ModesInit /\ CourseInit
                     /\ MessageInit /\ QueueInit
    BY DEF DisplayInit
<1>2. DisplaySpec => PitchSpec /\ TurnSpec /\ ModesSpec
    BY <1>1, PartsStep, PTL DEF DisplaySpec, PitchSpec, TurnSpec, ModesSpec
<1>3. DisplaySpec => CourseSpec /\ MessageSpec /\ QueueSpec
    BY <1>1, PartsStep, PTL DEF DisplaySpec, CourseSpec, MessageSpec, QueueSpec
<1>4. DisplaySpec => [](WithinRadian /\ KeysMoveAsSeen /\ LooksByMode /\ ShownAlongNose)
    BY <1>2, <1>3, WithinRadianAlways, KeysMoveAsSeenAlways, LooksByModeAlways,
       ShownAlongNoseAlways, PTL
<1>5. DisplaySpec => [](LossCostsOneShape /\ CutItemsLeftOut /\ KeepsInOrder)
    BY <1>3, LossCostsOneShapeAlways, CutItemsLeftOutAlways, KeepsInOrderAlways, PTL
<1>6. DisplaySpec => DragsAddUp /\ DrivesAsShown
    BY <1>2, <1>3, DragsAddUpAlways, DrivesAsShownAlways
<1> QED BY <1>4, <1>5, <1>6
===================================================================================
