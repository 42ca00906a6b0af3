------------------------------ MODULE AxisProofs ------------------------------
(***************************************************************************)
(* Proofs about DriveAxis, for any limits, gains and times of a frame: the  *)
(* axis never rests within its dead band, and what Stops and Drives rest    *)
(* on, that every frame brings it nearer to where it goes.                  *)
(***************************************************************************)
EXTENDS DriveAxis, TLAPS

\* The share of the way, in thousandths, that a frame of this time covers.
Share(dt) == dt * Gain

\* Where a frame takes the axis before its limits and its dead band are looked at.
Toward(v, c, g) == v + ((c - v) * g) \div 1000

Settled(v) == v = 0 \/ Abs(v) >= Dead

AxisTypeOK ==
    /\ keys \subseteq {"more", "less"} /\ tapped \subseteq {"more", "less"}
    /\ focus \in {"console", "display"}
    /\ up \in BOOLEAN /\ odd \in BOOLEAN
    /\ word \in {-Limit, 0, Limit}
    /\ value \in (-Limit) .. Limit

\* Vehicle::update keeps what is read within the limits and out of the dead band.
Kept == AxisTypeOK /\ Settled(value)

LEMMA UpdateIs ==
    ASSUME NEW v \in Int, NEW c \in Int, NEW dt \in Dts
    PROVE  /\ Share(dt) \in Nat /\ Toward(v, c, Share(dt)) \in Int
           /\ Update(v, c, dt) =
                LET moved == Clamp(Toward(v, c, Share(dt)))
                IN  IF Abs(moved) < Dead THEN 0 ELSE moved
<1>1. dt \in Nat /\ Gain \in Nat
    BY AxisAssumption
<1>2. (c - v) * dt * Gain = (c - v) * Share(dt) /\ Share(dt) \in Nat
    BY <1>1 DEF Share
<1>3. (c - v) * Share(dt) \in Int
    BY <1>2
<1>4. ((c - v) * Share(dt)) \div 1000 \in Int
    BY <1>3
<1> QED BY <1>2, <1>4 DEF Update, Toward

LEMMA UpdateWithin ==
    ASSUME NEW v \in Int, NEW c \in Int, NEW dt \in Dts
    PROVE  Update(v, c, dt) \in (-Limit) .. Limit /\ Settled(Update(v, c, dt))
<1> DEFINE m == Toward(v, c, Share(dt))
<1>1. m \in Int /\ Update(v, c, dt) = IF Abs(Clamp(m)) < Dead THEN 0 ELSE Clamp(m)
    BY UpdateIs
<1> HIDE DEF m
<1> QED BY <1>1, AxisAssumption DEF Clamp, Abs, Settled

LEMMA KeptInit == Init => Kept
<1> SUFFICES ASSUME Init PROVE Kept
    OBVIOUS
<1>1. 0 \in (-Limit) .. Limit
    BY AxisAssumption
<1> QED BY <1>1 DEF Init, Kept, AxisTypeOK, Settled

LEMMA KeptNext == Kept /\ [Next]_vars => Kept'
<1> SUFFICES ASSUME Kept, [Next]_vars PROVE Kept'
    OBVIOUS
<1>0. AxisTypeOK /\ Settled(value)
    BY DEF Kept
<1>1. CASE \E k \in {"more", "less"} : Press(k) \/ Release(k)
    BY <1>0, <1>1 DEF Press, Release, Kept, AxisTypeOK, Settled
<1>2. CASE Focus \/ Start \/ End \/ UNCHANGED vars
    BY <1>0, <1>2 DEF Focus, Start, End, vars, keyboard, Kept, AxisTypeOK, Settled
<1>3. CASE Turn
  <2>1. word' \in {-Limit, 0, Limit} /\ tapped' \subseteq {"more", "less"}
    BY <1>0, <1>3 DEF Turn, Command, AxisTypeOK
  <2> QED BY <1>0, <1>3, <2>1 DEF Turn, Kept, AxisTypeOK, Settled
<1>4. CASE Frame
  <2>1. PICK dt \in Dts : value' = Update(value, word, dt)
    BY <1>4 DEF Frame
  <2>2. value \in Int /\ word \in Int
    BY <1>0, AxisAssumption DEF AxisTypeOK
  <2>3. value' \in (-Limit) .. Limit /\ Settled(value')
    BY <2>1, <2>2, UpdateWithin
  <2> QED BY <1>0, <1>4, <2>3 DEF Frame, keyboard, Kept, AxisTypeOK, Settled
<1> QED BY <1>1, <1>2, <1>3, <1>4 DEF Next

\* Vehicle.cpp, update: whatever the commands and however the frames are timed, the axis
\* stays within its limits and never creeps: it stands still or is out of the dead band.
THEOREM NeverCreeps == Spec => [](AxisTypeOK /\ Settled(value))
BY KeptInit, KeptNext, PTL DEF Spec, Kept

(***************************************************************************)
(* Towards standstill and towards the limit.  A frame must not be so long   *)
(* that a step overshoots by nearly all of the way, nor so short that a     *)
(* step is rounded to nothing or that the first one from standstill ends    *)
(* within the dead band.                                                   *)
(***************************************************************************)
Slows(dt) == Dead * Share(dt) >= 1000 /\ Dead * (2000 - Share(dt)) >= 1000
Starts(dt) == Limit * Share(dt) >= 1000 * Dead /\ (Limit \div 10) * Share(dt) >= 1000

\* A larger number times the same is larger.
LEMMA Grows ==
    ASSUME NEW a \in Int, NEW b \in Int, NEW k \in Nat, a <= b
    PROVE  a * k \in Int /\ b * k \in Int /\ a * k <= b * k
<1>1. b * k - a * k = (b - a) * k /\ b - a \in Nat
    OBVIOUS
<1>2. (b - a) * k \in Nat
    BY <1>1
<1> QED BY <1>1, <1>2

LEMMA Floor ==
    ASSUME NEW a \in Int
    PROVE  a \div 1000 \in Int /\ 1000 * (a \div 1000) <= a /\ a < 1000 * (a \div 1000) + 1000
OBVIOUS

LEMMA TowardsRest ==
    ASSUME NEW v \in (-Limit) .. Limit, Abs(v) >= Dead, NEW dt \in Dts, Slows(dt)
    PROVE  Abs(Toward(v, 0, Share(dt))) < Abs(v)
<1> DEFINE g == Share(dt)  e == 2000 - Share(dt)
<1>1. /\ g \in Nat /\ e \in Int /\ g + e = 2000 /\ Dead \in Nat /\ v \in Int
      /\ Dead * g >= 1000 /\ Dead * e >= 1000
  <2>1. v \in Int /\ Dead \in Nat
      BY AxisAssumption
  <2>2. Share(dt) \in Nat
      BY <2>1, UpdateIs
  <2> QED BY <2>1, <2>2 DEF Slows
<1> HIDE DEF g, e
<1>2. e \in Nat
  <2>1. CASE e < 0
    <3>1. -e \in Nat /\ Dead * (-e) >= 0
        BY <1>1, <2>1
    <3> QED BY <1>1, <3>1
  <2> QED BY <1>1, <2>1
<1>3. Abs(v) \in Nat /\ Dead * g <= Abs(v) * g /\ Dead * e <= Abs(v) * e
  <2>1. Abs(v) \in Nat
      BY <1>1 DEF Abs
  <2> QED BY <1>1, <1>2, <2>1, Grows
<1>4. Abs(v) * g + Abs(v) * e = 2000 * Abs(v)
  <2>1. Abs(v) * g + Abs(v) * e = Abs(v) * (g + e)
      BY <1>1, <1>2, <1>3
  <2> QED BY <1>1, <1>3, <2>1
<1> DEFINE a == (0 - v) * g
<1>5. a \in Int /\ (v >= 0 => a = -(Abs(v) * g)) /\ (v <= 0 => a = Abs(v) * g)
    BY <1>1 DEF Abs
<1> DEFINE w == Abs(v) * g  x == Abs(v) * e
<1>6. w \in Int /\ x \in Int /\ w >= 1000 /\ x >= 1000 /\ w + x = 2000 * Abs(v)
    BY <1>1, <1>2, <1>3, <1>4
<1> HIDE DEF a, w, x
<1>7. /\ a \div 1000 \in Int
      /\ 1000 * (a \div 1000) <= a /\ a < 1000 * (a \div 1000) + 1000
    BY <1>5, Floor
<1>8. CASE v >= 0
    BY <1>1, <1>5, <1>6, <1>7, <1>8 DEF Toward, Abs, a, w, g
<1>9. CASE v <= 0
    BY <1>1, <1>5, <1>6, <1>7, <1>9 DEF Toward, Abs, a, w, g
<1> QED BY <1>1, <1>8, <1>9

LEMMA TowardsLimit ==
    ASSUME NEW v \in (-Limit) .. Limit, NEW dt \in Dts, Starts(dt)
    PROVE  /\ Toward(v, Limit, Share(dt)) >= v
           /\ v < Limit - Limit \div 10 => Toward(v, Limit, Share(dt)) > v
           /\ Toward(0, Limit, Share(dt)) >= Dead
<1> DEFINE g == Share(dt)
<1>1. v \in Int /\ Limit \in Nat /\ Dead \in Nat /\ Limit \div 10 \in Nat
    BY AxisAssumption
<1>2. g \in Nat
    BY <1>1, UpdateIs
<1>3. Limit * g >= 1000 * Dead /\ (Limit \div 10) * g >= 1000
    BY DEF Starts
<1> HIDE DEF g
<1> DEFINE a == (Limit - v) * g
<1>4. Limit - v \in Nat /\ a \in Nat
    BY <1>1, <1>2
<1>5. v < Limit - Limit \div 10 => a >= 1000
  <2>1. ASSUME v < Limit - Limit \div 10 PROVE (Limit \div 10) * g <= (Limit - v) * g
      BY <1>1, <1>2, <2>1, Grows
  <2>2. (Limit \div 10) * g \in Int
      BY <1>1, <1>2
  <2> QED BY <1>3, <1>4, <2>1, <2>2
<1> HIDE DEF a
<1>6. Toward(v, Limit, Share(dt)) >= v /\ (a >= 1000 => Toward(v, Limit, Share(dt)) > v)
  <2>1. a \div 1000 \in Nat /\ (a >= 1000 => a \div 1000 >= 1)
      BY <1>4
  <2>2. Toward(v, Limit, Share(dt)) = v + a \div 1000
      BY DEF Toward, a, g
  <2> HIDE DEF a
  <2> QED BY <1>1, <2>1, <2>2
<1> DEFINE b == Limit * g
<1>7. b \in Nat /\ b >= 1000 * Dead
    BY <1>1, <1>2, <1>3
<1>8. Toward(0, Limit, Share(dt)) = 0 + b \div 1000
    BY <1>1 DEF Toward, g
<1> HIDE DEF b
<1>9. Toward(0, Limit, Share(dt)) >= Dead
    BY <1>1, <1>7, <1>8
<1> QED BY <1>5, <1>6, <1>9

\* Every frame that meets the command to stop brings the axis nearer to a standstill.
SlowsDown ==
    [][word = 0 /\ odd' # odd => value' = 0 \/ Abs(value') < Abs(value)]_vars

\* No frame that meets the command of a key takes the axis away from its limit, and
\* each brings it nearer unless it is near already.
SpeedsUp ==
    [][word = Limit /\ odd' # odd => value' >= value /\ (value' > value \/ NearLimit)]_vars

LEMMA FrameSlows ==
    ASSUME \A dt \in Dts : Slows(dt), Kept, Frame, word = 0
    PROVE  value' = 0 \/ Abs(value') < Abs(value)
<1>1. PICK dt \in Dts : value' = Update(value, 0, dt)
    BY DEF Frame
<1> DEFINE m == Toward(value, 0, Share(dt))
<1>2. /\ value \in (-Limit) .. Limit /\ value \in Int /\ Limit \in Nat /\ Dead \in Nat
      /\ value = 0 \/ Abs(value) >= Dead
    BY AxisAssumption DEF Kept, AxisTypeOK, Settled
<1>3. m \in Int /\ Share(dt) \in Nat
      /\ value' = IF Abs(Clamp(m)) < Dead THEN 0 ELSE Clamp(m)
    BY <1>1, <1>2, UpdateIs
<1>4. CASE value = 0
  <2>1. (0 - 0) * Share(dt) = 0
      BY <1>3
  <2>2. m = 0
      BY <1>4, <2>1 DEF Toward
  <2> HIDE DEF m
  <2> QED BY <1>2, <1>3, <2>2 DEF Clamp, Abs
<1>5. CASE value # 0
  <2>1. Abs(m) < Abs(value)
      BY <1>2, <1>5, TowardsRest
  <2> HIDE DEF m
  <2> QED BY <1>2, <1>3, <2>1 DEF Clamp, Abs
<1> QED BY <1>4, <1>5

LEMMA FrameSpeedsUp ==
    ASSUME \A dt \in Dts : Starts(dt), Kept, Frame, word = Limit
    PROVE  value' >= value /\ (value' > value \/ NearLimit)
<1>1. PICK dt \in Dts : value' = Update(value, Limit, dt)
    BY DEF Frame
<1> DEFINE m == Toward(value, Limit, Share(dt))
<1>2. /\ value \in (-Limit) .. Limit /\ value \in Int /\ Limit \in Nat /\ Dead \in Nat
      /\ value = 0 \/ Abs(value) >= Dead
    BY AxisAssumption DEF Kept, AxisTypeOK, Settled
<1>3. m \in Int /\ value' = IF Abs(Clamp(m)) < Dead THEN 0 ELSE Clamp(m)
    BY <1>1, <1>2, UpdateIs
<1>4. m >= value /\ (m > value \/ NearLimit) /\ (value = 0 => m >= Dead)
    BY <1>2, TowardsLimit DEF NearLimit
<1> HIDE DEF m
<1>5. Dead <= Limit
    BY AxisAssumption
<1>6. CASE value > 0
    BY <1>2, <1>3, <1>4, <1>5, <1>6 DEF Clamp, Abs, NearLimit
<1>7. CASE value = 0
    BY <1>2, <1>3, <1>4, <1>5, <1>7 DEF Clamp, Abs, NearLimit
<1>8. CASE value < 0
    BY <1>2, <1>3, <1>4, <1>5, <1>8 DEF Clamp, Abs, NearLimit
<1> QED BY <1>2, <1>6, <1>7, <1>8

\* Only a frame changes odd.
LEMMA OddIsFrame == Kept /\ [Next]_vars /\ odd' # odd => Frame
BY DEF Next, Press, Release, Focus, Start, End, Turn, vars

\* Vehicle.cpp, update: with the command to stop the axis takes at most as many frames
\* as it has values, however they are timed: a step that overshoots the standstill ends
\* nearer to it on its other side.  This is what Stops rests on.
THEOREM SlowsDownAlways == ASSUME \A dt \in Dts : Slows(dt) PROVE Spec => SlowsDown
<1>1. Kept /\ [Next]_vars
        => [word = 0 /\ odd' # odd => value' = 0 \/ Abs(value') < Abs(value)]_vars
    BY FrameSlows, OddIsFrame
<1> QED BY <1>1, KeptInit, KeptNext, PTL DEF Spec, SlowsDown

\* Vehicle.cpp, update: with a key held the first step leaves the dead band, and no frame,
\* late or early, ever takes back what an earlier one has reached.  This is what Drives
\* rests on.
THEOREM SpeedsUpAlways == ASSUME \A dt \in Dts : Starts(dt) PROVE Spec => SpeedsUp
<1>1. Kept /\ [Next]_vars
        => [word = Limit /\ odd' # odd => value' >= value /\ (value' > value \/ NearLimit)]_vars
    BY FrameSpeedsUp, OddIsFrame
<1> QED BY <1>1, KeptInit, KeptNext, PTL DEF Spec, SpeedsUp
==============================================================================
