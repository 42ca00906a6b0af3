------------------------------ MODULE CameraProofs ------------------------------
(***************************************************************************)
(* What is proved of the display's camera: its vectors and quaternions for  *)
(* all integer components, its turns and keys at every heading and level,   *)
(* its pitch for any limits and drags, its approach and its view modes for  *)
(* any unit of length.                                                      *)
(***************************************************************************)
EXTENDS Turning, Pitch, ViewModes, FiniteSetTheorems, FunctionTheorems, TLAPS

(***************************************************************************)
(* Vectors and quaternions: identities of polynomials in the components.    *)
(***************************************************************************)

LEMMA MulType ==
    ASSUME NEW p \in Quaternion, NEW q \in Quaternion
    PROVE  Mul(p, q) \in Quaternion
BY DEF Mul, Q, Quaternion

LEMMA ConjugateType ==
    ASSUME NEW q \in Quaternion
    PROVE  Conjugate(q) \in Quaternion /\ Norm2(Conjugate(q)) = Norm2(q)
BY DEF Conjugate, Q, Quaternion, Norm2

LEMMA NormOfMul ==
    ASSUME NEW p \in Quaternion, NEW q \in Quaternion
    PROVE  Norm2(Mul(p, q)) = Norm2(p) * Norm2(q)
<1> DEFINE a == p.x  b == p.y  c == p.z  d == p.w
           e == q.x  f == q.y  g == q.z  h == q.w
           mx == d*e + a*h + b*g - c*f
           my == d*f - a*g + b*h + c*e
           mz == d*g + a*f - b*e + c*h
           mw == d*h - a*e - b*f - c*g
<1>1. /\ a \in Int /\ b \in Int /\ c \in Int /\ d \in Int
      /\ e \in Int /\ f \in Int /\ g \in Int /\ h \in Int
    BY DEF Quaternion
<1>2. Norm2(Mul(p, q)) = mx*mx + my*my + mz*mz + mw*mw
    BY DEF Norm2, Mul, Q
<1>3. Norm2(p) * Norm2(q) = (a*a + b*b + c*c + d*d) * (e*e + f*f + g*g + h*h)
    BY DEF Norm2
<1> HIDE DEF a, b, c, d, e, f, g, h
<1>4. mx*mx + my*my + mz*mz + mw*mw
      = (a*a + b*b + c*c + d*d) * (e*e + f*f + g*g + h*h)
    BY <1>1
<1> QED BY <1>2, <1>3, <1>4

LEMMA ScalarOfRotate ==
    ASSUME NEW q \in Quaternion, NEW v \in Vector
    PROVE  Mul(Mul(q, Pure(v)), Conjugate(q)).w = 0
<1> DEFINE a == q.x  b == q.y  c == q.z  d == q.w
           e == v.x  f == v.y  g == v.z  h == 0
           mx == d*e + a*h + b*g - c*f
           my == d*f - a*g + b*h + c*e
           mz == d*g + a*f - b*e + c*h
           mw == d*h - a*e - b*f - c*g
<1>1. /\ a \in Int /\ b \in Int /\ c \in Int /\ d \in Int
      /\ e \in Int /\ f \in Int /\ g \in Int
    BY DEF Quaternion, Vector
<1>2. Mul(Mul(q, Pure(v)), Conjugate(q)).w = mw*d - mx*(-a) - my*(-b) - mz*(-c)
    BY DEF Mul, Q, Pure, Conjugate
<1> HIDE DEF a, b, c, d, e, f, g
<1>3. mw*d - mx*(-a) - my*(-b) - mz*(-c) = 0
    BY <1>1
<1> QED BY <1>2, <1>3

\* rotateCameraAxis neither shortens nor lengthens the direction: the turned vector
\* is exactly Norm2(q) times as long, for every quaternion and every direction.
THEOREM RotateKeepsLength ==
    ASSUME NEW q \in Quaternion, NEW v \in Vector
    PROVE  Dot(Rotate(q, v), Rotate(q, v)) = Norm2(q) * Dot(v, v) * Norm2(q)
<1> DEFINE r == Mul(Mul(q, Pure(v)), Conjugate(q))
<1>1. Pure(v) \in Quaternion /\ Norm2(Pure(v)) = Dot(v, v)
    BY DEF Pure, Q, Quaternion, Vector, Norm2, Dot
<1>2. r \in Quaternion
    BY <1>1, MulType, ConjugateType
<1>3. Norm2(r) = Norm2(q) * Dot(v, v) * Norm2(q)
    BY <1>1, MulType, ConjugateType, NormOfMul
<1>4. r.w = 0
    BY ScalarOfRotate
<1>5. Dot(Part(r), Part(r)) = Norm2(r)
  <2> HIDE DEF r
  <2> QED BY <1>2, <1>4 DEF Dot, Part, V, Norm2, Quaternion
<1> QED BY <1>3, <1>5 DEF Rotate

\* A horizontal drag, a turn about the vertical, leaves the pitch of the camera
\* alone: the height of the direction is only scaled as its length is.
THEOREM UprightTurnKeepsPitch ==
    ASSUME NEW s \in Int, NEW c \in Int, NEW v \in Vector
    PROVE  LET q == HalfTurn(V(0, 1, 0), s, c)
           IN  Rotate(q, v).y = Norm2(q) * v.y
<1> DEFINE e == v.x  f == v.y  g == v.z  q == HalfTurn(V(0, 1, 0), s, c)
<1>1. e \in Int /\ f \in Int /\ g \in Int
    BY DEF Vector
<1>2. q = Q(0, s, 0, c)
    BY DEF HalfTurn, V, Q
<1>3. Norm2(q) * f = (s*s + c*c) * f
    BY <1>2 DEF Norm2, Q
<1>4. Mul(q, Pure(v)) = Q(c*e + s*g, c*f, c*g - s*e, -(s*f))
    BY <1>1, <1>2 DEF Mul, Pure, Q
<1>5. Conjugate(q) = Q(0, -s, 0, c)
    BY <1>2 DEF Conjugate, Q
<1> HIDE DEF e, f, g, q
<1>6. Mul(Q(c*e + s*g, c*f, c*g - s*e, -(s*f)), Q(0, -s, 0, c)).y
      = (-(s*f)) * (-s) - (c*e + s*g) * 0 + (c*f) * c + (c*g - s*e) * 0
    BY DEF Mul, Q
<1>7. (-(s*f)) * (-s) - (c*e + s*g) * 0 + (c*f) * c + (c*g - s*e) * 0
      = (s*s + c*c) * f
    BY <1>1
<1>8. Rotate(q, v).y = Mul(Mul(q, Pure(v)), Conjugate(q)).y
    BY DEF Rotate, Part, V
<1>9. Rotate(q, v).y = Norm2(q) * f
    BY <1>3, <1>4, <1>5, <1>6, <1>7, <1>8
<1> QED BY <1>9 DEF q, f

LEMMA CrossType ==
    ASSUME NEW u \in Vector, NEW v \in Vector
    PROVE  Cross(u, v) \in Vector
BY DEF Cross, V, Vector

LEMMA CrossIsOrthogonal ==
    ASSUME NEW u \in Vector, NEW v \in Vector
    PROVE  Dot(Cross(u, v), u) = 0 /\ Dot(Cross(u, v), v) = 0
<1> DEFINE a == u.x  b == u.y  c == u.z  d == v.x  e == v.y  f == v.z
<1>1. a \in Int /\ b \in Int /\ c \in Int /\ d \in Int /\ e \in Int /\ f \in Int
    BY DEF Vector
<1>2. /\ Dot(Cross(u, v), u) = (b*f - c*e)*a + (c*d - a*f)*b + (a*e - b*d)*c
      /\ Dot(Cross(u, v), v) = (b*f - c*e)*d + (c*d - a*f)*e + (a*e - b*d)*f
    BY DEF Dot, Cross, V
<1> HIDE DEF a, b, c, d, e, f
<1>3. (b*f - c*e)*a + (c*d - a*f)*b + (a*e - b*d)*c = 0
    BY <1>1
<1>4. (b*f - c*e)*d + (c*d - a*f)*e + (a*e - b*d)*f = 0
    BY <1>1
<1> QED BY <1>2, <1>3, <1>4

\* strafeRight and strafeUp, for every direction the camera may look in, however
\* steep: they move across the line of sight and across each other, and strafing up
\* never goes down.
THEOREM StrafesAreAcross ==
    ASSUME NEW d \in Vector
    PROVE  LET right == Cross(d, V(0, 1, 0))
               rise == Cross(right, d)
           IN  /\ Dot(right, d) = 0 /\ Dot(rise, d) = 0 /\ Dot(rise, right) = 0
               /\ rise.y = Dot(right, right)
<1> DEFINE up == V(0, 1, 0)  right == Cross(d, up)  rise == Cross(right, d)
<1>1. up \in Vector
    BY DEF V, Vector
<1>2. right \in Vector /\ rise \in Vector
    BY <1>1, CrossType
<1>3. Dot(right, d) = 0 /\ Dot(rise, d) = 0 /\ Dot(rise, right) = 0
  <2> HIDE DEF up, right
  <2>1. Dot(Cross(d, up), d) = 0
      BY <1>1, CrossIsOrthogonal
  <2>2. Dot(rise, d) = 0 /\ Dot(rise, right) = 0
      BY <1>2, CrossIsOrthogonal
  <2> QED BY <2>1, <2>2 DEF right
<1>4. right = V(-d.z, 0, d.x)
    BY DEF Cross, V, Vector
<1>5. rise.y = d.x * d.x + d.z * d.z
  <2>1. rise.y = d.x * d.x - (-d.z) * d.z
      BY <1>4 DEF Cross, V
  <2> QED BY <2>1 DEF Vector
<1>6. Dot(right, right) = d.x * d.x + d.z * d.z
    BY <1>4 DEF Dot, V, Vector
<1> QED BY <1>3, <1>5, <1>6

(***************************************************************************)
(* Turns and keys.  Every direction that the camera can get is one of       *)
(* twelve, four courses on three levels, and is given in exact components:  *)
(* the drags and keys are then computed with these.                         *)
(***************************************************************************)

LEMMA DivExact ==
    ASSUME NEW b \in Nat \ {0}, NEW k \in Int
    PROVE  (k * b) \div b = k
<1>1. k * b = b * k + 0
    OBVIOUS
<1> QED BY <1>1, Z3

\* Directions are made of this part of their length.
Part25 == Span \div 25

LEMMA PartOfSpan == Part25 \in Nat \ {0} /\ Span = 25 * Part25
BY FrustumAssumption, TurnAssumption DEF Part25

Along(l) == IF l = 0 THEN 25 * Part25 ELSE 20 * Part25
High(l) == 15 * l * Part25
Ex(h) == IF h = 3 THEN 1 ELSE IF h = 1 THEN -1 ELSE 0
Ez(h) == IF h = 0 THEN 1 ELSE IF h = 2 THEN -1 ELSE 0

LEMMA DirectionIs ==
    ASSUME NEW h \in 0 .. 3, NEW l \in Steps
    PROVE  /\ Direction(h, l) = V(Along(l) * Ex(h), High(l), Along(l) * Ez(h))
           /\ Courses[h + 1] = V(Ex(h), 0, Ez(h))
<1>1. l \in {-1, 0, 1} /\ Part25 \in Nat \ {0} /\ Span = 25 * Part25
    BY PartOfSpan DEF Steps
<1>2. (4 * Span) \div 5 = 20 * Part25 /\ (3 * l * Span) \div 5 = 15 * l * Part25
  <2>1. (4 * Span) \div 5 = 20 * Part25
    BY <1>1
  <2>2. CASE l = 0
    BY <1>1, <2>1, <2>2
  <2>3. CASE l = 1
    BY <1>1, <2>1, <2>3
  <2>4. CASE l = -1
    BY <1>1, <2>1, <2>4
  <2> QED BY <1>1, <2>2, <2>3, <2>4
<1>3. Courses[h + 1] = V(Ex(h), 0, Ez(h))
    BY DEF Courses, Ex, Ez
<1>4. Direction(h, l) = Plus(Times(Along(l), Courses[h + 1]), V(0, High(l), 0))
    BY <1>1, <1>2 DEF Direction, Along, High
<1>5. Along(l) \in Int /\ High(l) \in Int /\ Ex(h) \in Int /\ Ez(h) \in Int
    BY <1>1 DEF Along, High, Ex, Ez
<1> QED BY <1>3, <1>4, <1>5 DEF Plus, Times, V

\* A vector along one axis has that length.
LEMMA LengthOnAxis ==
    ASSUME NEW a \in Nat \ {0}, NEW x \in Int, NEW z \in Int,
           \/ x = 0 /\ z \in {a, -a}
           \/ z = 0 /\ x \in {a, -a}
    PROVE  Length(V(x, 0, z)) = a
<1> DEFINE v == V(x, 0, z)
<1>1. {Size(v.x), Size(v.y), Size(v.z)} = {0, a} /\ Size(v.x) + Size(v.y) + Size(v.z) = a
    BY DEF V, Size
<1>2. \A n \in {0, a} : n >= Size(v.x) /\ n >= Size(v.y) /\ n >= Size(v.z) <=> n = a
    BY DEF V, Size
<1>3. Longest(v) = a
  <2>1. Longest(v) = CHOOSE n \in {0, a} : n >= Size(v.x) /\ n >= Size(v.y) /\ n >= Size(v.z)
    BY <1>1 DEF Longest
  <2> HIDE DEF v
  <2> QED BY <1>2, <2>1
<1>4. Dot(v, v) = a * a
  <2>1. Dot(v, v) = x * x + z * z
    BY DEF Dot, V
  <2>2. CASE x = 0 /\ z = a
    BY <2>1, <2>2
  <2>3. CASE x = 0 /\ z = -a
    BY <2>1, <2>3
  <2>4. CASE z = 0 /\ x = a
    BY <2>1, <2>4
  <2>5. CASE z = 0 /\ x = -a
    BY <2>1, <2>5
  <2> QED BY <2>2, <2>3, <2>4, <2>5
<1>5. Length(v) = CHOOSE n \in a .. a : n * n = a * a
    BY <1>1, <1>3, <1>4 DEF Length
<1> QED BY <1>5

LEMMA AlongHigh ==
    ASSUME NEW l \in Steps
    PROVE  Along(l) \in Nat \ {0} /\ High(l) \in Int /\ l \in {-1, 0, 1}
BY PartOfSpan DEF Along, High, Steps

LEMMA AxesOf ==
    ASSUME NEW h \in 0 .. 3
    PROVE  \/ Ex(h) = 0 /\ Ez(h) \in {1, -1}
           \/ Ez(h) = 0 /\ Ex(h) \in {1, -1}
BY DEF Ex, Ez

\* Across the direction, to its right.
LEMMA CrossUp ==
    ASSUME NEW h \in 0 .. 3, NEW l \in Steps
    PROVE  /\ Cross(Direction(h, l), Up) = V(-(Along(l) * Ez(h)), 0, Along(l) * Ex(h))
           /\ Cross(Up, Direction(h, l)) = V(Along(l) * Ez(h), 0, -(Along(l) * Ex(h)))
<1>1. Along(l) * Ex(h) \in Int /\ Along(l) * Ez(h) \in Int /\ High(l) \in Int
    BY AlongHigh, AxesOf
<1> QED BY <1>1, DirectionIs DEF Cross, Up, V

\* A horizontal vector along one axis is normalised exactly.
LEMMA NormalisedFlat ==
    ASSUME NEW a \in Nat \ {0}, NEW n \in Int, NEW x \in {-1, 0, 1}, NEW z \in {-1, 0, 1},
           \/ x = 0 /\ z \in {1, -1}
           \/ z = 0 /\ x \in {1, -1}
    PROVE  Normalised(V(a * x, 0, a * z), n) = V(n * x, 0, n * z)
<1>1. Length(V(a * x, 0, a * z)) = a
  <2> DEFINE p == a * x  q == a * z
  <2>1. /\ p \in Int /\ q \in Int
       /\ \/ p = 0 /\ q \in {a, -a}
          \/ q = 0 /\ p \in {a, -a}
      OBVIOUS
  <2> HIDE DEF p, q
  <2>2. Length(V(p, 0, q)) = a
      BY <2>1, LengthOnAxis
  <2> QED BY <2>2 DEF p, q
<1>2. Times(n, V(a * x, 0, a * z)) = V((n * x) * a, 0 * a, (n * z) * a)
    BY DEF Times, V
<1>3. ((n * x) * a) \div a = n * x /\ ((n * z) * a) \div a = n * z /\ (0 * a) \div a = 0
  <2> DEFINE p == n * x  q == n * z
  <2>1. p \in Int /\ q \in Int
      OBVIOUS
  <2> HIDE DEF p, q
  <2>2. (p * a) \div a = p /\ (q * a) \div a = q /\ (0 * a) \div a = 0
      BY <2>1, DivExact
  <2> QED BY <2>2 DEF p, q
<1> QED BY <1>1, <1>2, <1>3 DEF Normalised, Over, V

LEMMA Sideways ==
    ASSUME NEW h \in 0 .. 3, NEW l \in Steps, NEW n \in Int
    PROVE  /\ Normalised(Cross(Direction(h, l), Up), n) = V(n * (-Ez(h)), 0, n * Ex(h))
           /\ Normalised(Cross(Up, Direction(h, l)), n) = V(n * Ez(h), 0, n * (-Ex(h)))
<1> DEFINE a == Along(l)  x == Ex(h)  z == Ez(h)
<1>1. /\ a \in Nat \ {0}
      /\ \/ x = 0 /\ z \in {1, -1}
         \/ z = 0 /\ x \in {1, -1}
    BY AlongHigh, AxesOf
<1>2. /\ Cross(Direction(h, l), Up) = V(-(a * z), 0, a * x)
      /\ Cross(Up, Direction(h, l)) = V(a * z, 0, -(a * x))
    BY CrossUp
<1> HIDE DEF a, x, z
<1>3. -(a * z) = a * (-z) /\ -(a * x) = a * (-x)
      /\ {x, z, -x, -z} \subseteq {-1, 0, 1}
    BY <1>1
<1>4. /\ Normalised(V(a * (-z), 0, a * x), n) = V(n * (-z), 0, n * x)
      /\ Normalised(V(a * z, 0, a * (-x)), n) = V(n * z, 0, n * (-x))
    BY <1>1, <1>3, NormalisedFlat
<1> QED BY <1>2, <1>3, <1>4 DEF a, x, z

\* A turn by the axis to the right, of a direction along the course of ex and ez.
TurnsUpOrDown(ex, ez, down, a, y) ==
    LET q == HalfTurn(V(-ez, 0, ex), -down, 3)
        p == (9 - down * down) * a + 6 * down * y
    IN  /\ Norm2(q) = 9 + down * down
        /\ Rotate(q, V(a * ex, y, a * ez))
           = V(p * ex, (9 - down * down) * y - 6 * down * a, p * ez)

LEMMA RotateUpOrDown ==
    ASSUME NEW ex \in {-1, 0, 1}, NEW ez \in {-1, 0, 1}, NEW down \in {-1, 0, 1},
           \/ ex = 0 /\ ez \in {1, -1}
           \/ ez = 0 /\ ex \in {1, -1},
           NEW a \in Int, NEW y \in Int
    PROVE  TurnsUpOrDown(ex, ez, down, a, y)
<1> DEFINE q == HalfTurn(V(-ez, 0, ex), -down, 3)
           r == Mul(q, Pure(V(a * ex, y, a * ez)))
           p == (9 - down * down) * a + 6 * down * y
<1>1. q = Q(ez * down, 0, -(ex * down), 3)
    BY DEF HalfTurn, V, Q
<1>2. Norm2(q) = 9 + down * down
  <2>1. Norm2(q) = (ez * down) * (ez * down) + 0 * 0 + (-(ex * down)) * (-(ex * down)) + 3 * 3
    BY <1>1 DEF Norm2, Q
  <2>2. (ez * down) * (ez * down) + 0 * 0 + (-(ex * down)) * (-(ex * down)) + 3 * 3
        = 9 + down * down
    OBVIOUS
  <2> QED BY <2>1, <2>2
<1>3. r = Q((3 * a + down * y) * ex, 3 * y - down * a, (3 * a + down * y) * ez, 0)
  <2>1. r = Q(3 * (a * ex) + (ez * down) * 0 + 0 * (a * ez) - (-(ex * down)) * y,
              3 * y - (ez * down) * (a * ez) + 0 * 0 + (-(ex * down)) * (a * ex),
              3 * (a * ez) + (ez * down) * y - 0 * (a * ex) + (-(ex * down)) * 0,
              3 * 0 - (ez * down) * (a * ex) - 0 * y - (-(ex * down)) * (a * ez))
    BY <1>1 DEF Mul, Pure, V, Q
  <2>2. /\ 3 * (a * ex) + (ez * down) * 0 + 0 * (a * ez) - (-(ex * down)) * y = (3 * a + down * y) * ex
        /\ 3 * y - (ez * down) * (a * ez) + 0 * 0 + (-(ex * down)) * (a * ex) = 3 * y - down * a
        /\ 3 * (a * ez) + (ez * down) * y - 0 * (a * ex) + (-(ex * down)) * 0 = (3 * a + down * y) * ez
        /\ 3 * 0 - (ez * down) * (a * ex) - 0 * y - (-(ex * down)) * (a * ez) = 0
    OBVIOUS
  <2> QED BY <2>1, <2>2
<1>4. Conjugate(q) = Q(-(ez * down), 0, ex * down, 3)
    BY <1>1 DEF Conjugate, Q
<1>5. Rotate(q, V(a * ex, y, a * ez)) = V(p * ex, (9 - down * down) * y - 6 * down * a, p * ez)
  <2> DEFINE g == 3 * a + down * y  f == 3 * y - down * a
  <2> HIDE DEF q, r
  <2>1. Rotate(q, V(a * ex, y, a * ez)) = Part(Mul(r, Conjugate(q)))
    BY DEF Rotate, r
  <2>2. Part(Mul(r, Conjugate(q)))
        = V(0 * (-(ez * down)) + (g * ex) * 3 + f * (ex * down) - (g * ez) * 0,
            0 * 0 - (g * ex) * (ex * down) + f * 3 + (g * ez) * (-(ez * down)),
            0 * (ex * down) + (g * ex) * 0 - f * (-(ez * down)) + (g * ez) * 3)
    BY <1>3, <1>4 DEF Part, Mul, Q, V
  <2>3. /\ 0 * (-(ez * down)) + (g * ex) * 3 + f * (ex * down) - (g * ez) * 0 = p * ex
        /\ 0 * 0 - (g * ex) * (ex * down) + f * 3 + (g * ez) * (-(ez * down))
           = (9 - down * down) * y - 6 * down * a
        /\ 0 * (ex * down) + (g * ex) * 0 - f * (-(ez * down)) + (g * ez) * 3 = p * ez
    OBVIOUS
  <2> QED BY <2>1, <2>2, <2>3
<1> QED BY <1>2, <1>5 DEF TurnsUpOrDown

\* The vertical turn of a drag raises or lowers the camera by a level, unless that
\* would be too steep.
LEMMA DragUpOrDown ==
    ASSUME NEW h \in 0 .. 3, NEW l \in Steps, NEW down \in Steps
    PROVE  RotateAxis(Direction(h, l), Normalised(Cross(Direction(h, l), Up), 1), -down, 3)
           = Direction(h, IF l - down \in Steps THEN l - down ELSE l)
<1> DEFINE ex == Ex(h)  ez == Ez(h)  a == Along(l)  y == High(l)  m == Part25
           q == HalfTurn(V(-ez, 0, ex), -down, 3)
           p == (9 - down * down) * a + 6 * down * y
           u == (9 - down * down) * y - 6 * down * a
           n == 9 + down * down
           r == Over(Rotate(q, Direction(h, l)), Norm2(q))
<1>1. /\ m \in Nat \ {0} /\ Span = 25 * m
      /\ l \in {-1, 0, 1} /\ down \in {-1, 0, 1}
      /\ ex \in {-1, 0, 1} /\ ez \in {-1, 0, 1}
      /\ \/ ex = 0 /\ ez \in {1, -1}
         \/ ez = 0 /\ ex \in {1, -1}
    BY PartOfSpan, AxesOf DEF Steps
<1>2. a \in Int /\ y \in Int
    BY AlongHigh
<1>3. Direction(h, l) = V(a * ex, y, a * ez)
    BY DirectionIs
<1>4. Normalised(Cross(Direction(h, l), Up), 1) = V(-ez, 0, ex)
  <2>1. Normalised(Cross(Direction(h, l), Up), 1) = V(1 * (-ez), 0, 1 * ex)
      BY Sideways
  <2> QED BY <1>1, <2>1
<1>5. Norm2(q) = n /\ Rotate(q, Direction(h, l)) = V(p * ex, u, p * ez)
  <2> HIDE DEF ex, ez, a, y
  <2>1. TurnsUpOrDown(ex, ez, down, a, y)
      BY <1>1, <1>2, RotateUpOrDown
  <2> QED BY <1>3, <2>1 DEF TurnsUpOrDown
<1>6. r = V((p * ex) \div n, u \div n, (p * ez) \div n)
  <2> HIDE DEF ex, ez, q, p, u, n
  <2> QED BY <1>5 DEF Over, V
<1>7. Dot(r, Up) = u \div n
  <2>1. (p * ex) \div n \in Int /\ u \div n \in Int /\ (p * ez) \div n \in Int
    <3>1. p * ex \in Int /\ u \in Int /\ p * ez \in Int /\ n \in Nat \ {0}
        BY <1>1, <1>2
    <3> HIDE DEF p, u, n, ex, ez
    <3> QED BY <3>1
  <2> HIDE DEF r, ex, ez, p, u, n
  <2> QED BY <1>6, <2>1 DEF Dot, Up, V
<1>8. RotateAxis(Direction(h, l), V(-ez, 0, ex), -down, 3)
      = IF 10 * (u \div n) > 7 * Span \/ 10 * (u \div n) < -7 * Span THEN Direction(h, l) ELSE r
    BY <1>7 DEF RotateAxis, Refused
<1>9. CASE down = 0
  <2>1. n = 9 /\ p = 9 * a /\ u = 9 * y
      BY <1>1, <1>2, <1>9
  <2>2. -375 * m <= 25 * y /\ 25 * y <= 375 * m
      BY <1>1 DEF High
  <2> HIDE DEF a, y, p, u, n, ex, ez, m
  <2>3. (p * ex) \div n = a * ex /\ u \div n = y /\ (p * ez) \div n = a * ez
      BY <1>1, <1>2, <2>1
  <2>4. r = Direction(h, l)
      BY <1>3, <1>6, <2>3
  <2> QED BY <1>1, <1>4, <1>8, <1>9, <2>4
<1>10. CASE down # 0 /\ l - down \notin Steps
  <2>1. l = -down /\ (l = 1 \/ l = -1) /\ a = 20 * m /\ y = 15 * l * m
      BY <1>1, <1>10 DEF Steps, Along, High
  <2>2. n = 10 /\ u = 240 * l * m
      BY <1>1, <2>1
  <2> HIDE DEF a, y, p, u, n, ex, ez, m, r
  <2>3. u \div n = 24 * l * m
      BY <1>1, <2>1, <2>2
  <2>4. 10 * (u \div n) > 7 * Span \/ 10 * (u \div n) < -7 * Span
      BY <1>1, <2>1, <2>3
  <2> QED BY <1>4, <1>8, <1>10, <2>4
<1>11. CASE down # 0 /\ l - down \in Steps
  <2> DEFINE k == l - down
  <2>1. n = 10 /\ p = 8 * a + 6 * down * y /\ u = 8 * y - 6 * down * a
      BY <1>1, <1>2, <1>11
  <2>2. p = 10 * Along(k) /\ u = 10 * High(k)
      BY <1>1, <1>11, <2>1 DEF Along, High, Steps
  <2>3. Along(k) \in Int /\ High(k) \in Int /\ 10 * High(k) <= 150 * m /\ 10 * High(k) >= -150 * m
      BY <1>1, <1>11 DEF Along, High, Steps
  <2> HIDE DEF a, y, p, u, n, ex, ez, m, r
  <2>4. (p * ex) \div n = Along(k) * ex /\ u \div n = High(k) /\ (p * ez) \div n = Along(k) * ez
      BY <1>1, <2>1, <2>2, <2>3
  <2>5. r = Direction(h, k)
    <3>1. r = V(Along(k) * ex, High(k), Along(k) * ez)
        BY <1>6, <2>4
    <3> QED BY <1>11, <3>1, DirectionIs DEF ex, ez
  <2>6. ~(10 * (u \div n) > 7 * Span \/ 10 * (u \div n) < -7 * Span)
      BY <1>1, <2>3, <2>4
  <2> QED BY <1>4, <1>8, <1>11, <2>5, <2>6
<1> QED BY <1>9, <1>10, <1>11

\* A turn by a quarter about the vertical, or none.
TurnsAside(right, x, y, z) ==
    /\ Norm2(HalfTurn(Up, -right, 1)) = 1 + right * right
    /\ Rotate(HalfTurn(Up, -right, 1), V(x, y, z))
       = IF right = 0 THEN V(x, y, z) ELSE V(2 * (-right * z), 2 * y, 2 * (right * x))

LEMMA RotateAside ==
    ASSUME NEW x \in Int, NEW y \in Int, NEW z \in Int, NEW right \in {-1, 0, 1}
    PROVE  TurnsAside(right, x, y, z)
<1> DEFINE q == HalfTurn(Up, -right, 1)  r == Mul(q, Pure(V(x, y, z)))
<1>1. q = Q(0, -right, 0, 1)
    BY DEF HalfTurn, Up, V, Q
<1>2. Norm2(q) = 1 + right * right
    BY <1>1 DEF Norm2, Q
<1>3. Conjugate(q) = Q(0, right, 0, 1)
    BY <1>1 DEF Conjugate, Q
<1>4. r = Q(x - right * z, y, z + right * x, right * y)
    BY <1>1 DEF Mul, Pure, V, Q
<1>5. Rotate(q, V(x, y, z))
      = V((x - right * z) - (z + right * x) * right, right * y * right + y,
          (x - right * z) * right + (z + right * x))
  <2>1. Rotate(q, V(x, y, z)) = Part(Mul(r, Conjugate(q)))
    BY DEF Rotate
  <2> HIDE DEF q, r
  <2>2. Part(Mul(r, Conjugate(q)))
        = V((right * y) * 0 + (x - right * z) * 1 + y * 0 - (z + right * x) * right,
            (right * y) * right - (x - right * z) * 0 + y * 1 + (z + right * x) * 0,
            (right * y) * 0 + (x - right * z) * right - y * 0 + (z + right * x) * 1)
    BY <1>3, <1>4 DEF Part, Mul, V, Q
  <2> QED BY <2>1, <2>2
<1>6. CASE right = 0
    BY <1>2, <1>5, <1>6 DEF TurnsAside
<1>7. CASE right = 1
    BY <1>2, <1>5, <1>7 DEF TurnsAside
<1>8. CASE right = -1
    BY <1>2, <1>5, <1>8 DEF TurnsAside
<1> QED BY <1>2, <1>6, <1>7, <1>8 DEF TurnsAside

LEMMA HeadingTurned ==
    ASSUME NEW h \in 0 .. 3, NEW right \in {-1, 1}
    PROVE  /\ (h + right) % 4 \in 0 .. 3
           /\ Ex((h + right) % 4) = -right * Ez(h)
           /\ Ez((h + right) % 4) = right * Ex(h)
BY DEF Ex, Ez

\* The horizontal turn of a drag is by a quarter, and never refused.
LEMMA DragAside ==
    ASSUME NEW h \in 0 .. 3, NEW l \in Steps, NEW right \in Steps
    PROVE  RotateAxis(Direction(h, l), Up, -right, 1) = Direction((h + right) % 4, l)
<1> DEFINE a == Along(l)  y == High(l)  m == Part25  k == (h + right) % 4
           q == HalfTurn(Up, -right, 1)
           d == Direction(h, l)
           r == Over(Rotate(q, d), Norm2(q))
<1>1. right \in {-1, 0, 1} /\ m \in Nat \ {0} /\ Span = 25 * m
    BY PartOfSpan DEF Steps
<1>2. /\ a * Ex(h) \in Int /\ a * Ez(h) \in Int /\ y \in Int /\ a \in Int
      /\ Ex(h) \in {-1, 0, 1} /\ Ez(h) \in {-1, 0, 1}
    BY AlongHigh, AxesOf
<1>3. d = V(a * Ex(h), y, a * Ez(h))
    BY DirectionIs
<1>4. k \in 0 .. 3 /\ r = Direction(k, l)
  <2>1. CASE right = 0
    <3>1. k = h
        BY <2>1
    <3>2. Norm2(q) = 1 /\ Rotate(q, d) = d
      <4>1. TurnsAside(0, a * Ex(h), y, a * Ez(h))
          BY <1>2, RotateAside
      <4> QED BY <1>3, <2>1, <4>1 DEF TurnsAside
    <3> HIDE DEF q, a, y
    <3>3. Over(V(a * Ex(h), y, a * Ez(h)), 1) = V(a * Ex(h), y, a * Ez(h))
        BY <1>2 DEF Over, V
    <3> QED BY <1>3, <3>1, <3>2, <3>3
  <2>2. CASE right # 0
    <3>1. right \in {-1, 1} /\ 1 + right * right = 2
        BY <1>1, <2>2
    <3>2. /\ Norm2(q) = 2
          /\ Rotate(q, d) = V(2 * (-right * (a * Ez(h))), 2 * y, 2 * (right * (a * Ex(h))))
      <4> DEFINE x == a * Ex(h)  z == a * Ez(h)
      <4>1. x \in Int /\ y \in Int /\ z \in Int /\ d = V(x, y, z)
          BY <1>2, <1>3
      <4> HIDE DEF x, y, z, d
      <4>2. Norm2(q) = 2 /\ Rotate(q, d) = V(2 * (-right * z), 2 * y, 2 * (right * x))
        <5>1. TurnsAside(right, x, y, z)
            BY <3>1, <4>1, RotateAside
        <5> QED BY <2>2, <3>1, <4>1, <5>1 DEF TurnsAside
      <4> QED BY <4>2 DEF x, z
    <3>3. k \in 0 .. 3 /\ Ex(k) = -right * Ez(h) /\ Ez(k) = right * Ex(h)
        BY <3>1, HeadingTurned
    <3> HIDE DEF q, a, y, k
    <3>4. -right * (a * Ez(h)) = a * Ex(k) /\ right * (a * Ex(h)) = a * Ez(k)
        BY <1>2, <3>1, <3>3
    <3>5. a * Ex(k) \in Int /\ a * Ez(k) \in Int
        BY <1>2, <3>3 DEF Ex, Ez
    <3>6. (2 * (a * Ex(k))) \div 2 = a * Ex(k) /\ (2 * y) \div 2 = y
          /\ (2 * (a * Ez(k))) \div 2 = a * Ez(k)
        BY <1>2, <3>5
    <3>7. r = V(a * Ex(k), y, a * Ez(k))
        BY <3>2, <3>4, <3>6 DEF Over, V
    <3> QED BY <3>3, <3>7, DirectionIs DEF a, y
  <2> QED BY <2>1, <2>2
<1>5. Dot(r, Up) = y
  <2>1. r = V(a * Ex(k), y, a * Ez(k)) /\ a * Ex(k) \in Int /\ a * Ez(k) \in Int
      BY <1>4, <1>2, DirectionIs DEF Ex, Ez
  <2> HIDE DEF r, a, y
  <2> QED BY <1>2, <2>1 DEF Dot, Up, V
<1>6. ~Refused(r)
  <2>1. 10 * y <= 150 * m /\ 10 * y >= -150 * m
      BY <1>1, AlongHigh DEF High
  <2> HIDE DEF r, y, m
  <2> QED BY <1>1, <1>2, <1>5, <2>1 DEF Refused
<1> QED BY <1>4, <1>6 DEF RotateAxis

LEMMA DraggedIs ==
    ASSUME NEW h \in 0 .. 3, NEW l \in Steps, NEW right \in Steps, NEW down \in Steps
    PROVE  Dragged(Direction(h, l), right, down)
           = Direction((h + right) % 4, IF l - down \in Steps THEN l - down ELSE l)
<1> DEFINE k == IF l - down \in Steps THEN l - down ELSE l
<1>1. k \in Steps
    OBVIOUS
<1>2. Dragged(Direction(h, l), right, down) = RotateAxis(Direction(h, k), Up, -right, 1)
    BY DragUpOrDown DEF Dragged
<1> HIDE DEF k
<1>3. RotateAxis(Direction(h, k), Up, -right, 1) = Direction((h + right) % 4, k)
    BY <1>1, DragAside
<1> QED BY <1>2, <1>3 DEF k

\* The course that is nearest to a direction, and whether it is up or down.
NearestTo(d) == CHOOSE h \in 0 .. 3 :
    \A k \in 0 .. 3 : Dot(d, Courses[h + 1]) >= Dot(d, Courses[k + 1])

LEMMA HeadsIs ==
    ASSUME NEW h \in 0 .. 3, NEW l \in Steps
    PROVE  NearestTo(Direction(h, l)) = h /\ Sign(Direction(h, l).y) = l
<1> DEFINE a == Along(l)  d == Direction(h, l)
<1>1. /\ a \in Nat \ {0} /\ High(l) \in Int /\ l \in {-1, 0, 1}
      /\ Part25 \in Nat \ {0}
    BY AlongHigh, PartOfSpan
<1>2. d = V(a * Ex(h), High(l), a * Ez(h))
    BY DirectionIs
<1>3. \A k \in 0 .. 3 : Courses[k + 1] = V(Ex(k), 0, Ez(k))
    BY DirectionIs DEF Steps
<1>4. Sign(d.y) = l
    BY <1>1, <1>2 DEF Sign, V, High
<1>5. \A k \in 0 .. 3 : Dot(d, Courses[k + 1]) = IF k = h THEN a ELSE IF k = (h + 2) % 4 THEN -a ELSE 0
  <2> TAKE k \in 0 .. 3
  <2>1. Dot(d, Courses[k + 1]) = (a * Ex(h)) * Ex(k) + High(l) * 0 + (a * Ez(h)) * Ez(k)
      BY <1>2, <1>3 DEF Dot, V
  <2> HIDE DEF a, d
  <2> QED BY <1>1, <2>1 DEF Ex, Ez
<1>6. NearestTo(d) = h
  <2> HIDE DEF a, d
  <2>1. \A k \in 0 .. 3 : Dot(d, Courses[h + 1]) >= Dot(d, Courses[k + 1])
      BY <1>1, <1>5
  <2>2. ASSUME NEW g \in 0 .. 3, \A k \in 0 .. 3 : Dot(d, Courses[g + 1]) >= Dot(d, Courses[k + 1])
        PROVE  g = h
      BY <1>1, <1>5, <2>2
  <2> QED BY <2>1, <2>2 DEF NearestTo
<1> QED BY <1>4, <1>6

\* Turning's mapping of its direction to the compass, and its type.
LEMMA TurnTypeInit == TurnInit => TurnTypeOK /\ dir = Direction(0, 0)
<1> SUFFICES ASSUME TurnInit PROVE TurnTypeOK /\ dir = Direction(0, 0)
    OBVIOUS
<1>1. 0 \in 0 .. 3 /\ 0 \in Steps
    BY DEF Steps
<1>2. Direction(0, 0) = V(Along(0) * Ex(0), High(0), Along(0) * Ez(0))
    BY <1>1, DirectionIs
<1>3. Direction(0, 0) = V(0, 0, Span)
    BY <1>2, PartOfSpan DEF Along, High, Ex, Ez
<1>4. pos \in Vector
    BY DEF TurnInit, Origin, V, Vector
<1> QED BY <1>1, <1>3, <1>4 DEF TurnInit, TurnTypeOK

LEMMA DirectionType ==
    ASSUME NEW h \in 0 .. 3, NEW l \in Steps
    PROVE  Direction(h, l) \in Vector
<1>1. Along(l) * Ex(h) \in Int /\ Along(l) * Ez(h) \in Int /\ High(l) \in Int
    BY AlongHigh, AxesOf
<1> QED BY <1>1, DirectionIs DEF V, Vector

\* Every step keeps the type, and turns the compass as asked.
LEMMA DragTurns ==
    ASSUME NEW h \in 0 .. 3, NEW l \in Steps, dir = Direction(h, l),
           NEW right \in Steps, NEW down \in Steps, dir' = Dragged(dir, right, down)
    PROVE  /\ \E k \in 0 .. 3, m \in Steps : dir' = Direction(k, m)
           /\ Heads!Turn(right, down)
<1> DEFINE k == (h + right) % 4  m == IF l - down \in Steps THEN l - down ELSE l
<1>1. k \in 0 .. 3 /\ m \in Steps
    BY DEF Steps
<1>2. dir' = Direction(k, m)
    BY DraggedIs
<1>3. NearestTo(dir) = h /\ Sign(dir.y) = l
    BY HeadsIs
<1> HIDE DEF k, m
<1>4. NearestTo(dir') = k /\ Sign(dir'.y) = m
    BY <1>1, <1>2, HeadsIs
<1>5. Nearest = NearestTo(dir) /\ Nearest' = NearestTo(dir')
    BY DEF Nearest, NearestTo
<1>6. Steps = Heads!Levels
    BY DEF Steps, Heads!Levels
<1> QED BY <1>1, <1>2, <1>3, <1>4, <1>5, <1>6 DEF Heads!Turn, k, m

LEMMA MoveKeepsType == TurnTypeOK /\ (\E k \in MoveKeys : Move(k)) => TurnTypeOK'
<1> SUFFICES ASSUME TurnTypeOK, NEW k \in MoveKeys, Move(k) PROVE TurnTypeOK'
    OBVIOUS
<1>1. PICK h \in 0 .. 3, l \in Steps : dir = Direction(h, l)
    BY DEF TurnTypeOK
<1>2. dir' = Direction(h, l) /\ pos' = Plus(pos, Displacement(k, dir)) /\ pos \in Vector
    BY <1>1 DEF Move, TurnTypeOK
<1>3. dir \in Vector
    BY <1>1, DirectionType
<1>4. Displacement(k, dir) \in Vector
  <2> DEFINE n == Span
  <2>1. n \in Int /\ n # 0
      BY PartOfSpan
  <2>2. CASE k = "w" \/ k = "s"
      BY <1>3, <2>2 DEF Displacement, Times, V, Vector
  <2>3. CASE k = "a" \/ k = "d"
    <3>1. Normalised(Cross(dir, Up), n) \in Vector /\ Normalised(Cross(Up, dir), n) \in Vector
      <4>1. n * (-Ez(h)) \in Int /\ n * Ex(h) \in Int /\ n * Ez(h) \in Int /\ n * (-Ex(h)) \in Int
          BY <2>1 DEF Ex, Ez
      <4> HIDE DEF n
      <4> QED BY <1>1, <2>1, <4>1, Sideways DEF V, Vector
    <3> QED BY <2>3, <3>1 DEF Displacement
  <2>4. CASE k = "space" \/ k = "c"
    <3>1. Over(Cross(Cross(dir, Up), dir), n) \in Vector /\ Over(Cross(dir, Cross(dir, Up)), n) \in Vector
      <4>1. Up \in Vector
          BY DEF Up, V, Vector
      <4>2. ASSUME NEW u \in Vector, NEW v \in Vector PROVE Cross(u, v) \in Vector
          BY DEF Cross, V, Vector
      <4>3. ASSUME NEW u \in Vector PROVE Over(u, n) \in Vector
          BY <2>1, PartOfSpan DEF Over, V, Vector
      <4> QED BY <1>3, <4>1, <4>2, <4>3
    <3> QED BY <2>4, <3>1 DEF Displacement
  <2> QED BY <2>2, <2>3, <2>4 DEF MoveKeys
<1>5. pos' \in Vector
    BY <1>2, <1>4 DEF Plus, V, Vector
<1> QED BY <1>2, <1>5 DEF TurnTypeOK

LEMMA DragKeepsType == TurnTypeOK /\ TurnDrag => TurnTypeOK' /\ Heads!Next
<1> SUFFICES ASSUME TurnTypeOK, TurnDrag PROVE TurnTypeOK' /\ Heads!Next
    OBVIOUS
<1>1. PICK h \in 0 .. 3, l \in Steps : dir = Direction(h, l)
    BY DEF TurnTypeOK
<1>2. PICK right \in Steps, down \in Steps : dir' = Dragged(dir, right, down) /\ pos' = pos
    BY DEF TurnDrag
<1>3. (\E k \in 0 .. 3, m \in Steps : dir' = Direction(k, m)) /\ Heads!Turn(right, down)
    BY <1>1, <1>2, DragTurns
<1>4. Heads!Steps = Steps
    BY DEF Heads!Steps, Steps
<1> QED BY <1>2, <1>3, <1>4 DEF TurnTypeOK, Heads!Next

\* However drags and keys follow one another, accepted or refused, the camera looks in
\* one of twelve directions of exactly the length it began with: rotateCameraAxis and
\* normalise lose nothing.
THEOREM TurnTypeOKAlways == TurnSpec => []TurnTypeOK
<1>1. TurnTypeOK /\ [TurnNext]_turnVars => TurnTypeOK'
  <2>1. TurnTypeOK /\ UNCHANGED turnVars => TurnTypeOK'
      BY DEF TurnTypeOK, turnVars
  <2> QED BY <2>1, MoveKeepsType, DragKeepsType DEF TurnNext
<1> QED BY <1>1, TurnTypeInit, PTL DEF TurnSpec

LEMMA StillHeads == dir' = dir => UNCHANGED <<Nearest, Sign(dir.y)>>
BY DEF Nearest, Sign

\* Turning implements Compass: the products of mouseRotateCamera turn the heading and
\* the level as a count of the drags does, from every direction, and every drag by
\* what was asked for.
THEOREM DragsAddUpAlways == TurnSpec => DragsAddUp
<1> DEFINE AsAsked == dir' # dir => \A right, down \in Steps :
            dir' = Dragged(dir, right, down) => Heads!Turn(right, down)
<1>1. TurnInit => Heads!Init
  <2> SUFFICES ASSUME TurnInit PROVE Heads!Init
      OBVIOUS
  <2>1. dir = Direction(0, 0)
      BY TurnTypeInit
  <2>2. NearestTo(dir) = 0 /\ Sign(dir.y) = 0
    <3>1. 0 \in 0 .. 3 /\ 0 \in Steps
        BY DEF Steps
    <3> QED BY <2>1, <3>1, HeadsIs
  <2>3. Nearest = NearestTo(dir)
      BY DEF Nearest, NearestTo
  <2> QED BY <2>2, <2>3 DEF Heads!Init
<1>2. TurnTypeOK /\ [TurnNext]_turnVars => [Heads!Next]_(Heads!compassVars)
  <2> SUFFICES ASSUME TurnTypeOK, [TurnNext]_turnVars PROVE [Heads!Next]_(Heads!compassVars)
      OBVIOUS
  <2>1. CASE TurnDrag
      BY <2>1, DragKeepsType
  <2>2. CASE dir' = dir
      BY <2>2, StillHeads DEF Heads!compassVars
  <2> QED BY <2>1, <2>2 DEF TurnNext, Move, turnVars
<1>3. TurnTypeOK => AsAsked
  <2> SUFFICES ASSUME TurnTypeOK, NEW right \in Steps, NEW down \in Steps,
                      dir' = Dragged(dir, right, down)
               PROVE  Heads!Turn(right, down)
      OBVIOUS
  <2> QED BY DragTurns DEF TurnTypeOK
<1>4. TurnSpec => Heads!Spec
    BY <1>1, <1>2, TurnTypeOKAlways, PTL DEF TurnSpec, Heads!Spec
<1>5. TurnSpec => [][AsAsked]_turnVars
    BY <1>3, TurnTypeOKAlways, PTL
<1> QED BY <1>4, <1>5 DEF DragsAddUp

\* The signs of products with positive factors.
LEMMA SignOf ==
    ASSUME NEW a \in Nat \ {0}, NEW b \in Nat \ {0}
    PROVE  Sign(a * b) = 1 /\ Sign(-(a * b)) = -1 /\ Sign(0) = 0
<1>1. a * b > 0
    OBVIOUS
<1> QED BY <1>1 DEF Sign

\* What OnScreen makes of a vector, in components.
Screened(a, y, ex, ez, p, q, r) ==
    OnScreen(V(p, q, r))
    = <<Sign(a * (ex * r - ez * p)),
        Sign(a * (a * (ex * ex + ez * ez) * q - y * (ex * p + ez * r))),
        Sign(a * (ex * p + ez * r) + y * q)>>

LEMMA OnScreenIs ==
    ASSUME NEW a \in Int, NEW y \in Int, NEW ex \in Int, NEW ez \in Int,
           dir = V(a * ex, y, a * ez),
           NEW p \in Int, NEW q \in Int, NEW r \in Int
    PROVE  Screened(a, y, ex, ez, p, q, r)
<1> DEFINE v == V(p, q, r)  x == a * ex  z == a * ez
           side == Cross(dir, Up)
<1>0. x \in Int /\ z \in Int
    OBVIOUS
<1>1. side = V(-z, 0, x)
  <2> HIDE DEF x, z
  <2>1. dir = V(x, y, z)
      BY DEF x, z
  <2> QED BY <1>0, <2>1 DEF Cross, Up, V
<1> HIDE DEF side
<1>2. Dot(side, v) = (-z) * p + 0 * q + x * r
    BY <1>1 DEF Dot, V
<1>3. Dot(Cross(side, dir), v)
      = (0 * z - x * y) * p + (x * x - (-z) * z) * q + ((-z) * y - 0 * x) * r
    BY <1>1 DEF Cross, Dot, V
<1>4. Dot(dir, v) = x * p + y * q + z * r
    BY DEF Dot, V
<1>5. /\ (-z) * p + 0 * q + x * r = a * (ex * r - ez * p)
      /\ (0 * z - x * y) * p + (x * x - (-z) * z) * q + ((-z) * y - 0 * x) * r
         = a * (a * (ex * ex + ez * ez) * q - y * (ex * p + ez * r))
      /\ x * p + y * q + z * r = a * (ex * p + ez * r) + y * q
    OBVIOUS
<1> HIDE DEF x, z, v
<1>6. OnScreen(v) = <<Sign(Dot(side, v)), Sign(Dot(Cross(side, dir), v)), Sign(Dot(dir, v))>>
    BY DEF OnScreen, side
<1> QED BY <1>2, <1>3, <1>4, <1>5, <1>6 DEF v, Screened

\* What strafing up adds: less upwards the steeper the camera looks.
Back(l) == IF l = 0 THEN 0 ELSE 12 * l * Part25
Rise(l) == IF l = 0 THEN 25 * Part25 ELSE 16 * Part25

LEMMA StrafeIs ==
    ASSUME NEW h \in 0 .. 3, NEW l \in Steps
    PROVE  LET d == Direction(h, l)
               side == Cross(d, Up)
           IN  /\ Over(Cross(side, d), Span) = V(-Back(l) * Ex(h), Rise(l), -Back(l) * Ez(h))
               /\ Over(Cross(d, side), Span) = V(Back(l) * Ex(h), -Rise(l), Back(l) * Ez(h))
<1> DEFINE d == Direction(h, l)  side == Cross(d, Up)
           a == Along(l)  y == High(l)  ex == Ex(h)  ez == Ez(h)  m == Part25
           g == Back(l)  k == Rise(l)  b == 25 * m
<1>1. /\ m \in Nat \ {0} /\ Span = 25 * m /\ b \in Nat \ {0} /\ b = Span
      /\ a \in Int /\ y \in Int /\ g \in Int /\ k \in Int
    BY PartOfSpan, AlongHigh DEF Back, Rise
<1>2. /\ ex \in {-1, 0, 1} /\ ez \in {-1, 0, 1}
      /\ ex * ex + ez * ez = 1
    BY AxesOf
<1>3. d = V(a * ex, y, a * ez) /\ side = V(-(a * ez), 0, a * ex)
    BY DirectionIs, CrossUp
<1>4. a * y = g * b /\ a * a = k * b
    BY <1>1, AlongHigh DEF Along, High, Back, Rise
<1> HIDE DEF d, side, a, y, ex, ez, m, g, k, b
<1>5. /\ Cross(side, d) = V((-g * ex) * b, k * b, (-g * ez) * b)
      /\ Cross(d, side) = V((g * ex) * b, (-k) * b, (g * ez) * b)
  <2>1. /\ Cross(side, d) = V(0 * (a * ez) - (a * ex) * y,
                              (a * ex) * (a * ex) - (-(a * ez)) * (a * ez),
                              (-(a * ez)) * y - 0 * (a * ex))
        /\ Cross(d, side) = V(y * (a * ex) - (a * ez) * 0,
                              (a * ez) * (-(a * ez)) - (a * ex) * (a * ex),
                              (a * ex) * 0 - y * (-(a * ez)))
      BY <1>3 DEF Cross, V
  <2>2. /\ 0 * (a * ez) - (a * ex) * y = -((a * y) * ex)
        /\ (-(a * ez)) * y - 0 * (a * ex) = -((a * y) * ez)
        /\ y * (a * ex) - (a * ez) * 0 = (a * y) * ex
        /\ (a * ex) * 0 - y * (-(a * ez)) = (a * y) * ez
        /\ (a * ex) * (a * ex) - (-(a * ez)) * (a * ez) = (a * a) * (ex * ex + ez * ez)
        /\ (a * ez) * (-(a * ez)) - (a * ex) * (a * ex) = -((a * a) * (ex * ex + ez * ez))
      BY <1>1, <1>2
  <2>3. /\ -((a * y) * ex) = (-g * ex) * b /\ (a * y) * ex = (g * ex) * b
        /\ -((a * y) * ez) = (-g * ez) * b /\ (a * y) * ez = (g * ez) * b
        /\ (a * a) * (ex * ex + ez * ez) = k * b /\ -((a * a) * (ex * ex + ez * ez)) = (-k) * b
      BY <1>1, <1>2, <1>4
  <2> QED BY <2>1, <2>2, <2>3
<1>6. \A n \in Int : (n * b) \div Span = n
    BY <1>1, DivExact
<1>7. {-g * ex, k, -g * ez, g * ex, -k, g * ez} \subseteq Int
    BY <1>1, <1>2
<1>8. \A p, q, r \in Int : Over(V(p * b, q * b, r * b), Span) = V(p, q, r)
    BY <1>6 DEF Over, V
<1>9. /\ Over(Cross(side, d), Span) = V(-g * ex, k, -g * ez)
      /\ Over(Cross(d, side), Span) = V(g * ex, -k, g * ez)
    BY <1>5, <1>7, <1>8
<1> QED BY <1>9 DEF d, side, g, k, ex, ez

LEMMA KeysFromType == TurnTypeOK => KeysMoveAsSeen
<1> SUFFICES ASSUME NEW h \in 0 .. 3, NEW l \in Steps, dir = Direction(h, l)
             PROVE  KeysMoveAsSeen
    BY DEF TurnTypeOK
<1> DEFINE a == Along(l)  y == High(l)  ex == Ex(h)  ez == Ez(h)  m == Part25
           g == Back(l)  k == Rise(l)  n == Span
<1>1. /\ m \in Nat \ {0} /\ n \in Nat \ {0} /\ a \in Nat \ {0} /\ k \in Nat \ {0}
      /\ y \in Int /\ g \in Int
    BY PartOfSpan, AlongHigh DEF Back, Rise
<1>2. /\ ex \in {-1, 0, 1} /\ ez \in {-1, 0, 1} /\ ex * ex + ez * ez = 1
    BY AxesOf
<1>3. dir = V(a * ex, y, a * ez)
    BY DirectionIs
<1>4. a * k + y * g > 0 /\ -(a * g) + y * k = 0
    BY <1>1, AlongHigh DEF Along, High, Back, Rise
<1>5. /\ Displacement("a", dir) = V(n * ez, 0, n * (-ex))
      /\ Displacement("d", dir) = V(n * (-ez), 0, n * ex)
      /\ Displacement("space", dir) = V(-g * ex, k, -g * ez)
      /\ Displacement("c", dir) = V(g * ex, -k, g * ez)
      /\ Displacement("w", dir) = V(a * ex, y, a * ez)
      /\ Displacement("s", dir) = V(-(a * ex), -y, -(a * ez))
  <2>1. /\ Displacement("a", dir) = V(n * ez, 0, n * (-ex))
        /\ Displacement("d", dir) = V(n * (-ez), 0, n * ex)
      BY <1>1, Sideways DEF Displacement
  <2>2. /\ Displacement("space", dir) = V(-g * ex, k, -g * ez)
        /\ Displacement("c", dir) = V(g * ex, -k, g * ez)
      BY StrafeIs DEF Displacement
  <2> HIDE DEF a, y, ex, ez
  <2>3. Displacement("w", dir) = dir /\ Displacement("s", dir) = Times(-1, dir)
      BY DEF Displacement
  <2>4. Times(-1, dir) = V(-(a * ex), -y, -(a * ez))
      BY <1>1, <1>2, <1>3 DEF Times, V
  <2> QED BY <1>3, <2>1, <2>2, <2>3, <2>4
<1> HIDE DEF a, y, ex, ez, m, g, k, n
<1>6. \A p, q, r \in Int : Screened(a, y, ex, ez, p, q, r)
  <2> TAKE p, q, r \in Int
  <2>1. a \in Int /\ y \in Int /\ ex \in Int /\ ez \in Int
      BY <1>1, <1>2
  <2> QED BY <1>3, <2>1, OnScreenIs, Zenon
<1> DEFINE c1(p, q, r) == a * (ex * r - ez * p)
           c2(p, q, r) == a * (a * (ex * ex + ez * ez) * q - y * (ex * p + ez * r))
           c3(p, q, r) == a * (ex * p + ez * r) + y * q
<1>7. OnScreen(V(n * ez, 0, n * (-ex))) = <<-1, 0, 0>>
  <2>1. c1(n * ez, 0, n * (-ex)) = -(a * n) * (ex * ex + ez * ez)
        /\ c2(n * ez, 0, n * (-ex)) = 0 /\ c3(n * ez, 0, n * (-ex)) = 0
      BY <1>1, <1>2
  <2>2. -(a * n) * (ex * ex + ez * ez) = -(a * n)
      BY <1>1, <1>2
  <2>3. n * ez \in Int /\ n * (-ex) \in Int
      BY <1>1, <1>2
  <2>4. Screened(a, y, ex, ez, n * ez, 0, n * (-ex))
      BY <1>6, <2>3
  <2>5. Sign(-(a * n)) = -1 /\ Sign(0) = 0
      BY <1>1, SignOf
  <2> QED BY <2>1, <2>2, <2>4, <2>5 DEF Screened
<1>8. OnScreen(V(n * (-ez), 0, n * ex)) = <<1, 0, 0>>
  <2>1. c1(n * (-ez), 0, n * ex) = (a * n) * (ex * ex + ez * ez)
        /\ c2(n * (-ez), 0, n * ex) = 0 /\ c3(n * (-ez), 0, n * ex) = 0
      BY <1>1, <1>2
  <2>2. (a * n) * (ex * ex + ez * ez) = a * n
      BY <1>1, <1>2
  <2>3. n * (-ez) \in Int /\ n * ex \in Int
      BY <1>1, <1>2
  <2>4. Screened(a, y, ex, ez, n * (-ez), 0, n * ex)
      BY <1>6, <2>3
  <2>5. Sign(a * n) = 1 /\ Sign(0) = 0
      BY <1>1, SignOf
  <2> QED BY <2>1, <2>2, <2>4, <2>5 DEF Screened
<1>9. OnScreen(V(-g * ex, k, -g * ez)) = <<0, 1, 0>>
  <2>1. c1(-g * ex, k, -g * ez) = 0
        /\ c2(-g * ex, k, -g * ez) = a * ((a * k + y * g) * (ex * ex + ez * ez))
        /\ c3(-g * ex, k, -g * ez) = -(a * g) * (ex * ex + ez * ez) + y * k
      BY <1>1, <1>2
  <2>2. (a * k + y * g) * (ex * ex + ez * ez) = a * k + y * g
        /\ -(a * g) * (ex * ex + ez * ez) + y * k = 0
      BY <1>1, <1>2, <1>4
  <2>3. -g * ex \in Int /\ -g * ez \in Int /\ k \in Int /\ a * k + y * g \in Nat \ {0}
      BY <1>1, <1>2, <1>4
  <2>4. Sign(a * (a * k + y * g)) = 1 /\ Sign(0) = 0
      BY <1>1, <2>3, SignOf
  <2>5. Screened(a, y, ex, ez, -g * ex, k, -g * ez)
      BY <1>6, <2>3
  <2> QED BY <2>1, <2>2, <2>4, <2>5 DEF Screened
<1>10. OnScreen(V(g * ex, -k, g * ez)) = <<0, -1, 0>>
  <2>1. c1(g * ex, -k, g * ez) = 0
        /\ c2(g * ex, -k, g * ez) = -(a * ((a * k + y * g) * (ex * ex + ez * ez)))
        /\ c3(g * ex, -k, g * ez) = (a * g) * (ex * ex + ez * ez) - y * k
      BY <1>1, <1>2
  <2>2. (a * k + y * g) * (ex * ex + ez * ez) = a * k + y * g
        /\ (a * g) * (ex * ex + ez * ez) - y * k = 0
      BY <1>1, <1>2, <1>4
  <2>3. g * ex \in Int /\ g * ez \in Int /\ -k \in Int /\ a * k + y * g \in Nat \ {0}
      BY <1>1, <1>2, <1>4
  <2>4. Sign(-(a * (a * k + y * g))) = -1 /\ Sign(0) = 0
      BY <1>1, <2>3, SignOf
  <2>5. Screened(a, y, ex, ez, g * ex, -k, g * ez)
      BY <1>6, <2>3
  <2> QED BY <2>1, <2>2, <2>4, <2>5 DEF Screened
<1>11. /\ OnScreen(V(a * ex, y, a * ez)) = <<0, 0, 1>>
       /\ OnScreen(V(-(a * ex), -y, -(a * ez))) = <<0, 0, -1>>
  <2>1. /\ c1(a * ex, y, a * ez) = 0 /\ c2(a * ex, y, a * ez) = 0
        /\ c3(a * ex, y, a * ez) = (a * a) * (ex * ex + ez * ez) + y * y
        /\ c1(-(a * ex), -y, -(a * ez)) = 0 /\ c2(-(a * ex), -y, -(a * ez)) = 0
        /\ c3(-(a * ex), -y, -(a * ez)) = -((a * a) * (ex * ex + ez * ez) + y * y)
      BY <1>1, <1>2
  <2>2. (a * a) * (ex * ex + ez * ez) + y * y \in Nat \ {0}
    <3>1. a * a > 0 /\ y * y >= 0
        BY <1>1
    <3> QED BY <1>1, <1>2, <3>1
  <2>3. /\ Sign((a * a) * (ex * ex + ez * ez) + y * y) = 1 /\ Sign(0) = 0
        /\ Sign(-((a * a) * (ex * ex + ez * ez) + y * y)) = -1
      BY <2>2 DEF Sign
  <2>4. a * ex \in Int /\ a * ez \in Int /\ -(a * ex) \in Int /\ -(a * ez) \in Int /\ -y \in Int
      BY <1>1, <1>2
  <2>5. /\ Screened(a, y, ex, ez, a * ex, y, a * ez)
        /\ Screened(a, y, ex, ez, -(a * ex), -y, -(a * ez))
      BY <1>1, <1>6, <2>4
  <2> QED BY <2>1, <2>3, <2>5 DEF Screened
<1> QED BY <1>5, <1>7, <1>8, <1>9, <1>10, <1>11 DEF KeysMoveAsSeen

\* moveForward .. strafeDown: from every direction each key moves the camera to the
\* side of the screen it is named for and to no other.
THEOREM KeysMoveAsSeenAlways == TurnSpec => []KeysMoveAsSeen
BY TurnTypeOKAlways, KeysFromType, PTL

(***************************************************************************)
(* The pitch.  That it stays within a radian is an invariant of its own;    *)
(* that a camera can be dragged back needs what only a pursuit can do.      *)
(***************************************************************************)

Tilted == PitchTypeOK /\ WithinRadian

\* An angle folded into a quarter to either side of the horizon.
LEMMA AboveIs ==
    ASSUME NEW a \in Int
    PROVE  Above(a) \in Int /\ (a \in (-Vertical) .. Vertical => Above(a) = a)
<1>1. Vertical \in Nat \ {0}
    BY AngleAssumption
<1> DEFINE m == 4 * Vertical  b == a + Vertical  r == b % m
<1>2. m \in Nat \ {0} /\ b \in Int
    BY <1>1
<1>3. r \in Int /\ (0 <= b /\ b < m => r = b)
  <2> HIDE DEF m, b
  <2> QED BY <1>2
<1>4. Above(a) = IF r <= 2 * Vertical THEN r - Vertical ELSE 3 * Vertical - r
    BY DEF Above
<1> HIDE DEF r
<1> QED BY <1>1, <1>3, <1>4

\* rotateCameraAxis turns no further than the limit, whatever it is asked for.
LEMMA RotatedWithin ==
    ASSUME NEW p \in Int, NEW v \in Int, NEW limit \in Int
    PROVE  \/ Rotated(p, v, limit) = p
           \/ Rotated(p, v, limit) \in Int /\ Abs(Rotated(p, v, limit)) <= limit
<1> DEFINE a == Above(p + v)
<1>1. a \in Int
    BY AboveIs
<1>2. Rotated(p, v, limit) = IF Abs(a) > limit THEN p ELSE a
    BY DEF Rotated
<1> HIDE DEF a
<1>3. Abs(a) \in Int
    BY <1>1 DEF Abs
<1> QED BY <1>1, <1>2, <1>3

\* mouseRotateCamera keeps the sum within a radian.
LEMMA SumWithin ==
    ASSUME NEW a \in Int
    PROVE  Sum(a) \in (-Radian) .. Radian
  BY AngleAssumption DEF Sum

LEMMA TiltedInit == PitchInit => Tilted
<1> SUFFICES ASSUME PitchInit PROVE Tilted
    OBVIOUS
<1>1. asked \in (-Radian) .. Radian /\ pitch \in Int /\ Abs(pitch) <= Radian
    <2>1. asked = 0 /\ pitch = 0
        BY DEF PitchInit
    <2> QED BY <2>1, AngleAssumption DEF Abs
<1>2. long \in BOOLEAN /\ chasing \in BOOLEAN
    BY DEF PitchInit
<1> QED BY <1>1, <1>2 DEF Tilted, PitchTypeOK, WithinRadian

LEMMA DragKeepsTilted == Tilted /\ PitchDrag => Tilted'
<1> SUFFICES ASSUME Tilted, PitchDrag PROVE Tilted'
    OBVIOUS
<1> USE DEF Tilted, PitchTypeOK, WithinRadian
<1>1. PICK v \in Drags :
        /\ asked' = Sum(asked + v)
        /\ pitch' = Rotated(pitch, Turn(v, asked + v), TurnLimit)
    BY DEF PitchDrag
<1>2. v \in Int /\ asked + v \in Int
    BY AngleAssumption
<1>3. Turn(v, asked + v) \in Int
    BY <1>2, AngleAssumption DEF Turn
<1>4. TurnLimit \in 0 .. Radian
    BY AngleAssumption DEF TurnLimit
<1>5. asked' \in (-Radian) .. Radian
    BY <1>1, <1>2, SumWithin
<1>6. pitch' \in Int /\ Abs(pitch') <= Radian
    <2>1. pitch \in Int /\ Abs(pitch) <= Radian
        OBVIOUS
    <2> DEFINE w == Turn(v, asked + v)  l == TurnLimit
    <2>2. w \in Int /\ l \in 0 .. Radian /\ l \in Int /\ pitch' = Rotated(pitch, w, l)
        BY <1>1, <1>3, <1>4, AngleAssumption
    <2> HIDE DEF w, l
    <2>3. pitch' = pitch \/ (pitch' \in Int /\ Abs(pitch') <= l)
        BY <2>1, <2>2, RotatedWithin
    <2>4. \A a \in Int : Abs(a) \in Int
        BY DEF Abs
    <2> QED BY <2>1, <2>2, <2>3, <2>4, AngleAssumption
<1>7. Abs(pitch)' <= Radian
    BY <1>6 DEF Abs
<1>8. long' \in BOOLEAN /\ chasing' \in BOOLEAN
    BY DEF PitchDrag
<1> QED BY <1>5, <1>6, <1>7, <1>8

LEMMA OthersKeepTilted ==
    Tilted /\ (Chasing \/ MoveByKey \/ ToggleChase \/ UNCHANGED pitchVars) => Tilted'
<1> SUFFICES ASSUME Tilted, Chasing \/ MoveByKey \/ ToggleChase \/ UNCHANGED pitchVars
             PROVE  Tilted'
    OBVIOUS
<1> USE DEF Tilted, PitchTypeOK, WithinRadian
<1>1. CASE Chasing
    BY <1>1, AngleAssumption DEF Chasing, Abs
<1>2. CASE MoveByKey
    BY <1>2 DEF MoveByKey, Abs
<1>3. CASE ToggleChase
    BY <1>3 DEF ToggleChase, Abs
<1>4. CASE UNCHANGED pitchVars
    BY <1>4 DEF pitchVars, Abs
<1> QED BY <1>1, <1>2, <1>3, <1>4

\* Camera.cpp, rotateCameraAxis: however drags, pursuits and keys follow one another,
\* and although the sum that mouseRotateCamera keeps goes out of step with the angle,
\* the camera does not venture more than a radian away from the horizon.
THEOREM WithinRadianAlways == PitchSpec => []WithinRadian
<1>1. PitchInit => Tilted
    BY TiltedInit
<1>2. Tilted /\ [PitchNext]_pitchVars => Tilted'
    BY DragKeepsTilted, OthersKeepTilted DEF PitchNext
<1>3. Tilted => WithinRadian
    BY DEF Tilted
<1> QED BY <1>1, <1>2, <1>3, PTL DEF PitchSpec

\* A drag and its opposite that lead from a pursuit's angle to where turns are accepted.
LeadsBack(u) ==
    /\ u \in Drags /\ -u \in Drags
    /\ u \in 1 .. Radian /\ Chase + u \in (-Steepest) .. Steepest

\* Where the camera may be left: only a pursuit leaves it where turns are refused.
Left ==
    /\ PitchTypeOK
    /\ Abs(pitch) <= Steepest \/ pitch = Chase

LEMMA LeftInit == PitchInit => Left
<1> SUFFICES ASSUME PitchInit PROVE Left
    OBVIOUS
<1>1. asked = 0 /\ pitch = 0 /\ long = FALSE /\ chasing = FALSE
    BY DEF PitchInit
<1>2. asked \in (-Radian) .. Radian /\ pitch \in Int
    BY <1>1, AngleAssumption
<1>3. Abs(pitch) <= Steepest
    BY <1>1, AngleAssumption DEF Abs
<1>4. PitchTypeOK
    BY <1>1, <1>2 DEF PitchTypeOK
<1> QED BY <1>3, <1>4 DEF Left

LEMMA LeftNext == Left /\ [PitchNext]_pitchVars => Left'
<1> SUFFICES ASSUME Left, [PitchNext]_pitchVars PROVE Left'
    OBVIOUS
<1>0. /\ asked \in (-Radian) .. Radian /\ pitch \in Int /\ long \in BOOLEAN /\ chasing \in BOOLEAN
      /\ Abs(pitch) <= Steepest \/ pitch = Chase
    BY DEF Left, PitchTypeOK
<1>1. CASE PitchDrag
  <2>1. PICK v \in Drags :
          /\ asked' = Sum(asked + v)
          /\ pitch' = Rotated(pitch, Turn(v, asked + v), TurnLimit)
      BY <1>1 DEF PitchDrag
  <2>2. asked + v \in Int /\ Turn(v, asked + v) \in Int /\ TurnLimit \in 0 .. Steepest
      BY <1>0, AngleAssumption DEF Turn, TurnLimit
  <2>3. asked' \in (-Radian) .. Radian
      BY <2>1, <2>2, AngleAssumption DEF Sum
  <2>4. pitch' \in Int /\ (Abs(pitch') <= Steepest \/ pitch' = Chase)
    <3> DEFINE w == Turn(v, asked + v)  l == TurnLimit
    <3>1. w \in Int /\ l \in 0 .. Steepest /\ l \in Int /\ pitch' = Rotated(pitch, w, l)
        BY <2>1, <2>2, AngleAssumption
    <3> HIDE DEF w, l
    <3>2. pitch' = pitch \/ (pitch' \in Int /\ Abs(pitch') <= l)
        BY <1>0, <3>1, RotatedWithin
    <3>3. \A a \in Int : Abs(a) \in Int
        BY DEF Abs
    <3> QED BY <1>0, <3>1, <3>2, <3>3, AngleAssumption
  <2>5. long' \in BOOLEAN /\ chasing' \in BOOLEAN
      BY <1>0, <1>1 DEF PitchDrag
  <2> QED BY <2>3, <2>4, <2>5 DEF Left, PitchTypeOK, Abs
<1>2. CASE Chasing
    BY <1>0, <1>2, AngleAssumption DEF Chasing, Left, PitchTypeOK
<1>3. CASE MoveByKey \/ ToggleChase \/ UNCHANGED pitchVars
    BY <1>0, <1>3 DEF MoveByKey, ToggleChase, pitchVars, Left, PitchTypeOK, Abs
<1> QED BY <1>1, <1>2, <1>3 DEF PitchNext

\* The two drags: first further down, which is taken off the sum and is refused unless
\* it passes the vertical far enough; then up.
LEMMA LeftComesBack ==
    ASSUME NEW d, LeadsBack(d), Left
    PROVE  ComesBack
<1> SUFFICES ASSUME ~(Abs(pitch) <= Steepest) PROVE ComesBack
    BY DEF ComesBack
<1>0. /\ pitch = Chase /\ asked \in (-Radian) .. Radian /\ d \in 1 .. Radian
      /\ Chase + d \in (-Steepest) .. Steepest /\ d \in Drags /\ -d \in Drags
      /\ Chase \in Int /\ Steepest \in Nat /\ Radian \in Nat /\ Radian <= Vertical
      /\ Steepest <= Radian /\ Vertical \in Nat
    BY AngleAssumption DEF Left, PitchTypeOK, LeadsBack
<1> DEFINE w == Turn(-d, asked + (-d))
           once == Rotated(pitch, w, TurnLimit)
           sum == Sum(asked + (-d))
           x == Turn(d, sum + d)
           twice == Rotated(once, x, Steepest)
<1>1. w \in Int
    BY <1>0 DEF Turn
<1>2. TurnLimit \in Int /\ TurnLimit <= Steepest
    BY AngleAssumption DEF TurnLimit
<1>3. \A a \in Int : Abs(a) \in Int
    BY DEF Abs
<1>4. once = Chase \/ (once \in Int /\ Abs(once) <= Steepest)
  <2> HIDE DEF w
  <2>1. once = Chase \/ (once \in Int /\ Abs(once) <= TurnLimit)
      BY <1>0, <1>1, <1>2, RotatedWithin
  <2> HIDE DEF once
  <2> QED BY <1>0, <1>2, <1>3, <2>1
<1>5. sum \in (-Radian) .. Radian - d
    BY <1>0 DEF Sum
<1> HIDE DEF sum, once, w
<1>6. x = d
    BY <1>0, <1>5 DEF Turn
<1> HIDE DEF x
<1>7. ASSUME once = Chase PROVE Abs(twice) <= Steepest
  <2>1. Above(Chase + d) = Chase + d /\ Abs(Chase + d) <= Steepest
    <3>1. Chase + d \in Int /\ Chase + d \in (-Vertical) .. Vertical
        BY <1>0
    <3>2. Above(Chase + d) = Chase + d
        BY <3>1, AboveIs
    <3> QED BY <1>0, <3>2 DEF Abs
  <2>2. twice = Chase + d
      BY <1>0, <1>3, <1>6, <1>7, <2>1 DEF Rotated
  <2> HIDE DEF twice
  <2> QED BY <2>1, <2>2
<1>8. ASSUME once \in Int, Abs(once) <= Steepest PROVE Abs(twice) <= Steepest
  <2>1. twice = once \/ (twice \in Int /\ Abs(twice) <= Steepest)
      BY <1>0, <1>6, <1>8, RotatedWithin
  <2> HIDE DEF twice
  <2> QED BY <1>8, <2>1
<1>9. Abs(twice) <= Steepest
    BY <1>4, <1>7, <1>8
<1> QED BY <1>0, <1>9 DEF ComesBack, once, sum, w, x, twice

\* Camera.cpp, mouseRotateCamera: whatever drags there are, as long as one of them
\* leads from a pursuit's angle to where turns are accepted and there is its
\* opposite, a camera that a pursuit has left too steep can be dragged back.
THEOREM ComesBackAlways == ASSUME NEW d, LeadsBack(d) PROVE PitchSpec => []ComesBack
<1>1. Left => ComesBack
    BY LeftComesBack
<1> QED BY <1>1, LeftInit, LeftNext, PTL DEF PitchSpec

(***************************************************************************)
(* The approach to a destination, and the view modes.  That Root exists is  *)
(* proved by induction over the natural numbers, which is derived from the  *)
(* cardinality of finite sets.                                              *)
(***************************************************************************)

LEMMA SetInduction ==
    ASSUME NEW S, 0 \in S, \A n \in Nat : n \in S => n + 1 \in S
    PROVE  Nat \subseteq S
<1> SUFFICES ASSUME NEW n \in Nat, n \notin S PROVE FALSE
    OBVIOUS
<1> DEFINE T == S \cap (0 .. n)
           f == [x \in T |-> x + 1]
<1>1. IsFiniteSet(0 .. n)
    BY FS_Interval
<1>2. IsFiniteSet(T)
    BY <1>1, FS_Subset
<1>3. 0 \in T
    OBVIOUS
<1>4. IsFiniteSet(T \ {0}) /\ Cardinality(T \ {0}) = Cardinality(T) - 1
    BY <1>2, <1>3, FS_RemoveElement
<1>5. \A x \in T : x + 1 \in T \ {0}
    OBVIOUS
<1>6. f \in Injection(T, T \ {0})
  <2>1. f \in [T -> T \ {0}]
    BY <1>5
  <2>2. \A x, y \in T : f[x] = f[y] => x = y
    OBVIOUS
  <2> QED BY <2>1, <2>2 DEF Injection, IsInjective
<1>7. Cardinality(T) <= Cardinality(T \ {0})
  <2> HIDE DEF f, T
  <2> QED BY <1>4, <1>6, FS_Injection
<1>8. Cardinality(T) \in Nat
    BY <1>2, FS_CardinalityType
<1> QED BY <1>4, <1>7, <1>8

LEMMA RootExists == \A n \in Nat : \E r \in 0 .. n : r * r <= n /\ n < (r + 1) * (r + 1)
<1> DEFINE S == {n \in Nat : \E r \in 0 .. n : r * r <= n /\ n < (r + 1) * (r + 1)}
<1>1. 0 \in S
  OBVIOUS
<1>2. ASSUME NEW n \in Nat, n \in S PROVE n + 1 \in S
  <2>1. PICK r \in 0 .. n : r * r <= n /\ n < (r + 1) * (r + 1)
    BY <1>2
  <2>2. CASE n + 1 < (r + 1) * (r + 1)
    BY <2>1, <2>2
  <2>3. CASE ~(n + 1 < (r + 1) * (r + 1))
    <3>1. n + 1 = (r + 1) * (r + 1)
      BY <2>1, <2>3
    <3>2. n + 1 < (r + 1 + 1) * (r + 1 + 1)
      BY <2>1, <3>1
    <3>3. r + 1 \in 0 .. n + 1
      BY <2>1
    <3>4. \E s \in 0 .. n + 1 : s * s <= n + 1 /\ n + 1 < (s + 1) * (s + 1)
      <4> DEFINE s == r + 1
      <4>1. s \in 0 .. n + 1 /\ s * s <= n + 1 /\ n + 1 < (s + 1) * (s + 1)
        BY <3>1, <3>2, <3>3
      <4> HIDE DEF s
      <4> QED BY <4>1
    <3> QED BY <3>4
  <2> QED BY <2>2, <2>3
<1>3. Nat \subseteq S
  <2> HIDE DEF S
  <2> QED BY <1>1, <1>2, SetInduction
<1> QED BY <1>3

\* The root is the one, and it is at most r for every square from n up.
LEMMA RootBounds ==
    ASSUME NEW d \in Nat, d >= Unit
    PROVE  Root(d * Unit) \in 1 .. d
<1> DEFINE n == d * Unit
<1>1. n \in Nat \ {0} /\ n <= d * d
    BY RoomAssumption
<1> HIDE DEF n
<1>2. /\ Root(n) \in 0 .. n
      /\ Root(n) * Root(n) <= n /\ n < (Root(n) + 1) * (Root(n) + 1)
  <2>1. \E r \in 0 .. n : r * r <= n /\ n < (r + 1) * (r + 1)
      BY <1>1, RootExists
  <2> QED BY <2>1, Zenon DEF Root
<1>3. Root(n) # 0
    BY <1>1, <1>2
<1>4. Root(n) <= d
  <2>1. SUFFICES ASSUME Root(n) >= d + 1 PROVE FALSE
      BY <1>2
  <2>2. Root(n) * Root(n) >= (d + 1) * (d + 1)
    <3> DEFINE r == Root(n)
    <3>1. r \in Int /\ r >= d + 1
        BY <1>2, <2>1
    <3> HIDE DEF r
    <3>2. r * r >= (d + 1) * (d + 1)
        BY <3>1
    <3> QED BY <3>2 DEF r
  <2>3. (d + 1) * (d + 1) > d * d
      OBVIOUS
  <2> QED BY <1>1, <1>2, <2>2, <2>3
<1> QED BY <1>2, <1>3, <1>4 DEF n

\* updateLocation, from any place to any other and whatever a metre is divided into:
\* a step neither overshoots its destination nor stalls before it, and ends there if
\* less than a metre is left.
THEOREM ApproachGetsNearer ==
    ASSUME NEW v \in Int, NEW to \in Int
    PROVE  /\ Approach(v, to) \in Int
           /\ v <= to => v <= Approach(v, to) /\ Approach(v, to) <= to
           /\ to <= v => to <= Approach(v, to) /\ Approach(v, to) <= v
           /\ v # to => Dist(Approach(v, to), to) < Dist(v, to)
           /\ Dist(v, to) < Unit => Approach(v, to) = to
<1>1. Dist(v, to) \in Nat
    BY DEF Dist
<1>2. CASE Dist(v, to) < Unit
    BY <1>2, RoomAssumption DEF Approach, Dist
<1>3. CASE ~(Dist(v, to) < Unit)
  <2>1. Root(Dist(v, to) * Unit) \in 1 .. Dist(v, to)
      BY <1>1, <1>3, RootBounds, RoomAssumption
  <2> DEFINE r == Root(Dist(v, to) * Unit)
  <2>2. Approach(v, to) = IF v < to THEN v + r ELSE v - r
      BY <1>3 DEF Approach, Towards
  <2> HIDE DEF r
  <2>3. r \in 1 .. (IF v < to THEN to - v ELSE v - to)
      BY <2>1 DEF Dist, r
  <2> QED BY <1>3, <2>2, <2>3 DEF Dist
<1> QED BY <1>2, <1>3

LEMMA ViewTypeInit == ViewInit => ViewTypeOK
<1>1. Room \in Nat
    BY RoomAssumption
<1>2. ViewInit => view \in Int /\ dest \in Int /\ car \in Int
    BY <1>1 DEF ViewInit
<1>3. ViewInit => pursuit \in BOOLEAN /\ pressed \subseteq Movers
    BY DEF ViewInit
<1> QED BY <1>2, <1>3 DEF ViewTypeOK

LEMMA DisplayMoves ==
    ASSUME NEW from \in Int, NEW to \in Int, NEW at \in Int, Display(from, to, at)
    PROVE  view' \in Int /\ dest' \in Int
<1>1. dest' \in Int
    BY DEF Display
<1> QED BY <1>1, ApproachGetsNearer DEF Display

LEMMA ViewTypeNext == ViewTypeOK /\ [ViewNext]_viewVars => ViewTypeOK'
<1> SUFFICES ASSUME ViewTypeOK, [ViewNext]_viewVars PROVE ViewTypeOK'
    OBVIOUS
<1>0. /\ view \in Int /\ dest \in Int /\ car \in Int
      /\ pursuit \in BOOLEAN /\ pressed \subseteq Movers
    BY DEF ViewTypeOK
<1>1. CASE Frame
  <2>1. car' \in Int /\ pursuit' = pursuit /\ pressed' = pressed
      BY <1>1, RoomAssumption DEF Frame, Places
  <2>2. Shifted(dest) \in Int /\ (IF pressed = {} THEN view ELSE Shifted(dest)) \in Int
      BY <1>0, RoomAssumption DEF Shifted
  <2>3. view' \in Int /\ dest' \in Int
      BY <1>1, <2>1, <2>2, DisplayMoves DEF Frame
  <2> QED BY <1>0, <2>1, <2>3 DEF ViewTypeOK
<1>2. CASE Redraw
  <2>1. car' = car /\ pursuit' = pursuit /\ pressed' = pressed
      BY <1>2 DEF Redraw
  <2>2. view' \in Int /\ dest' \in Int
      BY <1>0, <1>2, DisplayMoves DEF Redraw
  <2> QED BY <1>0, <2>1, <2>2 DEF ViewTypeOK
<1>3. ASSUME NEW k \in Movers \cup {"p", "0"}, KeyDown(k) \/ KeyUp(k) PROVE ViewTypeOK'
  <2>1. view' = view /\ car' = car /\ (dest' = dest \/ dest' = 0)
      BY <1>3 DEF KeyDown, KeyUp
  <2>2. pursuit' \in BOOLEAN
      BY <1>0, <1>3, Zenon DEF KeyDown, KeyUp
  <2>3. pressed' \subseteq Movers
      BY <1>0, <1>3 DEF KeyDown, KeyUp
  <2>4. dest' \in Int
      BY <1>0, <2>1
  <2> QED BY <1>0, <2>1, <2>2, <2>3, <2>4 DEF ViewTypeOK
<1>4. CASE DragStraight
    BY <1>0, <1>4 DEF DragStraight, ViewTypeOK
<1>5. CASE UNCHANGED viewVars
    BY <1>0, <1>5 DEF viewVars, ViewTypeOK
<1> QED BY <1>1, <1>2, <1>3, <1>4, <1>5 DEF ViewNext, UserActs

\* A record with a look for its mode, or the look of a pursuit.
Cameras ==
    [mode : Modes, at : Int, to : Int, up : 0 .. 1, look : Vector,
     pursuit : BOOLEAN, chased : BOOLEAN]
Fits(c) ==
    /\ c.mode = "topdown" /\ ~c.chased => c.look = Below
    /\ c.mode = "starcraft" /\ ~c.chased => c.look = Slanted
    /\ c.mode \notin Overhead =>
        c.look.y \in {0, -1} /\ Dot(c.look, c.look) = 1 - c.look.y
    /\ c.chased => c.look \in Chases
Looks == {c \in Cameras : Fits(c)}
Fitting == cam \in Looks

LEMMA ShiftType == Shift \in Int /\ Pace \in Int /\ Unit \in Int
BY RoomAssumption DEF Shift

LEMMA LooksInit == ModesInit => cam \in Looks
BY DEF ModesInit, Looks, Cameras, Fits, Modes, Overhead, V, Vector, Dot

LEMMA NextLooks ==
    ASSUME NEW c \in Looks
    PROVE  NextViewMode(c) \in Looks /\ NextViewMode(c).mode = NextOf(c.mode)
<1> DEFINE mode == NextOf(c.mode)
           to == IF mode \in Overhead THEN c.to - Shift
                 ELSE IF c.mode \in Overhead THEN c.to + Shift ELSE c.to
           look == IF mode = "topdown" THEN Below
                   ELSE IF c.mode \in Overhead THEN Slanted ELSE c.look
           chased == c.chased /\ ~(mode \in Overhead \/ c.mode \in Overhead)
<1>1. c \in Cameras /\ Fits(c)
    BY DEF Looks
<1>2. mode \in Modes
    BY <1>1 DEF NextOf, Modes, Cameras
<1>3. to \in Int /\ c.at \in Int
    BY <1>1, ShiftType DEF Cameras
<1>4. Approach(c.at, to) \in Int
    BY <1>3, ApproachGetsNearer
<1>5. Below \in Vector /\ Slanted \in Vector /\ look \in Vector
    BY <1>1 DEF Below, Slanted, V, Vector, Cameras
<1>6. NextViewMode(c) = [c EXCEPT !.mode = mode, !.to = to, !.at = Approach(c.at, to),
                                    !.look = look, !.chased = chased]
    BY DEF NextViewMode
<1>0. chased \in BOOLEAN /\ (chased => look \in Chases)
    BY <1>1 DEF Fits, Overhead
<1>7. /\ mode = "topdown" /\ ~chased => look = Below
      /\ mode = "starcraft" /\ ~chased => look = Slanted
      /\ mode \notin Overhead => look.y \in {0, -1} /\ Dot(look, look) = 1 - look.y
  <2>1. Slanted.y = -1 /\ Dot(Slanted, Slanted) = 2
      BY DEF Slanted, V, Dot
  <2> QED BY <1>1, <2>1 DEF NextOf, Overhead, Fits, Cameras, Modes
<1> HIDE DEF mode, to, look, chased
<1>8. NextViewMode(c) \in Cameras
    BY <1>0, <1>1, <1>2, <1>3, <1>4, <1>5, <1>6 DEF Cameras
<1>9. /\ NextViewMode(c).mode = mode /\ NextViewMode(c).look = look
      /\ NextViewMode(c).chased = chased
    BY <1>1, <1>6 DEF Cameras
<1> QED BY <1>0, <1>7, <1>8, <1>9 DEF Looks, Fits, mode

\* gotoViewMode ends: four steps on at most.
LEMMA GotoLooks ==
    ASSUME NEW c \in Looks, NEW m \in Modes
    PROVE  GotoViewMode(m, c) \in Looks /\ GotoViewMode(m, c).mode = m
<1> DEFINE c1 == NextViewMode(c)   c2 == NextViewMode(c1)
           c3 == NextViewMode(c2)  c4 == NextViewMode(c3)
<1>1. c1 \in Looks /\ c1.mode = NextOf(c.mode)
    BY NextLooks
<1> HIDE DEF c1
<1>2. c2 \in Looks /\ c2.mode = NextOf(c1.mode)
    BY <1>1, NextLooks
<1> HIDE DEF c2
<1>3. c3 \in Looks /\ c3.mode = NextOf(c2.mode)
    BY <1>2, NextLooks
<1> HIDE DEF c3
<1>4. c4 \in Looks /\ c4.mode = NextOf(c3.mode)
    BY <1>3, NextLooks
<1> HIDE DEF c4
<1>5. \E d \in {c, c1, c2, c3, c4} : d.mode = m
  <2>1. c.mode \in Modes
      BY DEF Looks, Cameras
  <2> QED BY <1>1, <1>2, <1>3, <1>4, <2>1 DEF NextOf, Modes
<1>6. GotoViewMode(m, c) = CHOOSE d \in {c, c1, c2, c3, c4} : d.mode = m
    BY DEF GotoViewMode, c1, c2, c3, c4
<1> QED BY <1>1, <1>2, <1>3, <1>4, <1>5, <1>6

LEMMA ArrivedLooks ==
    ASSUME NEW c \in Cameras, NEW to \in Int, NEW up \in 0 .. 1, NEW look \in Vector
    PROVE  /\ Arrived([c EXCEPT !.to = to]) \in Cameras
           /\ Arrived([c EXCEPT !.look = look, !.to = to]) \in Cameras
           /\ Arrived([c EXCEPT !.up = up]) \in Cameras
BY DEF Arrived, Cameras

LEMMA QuarterLooks ==
    ASSUME NEW q \in {-1, 0, 1}, NEW v \in Vector
    PROVE  /\ Quarter(q, v) \in Vector /\ Quarter(q, v).y = v.y
           /\ Dot(Quarter(q, v), Quarter(q, v)) = Dot(v, v)
<1>1. CASE q = 0
    BY <1>1 DEF Quarter
<1>2. CASE q = 1
    BY <1>2 DEF Quarter, V, Vector, Dot
<1>3. CASE q = -1
    BY <1>3 DEF Quarter, V, Vector, Dot
<1> QED BY <1>1, <1>2, <1>3

LEMMA QuarterChases ==
    ASSUME NEW q \in {-1, 0, 1}, NEW v \in Chases
    PROVE  Quarter(q, v) \in Chases
<1>1. CASE q = 0
    BY <1>1 DEF Quarter
<1>2. CASE q = 1
    BY <1>2 DEF Quarter, V, Chases
<1>3. CASE q = -1
    BY <1>3 DEF Quarter, V, Chases
<1> QED BY <1>1, <1>2, <1>3

LEMMA ChaseIs ==
    ASSUME NEW v \in Chases
    PROVE  v \in Vector /\ v.y = -1 /\ Dot(v, v) = 2
BY DEF Chases, V, Vector, Dot

LEMMA ChasedLooks ==
    ASSUME NEW c \in Cameras, NEW place \in Int, NEW h \in Chases
    PROVE  Chased(c, place, h) \in Looks
<1> DEFINE to == Approach(c.at, place)  d == Chased(c, place, h)
<1>1. to \in Int
    BY ApproachGetsNearer DEF Cameras
<1>2. h \in Vector /\ h.y = -1 /\ Dot(h, h) = 2
    BY ChaseIs
<1>3. d = [c EXCEPT !.to = place, !.up = 1, !.at = to, !.look = h, !.chased = TRUE]
    BY DEF Chased
<1> HIDE DEF to, d
<1>4. d \in Cameras
  <2> DEFINE e == [mode |-> c.mode, at |-> to, to |-> place, up |-> 1, look |-> h,
                   pursuit |-> c.pursuit, chased |-> TRUE]
  <2>1. d = e
      BY <1>3 DEF Cameras
  <2>2. 1 \in 0 .. 1 /\ TRUE \in BOOLEAN
      OBVIOUS
  <2>3. c.mode \in Modes /\ c.pursuit \in BOOLEAN
      BY DEF Cameras
  <2>4. e \in Cameras
      BY <1>1, <1>2, <2>2, <2>3, Zenon DEF Cameras
  <2> QED BY <2>1, <2>4
<1>5. d.look = h /\ d.chased = TRUE
    BY <1>3 DEF Cameras
<1>6. Fits(d)
    BY <1>2, <1>5 DEF Fits
<1> QED BY <1>4, <1>6 DEF Looks, d

LEMMA LooksNext == cam \in Looks /\ [ModesNext]_cam => cam' \in Looks
<1> SUFFICES ASSUME cam \in Looks, ModesNext PROVE cam' \in Looks
    OBVIOUS
<1>0. cam \in Cameras /\ Fits(cam) /\ cam'.up \in 0 .. 1
    BY DEF Looks, ModesNext, InRoom
<1>1. CASE cam' = NextViewMode(cam)
    BY <1>1, NextLooks
<1>2. ASSUME NEW m \in Modes, cam' = GotoViewMode(m, cam) PROVE cam' \in Looks
    BY <1>2, GotoLooks
<1>3. ASSUME NEW sign \in {-1, 1}, cam' = Strafed(sign, cam) PROVE cam' \in Looks
  <2>1. cam.to + sign * Pace \in Int
      BY <1>0, ShiftType DEF Cameras
  <2> QED BY <1>0, <1>3, <2>1 DEF Strafed, Arrived, Looks, Cameras, Fits
<1>4. ASSUME NEW sign \in {-1, 1}, cam' = Climbed(sign, cam) PROVE cam' \in Looks
    BY <1>0, <1>4 DEF Climbed, Arrived, Looks, Cameras, Fits
<1>5. ASSUME NEW dx \in {-1, 0, 1}, NEW dy \in {-1, 0, 1}, NEW shift \in BOOLEAN,
             cam' = MouseMoved(dx, dy, shift, cam)
      PROVE  cam' \in Looks
  <2>1. CASE cam.mode \notin Overhead
    <3> DEFINE look == Quarter(-dx, cam.look)
    <3>1. look \in Vector /\ look.y = cam.look.y /\ Dot(look, look) = Dot(cam.look, cam.look)
        BY <1>0, QuarterLooks DEF Cameras
    <3>2. cam' = Arrived([cam EXCEPT !.look = look, !.to = cam.at])
        BY <1>5, <2>1 DEF MouseMoved
    <3> HIDE DEF look
    <3>3. /\ cam' \in Cameras /\ cam'.look = look /\ cam'.mode = cam.mode
          /\ cam'.chased = cam.chased
        BY <1>0, <3>1, <3>2 DEF Arrived, Cameras
    <3>4. cam.chased => look \in Chases
        BY <1>0, QuarterChases DEF Fits, look
    <3> QED BY <1>0, <2>1, <3>1, <3>3, <3>4 DEF Looks, Fits, Overhead
  <2>2. CASE cam.mode \in Overhead /\ shift
    <3>1. cam.to - dy * Unit \in Int
        BY <1>0, ShiftType DEF Cameras
    <3>2. cam' = Arrived([cam EXCEPT !.to = cam.to - dy * Unit])
        BY <1>5, <2>2 DEF MouseMoved
    <3> QED BY <1>0, <3>1, <3>2 DEF Arrived, Looks, Cameras, Fits
  <2>3. CASE cam.mode \in Overhead /\ ~shift
      BY <1>5, <2>3 DEF MouseMoved
  <2> QED BY <2>1, <2>2, <2>3
<1>6. CASE cam' = Moved(cam)
  <2>1. Approach(cam.at, cam.to) \in Int
      BY <1>0, ApproachGetsNearer DEF Cameras
  <2> QED BY <1>0, <1>6, <2>1 DEF Moved, Looks, Cameras, Fits
<1>7. CASE cam' = Toggled(cam)
    BY <1>0, <1>7 DEF Toggled, Looks, Cameras, Fits
<1>8. ASSUME NEW at \in Places, NEW h \in Chases, cam' = Chased(cam, at, h)
      PROVE  cam' \in Looks
  <2>1. at \in Int
      BY RoomAssumption DEF Places
  <2> QED BY <1>0, <1>8, <2>1, ChasedLooks
<1> QED BY <1>1, <1>2, <1>3, <1>4, <1>5, <1>6, <1>7, <1>8 DEF ModesNext

\* Camera.cpp, nextViewMode and gotoViewMode, and display: whatever moves, drags,
\* approaches and pursuits come between, a mode from above has its own look unless a
\* pursuit has turned the camera since, which then looks along the vehicle's heading;
\* and in the others the camera never looks down more steeply than starcraft does.
THEOREM LooksByModeAlways == ModesSpec => []LooksByMode
<1>1. Fitting => LooksByMode
    BY DEF Fitting, Looks, Fits, LooksByMode
<1>2. ModesInit => Fitting
    BY LooksInit DEF Fitting
<1>3. Fitting /\ [ModesNext]_cam => Fitting'
    BY LooksNext DEF Fitting
<1> QED BY <1>1, <1>2, <1>3, PTL DEF ModesSpec
==================================================================================
