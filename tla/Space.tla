-------------------------------- MODULE Space --------------------------------
(***************************************************************************)
(* Vectors and quaternions as the display computes with them               *)
(* (DisplayModule/src/VectorMaths.cpp, Quaternion.cpp), with integer        *)
(* components: a vector of length n stands for n times a unit vector, and a *)
(* turn by a quaternion that is not of length 1 scales what it turns.       *)
(***************************************************************************)
EXTENDS Integers

Vector == [x : Int, y : Int, z : Int]
Quaternion == [x : Int, y : Int, z : Int, w : Int]

V(x, y, z) == [x |-> x, y |-> y, z |-> z]
Q(x, y, z, w) == [x |-> x, y |-> y, z |-> z, w |-> w]

Plus(a, b) == V(a.x + b.x, a.y + b.y, a.z + b.z)
Minus(a, b) == V(a.x - b.x, a.y - b.y, a.z - b.z)
Times(k, v) == V(k * v.x, k * v.y, k * v.z)
Over(v, k) == V(v.x \div k, v.y \div k, v.z \div k)

Dot(a, b) == a.x * b.x + a.y * b.y + a.z * b.z

Cross(u, v) ==
    V(u.y * v.z - u.z * v.y, u.z * v.x - u.x * v.z, u.x * v.y - u.y * v.x)

Conjugate(q) == Q(-q.x, -q.y, -q.z, q.w)

Mul(a, b) ==
    Q(a.w * b.x + a.x * b.w + a.y * b.z - a.z * b.y,
      a.w * b.y - a.x * b.z + a.y * b.w + a.z * b.x,
      a.w * b.z + a.x * b.y - a.y * b.x + a.z * b.w,
      a.w * b.w - a.x * b.x - a.y * b.y - a.z * b.z)

\* The turn about an axis whose half angle has the sine s and the cosine c, both
\* times a common factor: temp of rotateCameraAxis.
HalfTurn(axis, s, c) == Q(axis.x * s, axis.y * s, axis.z * s, c)

Pure(v) == Q(v.x, v.y, v.z, 0)
Part(q) == V(q.x, q.y, q.z)
Norm2(q) == q.x * q.x + q.y * q.y + q.z * q.z + q.w * q.w

\* (temp * quat_view) * temp_conj, a vector Norm2(q) times too long.
Rotate(q, v) == Part(Mul(Mul(q, Pure(v)), Conjugate(q)))
==============================================================================
