------------------------------- MODULE Frustum -------------------------------
(***************************************************************************)
(* The view volume that the display's camera keeps (DisplayModule/src/      *)
(* Frustum.cpp): six planes, computed anew whenever the camera looks, its   *)
(* corners, and the test of a sphere against the planes.                   *)
(*                                                                         *)
(* Directions and normals have the length Span.  A plane is a normal that   *)
(* points inwards and an offset.  The angles of the volume are given by     *)
(* their tangents side / ahead, with edge^2 = side^2 + ahead^2, so that the  *)
(* vectors the code normalises have exact components.  A tangent may be     *)
(* negative: the camera gives the angle in degrees (Camera.cpp:104), and    *)
(* its tangent is taken as of radians.                                     *)
(***************************************************************************)
EXTENDS Space

CONSTANTS
    Span,           \* the length of a direction
    Metre,          \* the units of length that make a metre
    NearDist, FarDist,  \* near and far
    TanH, TanV,     \* the tangents of half of hfov and vfov
    Grid            \* where points are put to the test

ASSUME FrustumAssumption ==
    /\ Span \in Nat \ {0} /\ Metre \in Nat \ {0}
    /\ NearDist \in Nat /\ FarDist \in Nat
    /\ \A t \in {TanH, TanV} :
        /\ t \in [side : Int, ahead : Nat \ {0}, edge : Nat \ {0}]
        /\ t.edge * t.edge = t.side * t.side + t.ahead * t.ahead
    /\ Grid \subseteq Int

Up == V(0, 1, 0)

Size(n) == IF n < 0 THEN -n ELSE n
Longest(v) == CHOOSE n \in {Size(v.x), Size(v.y), Size(v.z)} :
    n >= Size(v.x) /\ n >= Size(v.y) /\ n >= Size(v.z)
Length(v) ==
    CHOOSE n \in Longest(v) .. Size(v.x) + Size(v.y) + Size(v.z) : n * n = Dot(v, v)

\* VectorMaths::normalise, for a vector whose result is exact.
Normalised(v, n) == Over(Times(n, v), Length(v))

RightDir(dir) == Normalised(Cross(dir, Up), Span)
\* Both factors have the length Span and are at right angles.
UpDir(dir) == Over(Cross(RightDir(dir), dir), Span)

\* A direction in a side plane: along the axis, and across it by the tangent.
Slope(dir, across, t, sign) ==
    Over(Plus(Times(t.ahead, dir), Times(sign * t.side, across)), t.edge)

Plane(normal, offset) == [normal |-> normal, offset |-> offset]
Through(normal, p) == Plane(normal, -Dot(normal, p))
Normal(u, v) == Over(Cross(u, v), Span)

Ahead(pos, dir, d) == Plus(pos, Over(Times(d, dir), Span))

\* Its offset adds where the others multiply.
LeftPlane(pos, dir) ==
    LET n == Normal(Slope(dir, RightDir(dir), TanH, -1), UpDir(dir))
    IN  Plane(n, -n.x * Metre + pos.x * Span - n.y * pos.y - n.z * pos.z)

\* A mutant of Planes: the upper and the lower plane take the other angle.
PlanesOneAngle(pos, dir) ==
    LET r == RightDir(dir)  u == UpDir(dir)
    IN  [near |-> Through(dir, Ahead(pos, dir, NearDist)),
         far |-> Through(Times(-1, dir), Ahead(pos, dir, FarDist)),
         right |-> Through(Normal(u, Slope(dir, r, TanH, 1)), pos),
         left |-> LeftPlane(pos, dir),
         up |-> Through(Normal(Slope(dir, u, TanH, 1), r), pos),
         down |-> Through(Normal(r, Slope(dir, u, TanH, -1)), pos)]

\* update
Planes(pos, dir) ==
    LET r == RightDir(dir)  u == UpDir(dir)
    IN  [near |-> Through(dir, Ahead(pos, dir, NearDist)),
         far |-> Through(Times(-1, dir), Ahead(pos, dir, FarDist)),
         right |-> Through(Normal(u, Slope(dir, r, TanH, 1)), pos),
         left |-> LeftPlane(pos, dir),
         up |-> Through(Normal(Slope(dir, u, TanV, 1), r), pos),
         down |-> Through(Normal(r, Slope(dir, u, TanV, -1)), pos)]

\* renderFrustumPlanes: the vertices, at distance d and on the sides h and v.
Corner(pos, dir, d, h, v) ==
    LET across(t, sign) == (sign * d * t.side) \div t.ahead
    IN  Plus(Ahead(pos, dir, d),
             Plus(Over(Times(across(TanV, v), UpDir(dir)), Span),
                  Over(Times(across(TanH, h), RightDir(dir)), Span)))

\* On which side of a plane a point lies, and how far, times Span.
Side(plane, p) == Dot(plane.normal, p) + plane.offset

\* sphereInFrustum
Kept(planes, c, rad) ==
    \A face \in DOMAIN planes : Side(planes[face], c) >= -(rad * Span)

Around(pos) == {Plus(pos, V(x, y, z)) : x, y, z \in Grid}
==============================================================================
