--------------------------- MODULE PointInPolygon ---------------------------
(***************************************************************************)
(* The test of geofence_node.py that a point is inside a polygon, over     *)
(* whole degrees: a corner, and a point, is a pair of latitude and         *)
(* longitude.  In the code they are floating-point numbers; the test has   *)
(* one division, which is multiplied out here.                             *)
(***************************************************************************)
EXTENDS FiniteSets, Integers, Sequences

CONSTANTS
  Degrees       (* bound: the latitudes and longitudes                     *)

ASSUME DegreesAssumption == Degrees \subseteq Int

VARIABLES
  probe,        (* a point,                                                *)
  polygon       (* and a polygon that it may be inside of                  *)

GeoPoints == Degrees \X Degrees

QuestionInit ==
  /\ probe \in GeoPoints
  /\ polygon \in [1..3 -> GeoPoints] \cup [1..4 -> GeoPoints]

(* is_point_inside_polygon: the edges crossed by the ray to the east are    *)
(* odd in number.  A polygon is a sequence of corners.                      *)

Lesser(x, y)  == IF x < y THEN x ELSE y
Greater(x, y) == IF x > y THEN x ELSE y

\* point.longitude <= lon_inters, without the division.
WestOf(point, a, b) ==
  LET rise == b[1] - a[1]
      left == (point[2] - a[2]) * rise
      right == (point[1] - a[1]) * (b[2] - a[2])
  IN IF rise > 0 THEN left <= right ELSE left >= right

\* Mutant: a corner on the ray counts for both of its edges.
Crosses_CornerTwice(point, a, b) ==
  /\ point[1] >= Lesser(a[1], b[1]) /\ point[1] <= Greater(a[1], b[1])
  /\ point[2] <= Greater(a[2], b[2])
  /\ a[2] = b[2] \/ WestOf(point, a, b)

Crosses(point, a, b) ==
  /\ point[1] > Lesser(a[1], b[1]) /\ point[1] <= Greater(a[1], b[1])
  /\ point[2] <= Greater(a[2], b[2])
  /\ a[2] = b[2] \/ WestOf(point, a, b)

is_point_inside_polygon(point, corners) ==
  LET n == Len(corners)
  IN Cardinality({i \in 1..n : Crosses(point, corners[i], corners[(i % n) + 1])}) % 2 = 1
-----------------------------------------------------------------------------
(* Properties. *)

\* The side of the line from a to b that a point is on: 0 for the line itself.
Side(point, a, b) ==
  LET cross == (b[1] - a[1]) * (point[2] - a[2]) - (b[2] - a[2]) * (point[1] - a[1])
  IN IF cross > 0 THEN 1 ELSE IF cross < 0 THEN -1 ELSE 0

\* A point strictly inside a triangle is inside, and one strictly outside is
\* not; and a diagonal divides a quadrilateral, whatever its shape, so that a
\* point is inside of it exactly when it is inside one of the two triangles.
TestIsGeometric ==
  IF Len(polygon) = 3
    THEN LET sides == {Side(probe, polygon[i], polygon[(i % 3) + 1]) : i \in 1..3} IN
         /\ sides \in {{1}, {-1}} => is_point_inside_polygon(probe, polygon)
         /\ {1, -1} \subseteq sides => ~is_point_inside_polygon(probe, polygon)
    ELSE is_point_inside_polygon(probe, polygon)
           = (is_point_inside_polygon(probe, SubSeq(polygon, 1, 3))
                # is_point_inside_polygon(probe, <<polygon[1], polygon[3], polygon[4]>>))
=============================================================================
