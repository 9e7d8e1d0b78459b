-------------------------- MODULE ProfileGeometry --------------------------
(***************************************************************************)
(* app/services/profile_geometry.py on an integer lattice: closed profiles *)
(* made of straight lines.  Comparisons of lengths compare their squares,  *)
(* and an area is twice the area, so that no number is rounded.  Arcs are  *)
(* left out: they are only tessellated here.                               *)
(***************************************************************************)
EXTENDS Integers, Sequences, FiniteSets, FiniteSetsExt

(* A loop is a sequence of segments.                                       *)
Point == Int \X Int
Segment == [start : Point, end : Point]
Line(p, q) == [start |-> p, end |-> q]

Square(n) == n * n
Distance2(p, q) == Square(p[1] - q[1]) + Square(p[2] - q[2])

(* Twice the signed area of the triangle p q r.                            *)
Cross(p, q, r) ==
  (q[1] - p[1]) * (r[2] - p[2]) - (q[2] - p[2]) * (r[1] - p[1])

IsDegenerate(s) == s.start = s.end

(* loop_polyline: a segment starts where the one before it ended.          *)
Polyline(loop) ==
  [i \in 1 .. Len(loop) |->
     Line(IF i = 1 THEN loop[1].start ELSE loop[i - 1].end, loop[i].end)]

(* The same, closed if it was not.                                         *)
Boundary(loop) ==
  LET edges == Polyline(loop)
      last == loop[Len(loop)].end
  IN IF last = loop[1].start THEN edges
     ELSE Append(edges, Line(last, loop[1].start))

Corners(loop) == UNION {{loop[i].start, loop[i].end} : i \in DOMAIN loop}

(* loop_bounds                                                             *)
Xs(loop) == {p[1] : p \in Corners(loop)}
Ys(loop) == {p[2] : p \in Corners(loop)}
Width(loop) == Max(Xs(loop)) - Min(Xs(loop))
Height(loop) == Max(Ys(loop)) - Min(Ys(loop))

(* loop_signed_area, doubled                                               *)
SignedArea2(loop) ==
  LET edges == Boundary(loop) IN
  MapThenSumSet(LAMBDA i : edges[i].start[1] * edges[i].end[2]
                             - edges[i].end[1] * edges[i].start[2],
                DOMAIN edges)

OnSegment(p, s) ==
  /\ Cross(s.start, s.end, p) = 0
  /\ \A k \in 1 .. 2 :
       /\ Min({s.start[k], s.end[k]}) <= p[k]
       /\ p[k] <= Max({s.start[k], s.end[k]})

(* A horizontal ray from p to the right crosses the edge s.                *)
RayCrosses(p, s) ==
  LET rise == s.end[2] - s.start[2]
      run == (s.end[1] - s.start[1]) * (p[2] - s.start[2])
  IN /\ (s.start[2] > p[2]) # (s.end[2] > p[2])
     /\ IF rise > 0 THEN (p[1] - s.start[1]) * rise < run
                    ELSE (p[1] - s.start[1]) * rise > run

(* point_in_loop: inside or on the boundary                                *)
InLoop(p, loop) ==
  LET edges == Boundary(loop) IN
  /\ Len(loop) > 1
  /\ \/ \E i \in DOMAIN edges : OnSegment(p, edges[i])
     \/ Cardinality({i \in DOMAIN edges : RayCrosses(p, edges[i])}) % 2 = 1

(* point_to_segment_distance(p, s) >= r                                    *)
FarFrom(p, s, r) ==
  LET dx == s.end[1] - s.start[1]
      dy == s.end[2] - s.start[2]
      length2 == Square(dx) + Square(dy)
      along == (p[1] - s.start[1]) * dx + (p[2] - s.start[2]) * dy
  IN IF along <= 0 THEN Distance2(p, s.start) >= Square(r)
     ELSE IF along >= length2 THEN Distance2(p, s.end) >= Square(r)
     ELSE Square(Cross(s.start, s.end, p)) >= Square(r) * length2

CircleInLoop(center, r, loop) ==
  /\ InLoop(center, loop)
  /\ LET edges == Boundary(loop) IN
     \A i \in DOMAIN edges : FarFrom(center, edges[i], r)

Sign(n) == IF n > 0 THEN 1 ELSE IF n < 0 THEN -1 ELSE 0

SegmentsIntersect(s, t) ==
  \/ /\ Sign(Cross(s.start, s.end, t.start)) # Sign(Cross(s.start, s.end, t.end))
     /\ Sign(Cross(t.start, t.end, s.start)) # Sign(Cross(t.start, t.end, s.end))
  \/ OnSegment(t.start, s) \/ OnSegment(t.end, s)
  \/ OnSegment(s.start, t) \/ OnSegment(s.end, t)

(* Planted fault: the last edge is compared with no other.                 *)
BugCompared(i, j, n) == i + 1 < j /\ j < n

(* Edges next to each other, around the loop, are not compared.            *)
Compared(i, j, n) == i + 1 < j /\ ~(i = 1 /\ j = n)

SelfIntersects(loop) ==
  LET edges == Polyline(loop) IN
  \E i, j \in DOMAIN edges :
    Compared(i, j, Len(edges)) /\ SegmentsIntersect(edges[i], edges[j])

=============================================================================
