---------------------------- MODULE DesignRules ----------------------------
(***************************************************************************)
(* DesignValidator (app/services/validator.py): the errors it reports for  *)
(* a document, as a set of codes.  Warnings, which only ask for a review,  *)
(* and the table of the NEMA17 face are left out.                          *)
(*                                                                         *)
(* A base is [kind, size, wall, inner, outer]: its three dimensions, the   *)
(* thickness of a wall or bracket, the inner diameter of a ring, and the   *)
(* loop of a profile.  A hole is [at, axis, diameter, type, depth, head]:  *)
(* head is the diameter of a counterbore or countersink, else 0, and depth *)
(* that of a blind hole or counterbore, 0 for the others.  Countersinks    *)
(* have 90 degrees.  Every number is twice what it is in the document.     *)
(***************************************************************************)
EXTENDS ProfileGeometry

CONSTANT MaxDimension     \* MAX_DIMENSION_MM, doubled like every number

ASSUME MaxDimensionAssumption == MaxDimension \in Nat

X == 1
Y == 2
Z == 3

Dimensions(base) ==
  CASE base.kind = "profile_extrusion" ->
         <<Width(base.outer), Height(base.outer), base.size[Z]>>
    [] base.kind = "profile_revolution" ->
         <<2 * Max(Xs(base.outer)), 2 * Max(Xs(base.outer)), Height(base.outer)>>
    [] OTHER -> base.size

MaterialDepth(base, axis) ==
  CASE base.kind = "enclosure" -> base.wall
    [] base.kind = "l_bracket" -> IF axis = X THEN base.size[X] ELSE base.wall
    [] OTHER -> Dimensions(base)[axis]

EffectiveDiameter(h) == Max({h.diameter, h.head})

(* The coordinates of a hole in the plane it goes through.                 *)
PlaneAxes(axis) == CASE axis = Z -> <<X, Y>> [] axis = X -> <<Y, Z>> [] OTHER -> <<X, Z>>
InPlane(h) == [k \in 1 .. 2 |-> h.at[PlaneAxes(h.axis)[k]]]

(* A part stands on the plane z = 0 and is centred on the other two axes.  *)
PlaneCenter(base, axis) ==
  [k \in 1 .. 2 |-> IF PlaneAxes(axis)[k] = Z THEN Dimensions(base)[Z] \div 2 ELSE 0]

Abs(n) == IF n < 0 THEN -n ELSE n

----------------------------------------------------------------------------
(* The schema of a document: what its models refuse (models/cad.py).       *)

Profiled == {"profile_extrusion", "profile_revolution"}

BaseFeature ==
  [kind : {"plate", "cylinder", "ring", "l_bracket", "enclosure"} \cup Profiled,
   size : Int \X Int \X Int, wall : Int, inner : Int, outer : Seq(Segment)]

HoleFeature ==
  [at : Int \X Int \X Int, axis : {X, Y, Z}, diameter : Int,
   type : {"through", "blind", "counterbore", "countersink"}, depth : Int, head : Int]

CutoutFeature ==
  [face : {X, Y}, side : {1, -1}, at : Int \X Int \X Int, width : Int, height : Int]

BaseFits(base) ==
  /\ base.kind \notin Profiled => \A k \in 1 .. 3 : base.size[k] > 0
  /\ base.kind \in {"cylinder", "ring"} => base.size[X] = base.size[Y]
  /\ base.kind = "ring" => 0 < base.inner /\ base.inner < base.size[X]
  /\ base.kind = "l_bracket" =>
       /\ 0 < base.wall
       /\ base.wall < base.size[Y] /\ base.wall < base.size[Z] - base.wall
  /\ base.kind = "enclosure" =>
       /\ 0 < base.wall
       /\ 2 * base.wall < base.size[X] /\ 2 * base.wall < base.size[Y]
       /\ base.wall < base.size[Z]
  /\ base.kind = "profile_extrusion" => base.size[Z] > 0
  /\ base.kind \in Profiled => base.outer # <<>>

HoleFits(h) ==
  /\ 0 < h.diameter /\ 0 <= h.depth /\ 0 <= h.head
  /\ h.type \in {"blind", "counterbore"} => 0 < h.depth
  /\ h.type \in {"counterbore", "countersink"} => h.head > h.diameter

(* The numbers that are fields of their own.  The upright of an L-bracket  *)
(* stands on its plate, and a profile has no size but its points.          *)
BaseNumbers(base) ==
  {base.size[X], base.size[Y], base.wall, base.inner,
   IF base.kind = "l_bracket" THEN base.size[Z] - base.wall ELSE base.size[Z]}
    \cup Xs(base.outer) \cup Ys(base.outer)

HoleNumbers(h) == {h.at[X], h.at[Y], h.at[Z], h.diameter, h.depth, h.head}

CutoutNumbers(c) == {c.at[X], c.at[Y], c.at[Z], c.width, c.height}

InRange(n) == Abs(n) <= MaxDimension

WithinLimits(doc) ==
  /\ \A n \in BaseNumbers(doc.base) : InRange(n)
  /\ \A i \in DOMAIN doc.holes : \A n \in HoleNumbers(doc.holes[i]) : InRange(n)
  /\ \A c \in doc.cutouts : \A n \in CutoutNumbers(c) : InRange(n)
  /\ \A edge \in doc.edges : InRange(edge.size)

FitsSchema(doc) ==
  /\ BaseFits(doc.base) /\ WithinLimits(doc)
  /\ \A i \in DOMAIN doc.holes : HoleFits(doc.holes[i])
  /\ doc.base.kind = "profile_revolution" =>
       doc.holes = <<>> /\ doc.cutouts = {} /\ doc.edges = {}

Code(condition, code) == IF condition THEN {code} ELSE {}

----------------------------------------------------------------------------
(* _profile_checks                                                         *)

BrokenSegments(loop) ==
  LET n == Len(loop) IN
  Code(\E i \in 1 .. n : IsDegenerate(loop[i]), "profile_degenerate_segment")
    \cup Code(\E i \in 1 .. n : loop[i].end # loop[(i % n) + 1].start,
              "profile_not_continuous")

RevolutionErrors(loop) ==
  Code(Max(Xs(loop)) <= 0, "revolution_zero_radius")
    \cup Code(Height(loop) = 0, "revolution_zero_height")

ProfileErrors(base) ==
  LET loop == base.outer
      revolved == base.kind = "profile_revolution"
      broken == BrokenSegments(loop)
  IN (IF revolved THEN RevolutionErrors(loop) ELSE {}) \cup
     IF broken # {} THEN broken
     ELSE Code(revolved /\ Min(Xs(loop)) < 0, "revolution_negative_radius")
            \cup Code(revolved /\ Min(Ys(loop)) < 0, "revolution_negative_z")
            \cup Code(SelfIntersects(loop), "profile_self_intersection")
            \cup Code(SignedArea2(loop) = 0, "profile_zero_area")

----------------------------------------------------------------------------
(* _hole_checks                                                            *)

(* Is a circle of this diameter inside a circle of another, both centred   *)
(* at a distance whose square is given?  distance + diameter/2 <= outer/2  *)
Within(distance2, diameter, outer) ==
  /\ diameter <= outer
  /\ 4 * distance2 <= Square(outer - diameter)

BoundaryErrors(base, h) ==
  LET diameter == EffectiveDiameter(h)
      p == InPlane(h)
      center == PlaneCenter(base, h.axis)
      span == [k \in 1 .. 2 |-> Dimensions(base)[PlaneAxes(h.axis)[k]]]
  IN CASE base.kind = "profile_revolution" -> {"revolution_hole_unsupported"}
       [] base.kind = "profile_extrusion" ->
            IF h.axis # Z THEN {"profile_side_hole_unsupported"}
            ELSE Code(~CircleInLoop(p, diameter \div 2, base.outer), "hole_outside_profile")
       [] base.kind \in {"cylinder", "ring"} /\ h.axis = Z ->
            IF ~Within(Distance2(p, <<0, 0>>), diameter, base.size[X])
            THEN {"hole_outside_part"}
            ELSE Code(/\ base.kind = "ring"
                      /\ Within(Distance2(p, <<0, 0>>), diameter, base.inner),
                      "hole_in_inner_void")
       [] OTHER ->
            Code(\E k \in 1 .. 2 : span[k] - 2 * Abs(p[k] - center[k]) - diameter < 0,
                 "hole_outside_part")

(* Planted fault: a hole may be as deep as the material.                   *)
BugTooDeep(depth, material) == depth > material

TooDeep(depth, material) == depth >= material

DepthErrors(base, h) ==
  LET material == MaterialDepth(base, h.axis) IN
  Code(h.type = "blind" /\ TooDeep(h.depth, material), "blind_depth_exceeds_material")
    \cup Code(h.type = "counterbore" /\ TooDeep(h.depth, material),
              "counterbore_depth_exceeds_material")
    \cup Code(h.type = "countersink" /\ TooDeep(h.head - h.diameter, 2 * material),
              "countersink_depth_exceeds_material")

Overlap(g, h) ==
  /\ g.axis = h.axis
  /\ 4 * Distance2(InPlane(g), InPlane(h)) <
       Square(EffectiveDiameter(g) + EffectiveDiameter(h))

HoleErrors(doc) ==
  LET holes == doc.holes IN
  (UNION {BoundaryErrors(doc.base, holes[i]) \cup DepthErrors(doc.base, holes[i]) :
            i \in DOMAIN holes})
    \cup Code(\E i, j \in DOMAIN holes : i < j /\ Overlap(holes[i], holes[j]),
              "overlapping_holes")

----------------------------------------------------------------------------
(* _cutout_checks: a cutout is [face, at, width, height], face the axis it *)
(* goes through.                                                           *)
CutoutErrors(doc) ==
  LET base == doc.base
      along(c) == IF c.face = X THEN Y ELSE X
  IN Code(doc.cutouts # {} /\ base.kind # "enclosure", "cutout_requires_enclosure")
       \cup Code(/\ base.kind = "enclosure"
                 /\ \E c \in doc.cutouts :
                      \/ base.size[along(c)] - 2 * Abs(c.at[along(c)]) - c.width < 0
                      \/ 2 * c.at[Z] - c.height < 0
                      \/ 2 * (base.size[Z] - c.at[Z]) - c.height < 0,
                 "cutout_outside_face")

(* _edge_checks: an edge treatment is [kind, size, vertical].              *)
EdgeErrors(doc) ==
  LET size == Dimensions(doc.base)
      limit(edge) == IF edge.vertical THEN Min({size[X], size[Y]})
                     ELSE Min({size[X], size[Y], size[Z]})
  IN {IF edge.kind = "fillet" THEN "fillet_too_large" ELSE "chamfer_too_large" :
        edge \in {e \in doc.edges : 2 * e.size >= limit(e)}}

(* _profile_checks: nothing may be cut from a part that is turned.         *)
RevolutionFeatureErrors(doc) ==
  Code(doc.holes # <<>> \/ doc.cutouts # {}, "revolution_secondary_feature_unsupported")
    \cup Code(doc.edges # {}, "revolution_edge_feature_unsupported")

(* validate: a document is valid when it has no error.                     *)
Errors(doc) ==
  (IF doc.base.kind = "profile_revolution" THEN RevolutionFeatureErrors(doc) ELSE {}) \cup
  (IF doc.base.kind \in Profiled
   THEN ProfileErrors(doc.base) ELSE {})
    \cup HoleErrors(doc) \cup CutoutErrors(doc) \cup EdgeErrors(doc)

=============================================================================
