-------------------------- MODULE SourceCompilers --------------------------
(***************************************************************************)
(* The four compilers of sources that a server or a user runs: CadQuery    *)
(* (app/services/compiler.py), OpenSCAD (openscad.py), build123d           *)
(* (build123d_compiler.py) and FreeCAD (freecad_compiler.py).  Each one    *)
(* writes a program of its own for a document: it places boxes, cylinders  *)
(* and cones by the conventions of its kernel, and subtracts some of them  *)
(* from the others.                                                        *)
(*                                                                         *)
(* A source is [add, sub, edges]: the primitives that are joined, those    *)
(* that are cut away, and the edges that are treated at the end.  What a   *)
(* primitive is belongs to the kernels: a set of points.  Curves are       *)
(* exact, also in OpenSCAD, which has 96 sides for a circle.               *)
(*                                                                         *)
(* Documents are those of DesignRules, in half millimetres.  Clearance and *)
(* tapped holes are "through".  A cutout has a side as well: 1 for the     *)
(* positive face of its axis, or -1.  Through and blind holes may have a   *)
(* head: the schema lets the fields of another type pass, those of a       *)
(* counterbore if there is a depth, else those of a countersink.           *)
(***************************************************************************)
EXTENDS DesignRules, SequencesExt

(* Sources are in twentieths of a millimetre, for the sake of the 0.1 mm   *)
(* by which cutters stand out.                                             *)
Mm == 20
Tenth == 2
Full(n) == 10 * n
Half(n) == 5 * n

Sizes(base) == [k \in 1 .. 3 |-> Full(base.size[k])]
Wall(base) == Full(base.wall)

Backends == {"cadquery", "openscad", "build123d", "freecad"}

----------------------------------------------------------------------------
(* Primitives of the kernels                                               *)

Box(low, size) == [shape |-> "box", low |-> low, size |-> size]

(* Centred on the first two axes, or on all three.                         *)
StandingBox(size, at) ==
  Box(<<at[X] - (size[X] \div 2), at[Y] - (size[Y] \div 2), at[Z]>>, size)
CenteredBox(size, at) == Box([k \in 1 .. 3 |-> at[k] - (size[k] \div 2)], size)

(* From a point along an axis, in its direction or (-1) against it; it     *)
(* loses taper of its diameter per unit.                                   *)
Cone(at, axis, direction, length, diameter, taper) ==
  [shape |-> "cone", at |-> at, axis |-> axis, direction |-> direction,
   length |-> length, diameter |-> diameter, taper |-> taper]
Cylinder(at, axis, direction, length, diameter) ==
  Cone(at, axis, direction, length, diameter, 0)

Extruded(corners, length) == [shape |-> "prism", corners |-> corners, length |-> length]
Revolved(corners) == [shape |-> "turned", corners |-> corners]

(* The square of the distance of a point from a line along an axis.        *)
FromAxis2(p, at, axis) ==
  Distance2(<<p[PlaneAxes(axis)[1]], p[PlaneAxes(axis)[2]]>>,
            <<at[PlaneAxes(axis)[1]], at[PlaneAxes(axis)[2]]>>)

Polygon(corners) ==
  [i \in DOMAIN corners |-> Line(corners[i], corners[(i % Len(corners)) + 1])]

(* The radius of a point, rounded down.                                    *)
Radius(p) ==
  LET r2 == Distance2(<<p[X], p[Y]>>, <<0, 0>>) IN
  CHOOSE r \in 0 .. Abs(p[X]) + Abs(p[Y]) : r * r <= r2 /\ r2 < (r + 1) * (r + 1)

In(p, s) ==
  CASE s.shape = "box" ->
         \A k \in 1 .. 3 : s.low[k] <= p[k] /\ p[k] <= s.low[k] + s.size[k]
    [] s.shape = "cone" ->
         LET t == s.direction * (p[s.axis] - s.at[s.axis]) IN
         /\ 0 <= t /\ t <= s.length
         /\ 4 * FromAxis2(p, s.at, s.axis) <= Square(s.diameter - s.taper * t)
    [] s.shape = "prism" ->
         0 <= p[Z] /\ p[Z] <= s.length /\ InLoop(<<p[X], p[Y]>>, Polygon(s.corners))
    [] s.shape = "turned" -> InLoop(<<Radius(p), p[Z]>>, Polygon(s.corners))

InSource(p, source) ==
  (\E s \in source.add : In(p, s)) /\ \A s \in source.sub : ~In(p, s)

----------------------------------------------------------------------------
(* What the compilers have in common                                       *)

Origin == <<0, 0, 0>>

(* _extents: the positive faces.  A part that is not symmetric has them at *)
(* the larger distance.                                                    *)
Extents(base) ==
  CASE base.kind = "profile_extrusion" ->
         <<Full(Max({Abs(x) : x \in Xs(base.outer)})),
           Full(Max({Abs(y) : y \in Ys(base.outer)})), Full(base.size[Z])>>
    [] base.kind = "profile_revolution" ->
         <<Full(Max(Xs(base.outer))), Full(Max(Xs(base.outer))), Full(Max(Ys(base.outer)))>>
    [] OTHER -> <<Half(base.size[X]), Half(base.size[Y]), Full(base.size[Z])>>

(* The negative face of an axis; a part stands on z = 0.                   *)
NegativeFace(e, axis) == IF axis = Z THEN 0 ELSE -e[axis]

HoleAt(h, axis, coordinate) ==
  [k \in 1 .. 3 |-> IF k = axis THEN coordinate ELSE Full(h.at[k])]

(* _positive_face: blind holes and heads go from there against the axis.   *)
FromFace(h, e, outside, length, diameter, taper) ==
  Cone(HoleAt(h, h.axis, e[h.axis] + outside), h.axis, -1, length, diameter, taper)

(* _main_hole_cutter, _hole_path                                           *)
MainCutter(h, e) ==
  IF h.type = "blind"
  THEN FromFace(h, e, Tenth, Full(h.depth) + 2 * Tenth, Full(h.diameter), 0)
  ELSE Cylinder(HoleAt(h, h.axis, NegativeFace(e, h.axis) - Mm), h.axis, 1,
                e[h.axis] - NegativeFace(e, h.axis) + 2 * Mm, Full(h.diameter))

Counterbore(h, e) == FromFace(h, e, Tenth, Full(h.depth) + 2 * Tenth, Full(h.head), 0)

Countersink(h, e) == FromFace(h, e, 0, Half(h.head - h.diameter), Full(h.head), 2)

(* The heads of holes, where their type is asked for.                      *)
HolesByType(doc) ==
  LET e == Extents(doc.base)
      all == {doc.holes[i] : i \in DOMAIN doc.holes}
  IN {MainCutter(h, e) : h \in all}
       \cup {Counterbore(h, e) : h \in {g \in all : g.type = "counterbore"}}
       \cup {Countersink(h, e) : h \in {g \in all : g.type = "countersink"}}

CutoutDepth(c, base, e) ==
  IF base.kind = "enclosure" THEN Wall(base) ELSE 2 * e[c.face]

(* The box of a cutout, by its size along the face, upwards and inwards.   *)
OnFace(c, across, along, up) ==
  IF c.face = X THEN <<across, along, up>> ELSE <<along, across, up>>

CutterSize(c, base, e) ==
  OnFace(c, CutoutDepth(c, base, e) + 4 * Tenth, Full(c.width), Full(c.height))

(* compile, build: the base, less the holes, less the cutouts, and then    *)
(* the edges.                                                              *)
Assembled(doc, base, holes, cutouts) ==
  [add |-> base.add, sub |-> base.sub \cup holes \cup cutouts, edges |-> doc.edges]

----------------------------------------------------------------------------
(* CadQueryCompiler                                                        *)

Solid(add, sub) == [add |-> add, sub |-> sub]

(* An L-bracket is <<width, depth, vertical_height + thickness>>; its      *)
(* upright stands on the base plate, at the back.                          *)
PlateSize(base) == <<Full(base.size[X]), Full(base.size[Y]), Wall(base)>>
UprightSize(base) == <<Full(base.size[X]), Wall(base), Full(base.size[Z]) - Wall(base)>>

(* The inside of an enclosure, above the floor, up to some height.         *)
InnerSize(base, height) ==
  <<Full(base.size[X]) - 2 * Wall(base), Full(base.size[Y]) - 2 * Wall(base), height>>

Start(loop) == loop[1].start
Stops(loop) == [i \in DOMAIN loop |-> loop[i].end]

CadQueryBase(base) ==
  LET size == Sizes(base)
      scaled(corners) == [i \in DOMAIN corners |-> <<Full(corners[i][1]), Full(corners[i][2])>>]
      path == scaled(<<Start(base.outer)>> \o Stops(base.outer))
  IN CASE base.kind = "plate" -> Solid({StandingBox(size, Origin)}, {})
       [] base.kind = "cylinder" -> Solid({Cylinder(Origin, Z, 1, size[Z], size[X])}, {})
       [] base.kind = "ring" ->
            Solid({Cylinder(Origin, Z, 1, size[Z], size[X])},
                  {Cylinder(Origin, Z, 1, size[Z], Full(base.inner))})
       [] base.kind = "l_bracket" ->
            Solid({StandingBox(PlateSize(base), Origin),
                   StandingBox(UprightSize(base),
                               <<0, Half(base.wall) - Half(base.size[Y]), Wall(base)>>)}, {})
       [] base.kind = "enclosure" ->
            Solid({StandingBox(size, Origin)},
                  {StandingBox(InnerSize(base, size[Z] - Wall(base) + 2 * Tenth),
                               <<0, 0, Wall(base)>>)})
       [] base.kind = "profile_extrusion" -> Solid({Extruded(path, size[Z])}, {})
       [] base.kind = "profile_revolution" -> Solid({Revolved(path)}, {})

(* Planted fault: a cutter is centred on the face, not in the wall.        *)
BugCutoutCenter(c, base, e) ==
  OnFace(c, c.side * e[c.face], IF c.face = X THEN Full(c.at[Y]) ELSE Full(c.at[X]),
         Full(c.at[Z]))

CutoutCenter(c, base, e) ==
  LET across == c.side * (e[c.face] - (CutoutDepth(c, base, e) \div 2)) IN
  OnFace(c, across, IF c.face = X THEN Full(c.at[Y]) ELSE Full(c.at[X]), Full(c.at[Z]))

CenteredCutouts(doc) ==
  LET e == Extents(doc.base) IN
  {CenteredBox(CutterSize(c, doc.base, e), CutoutCenter(c, doc.base, e)) : c \in doc.cutouts}

CadQuerySource(doc) ==
  Assembled(doc, CadQueryBase(doc.base), HolesByType(doc), CenteredCutouts(doc))

----------------------------------------------------------------------------
(* Build123dCompiler: the same placement, but for the inside of a ring,    *)
(* and profiles are closed wires.                                          *)

(* A cylinder through the whole ring, and 1 mm more on both sides.         *)
Bore(base) ==
  Cylinder(<<0, 0, -Mm>>, Z, 1, Full(base.size[Z]) + 2 * Mm, Full(base.inner))

Build123dBase(base) ==
  CASE base.kind = "ring" -> Solid(CadQueryBase(base).add, {Bore(base)})
    [] OTHER -> CadQueryBase(base)

Build123dSource(doc) ==
  Assembled(doc, Build123dBase(doc.base), HolesByType(doc), CenteredCutouts(doc))

----------------------------------------------------------------------------
(* OpenScadCompiler: every box is placed by its lowest corner.             *)

Corner(base, inset, z) == <<inset - Half(base.size[X]), inset - Half(base.size[Y]), z>>

OpenScadBase(base) ==
  CASE base.kind = "plate" -> Solid({Box(Corner(base, 0, 0), Sizes(base))}, {})
    [] base.kind = "ring" -> Solid(CadQueryBase(base).add, {Bore(base)})
    [] base.kind = "l_bracket" ->
         Solid({Box(Corner(base, 0, 0), PlateSize(base)),
                Box(Corner(base, 0, Wall(base)), UprightSize(base))}, {})
    [] base.kind = "enclosure" ->
         Solid({Box(Corner(base, 0, 0), Sizes(base))},
               {Box(Corner(base, Wall(base), Wall(base)),
                    InnerSize(base, Full(base.size[Z])))})
    [] OTHER -> CadQueryBase(base)

(* Whatever type the hole has.                                             *)
HasCounterbore(h) == h.head > 0 /\ h.depth > 0
HasCountersink(h) == h.head > 0 /\ h.depth = 0

OpenScadHoles(doc) ==
  LET e == Extents(doc.base)
      all == {doc.holes[i] : i \in DOMAIN doc.holes}
  IN {MainCutter(h, e) : h \in all}
       \cup {Counterbore(h, e) : h \in {g \in all : HasCounterbore(g)}}
       \cup {Countersink(h, e) : h \in {g \in all : HasCountersink(g)}}

OpenScadCutout(c, base, e) ==
  LET across == IF c.side = 1 THEN e[c.face] - CutoutDepth(c, base, e) - 2 * Tenth
                              ELSE -e[c.face] - 2 * Tenth
      along == IF c.face = X THEN c.at[Y] ELSE c.at[X]
  IN Box(OnFace(c, across, Full(along) - Half(c.width), Full(c.at[Z]) - Half(c.height)),
         CutterSize(c, base, e))

(* A document with fillets or chamfers is refused.                         *)
OpenScadCompiles(doc) == doc.edges = {}

OpenScadSource(doc) ==
  Assembled(doc, OpenScadBase(doc.base), OpenScadHoles(doc),
            {OpenScadCutout(c, doc.base, Extents(doc.base)) : c \in doc.cutouts})

----------------------------------------------------------------------------
(* FreeCADCompiler: corners as in OpenSCAD, otherwise as in CadQuery.      *)

FreeCadBase(base) ==
  CASE base.kind = "enclosure" ->
         Solid({Box(Corner(base, 0, 0), Sizes(base))},
               {Box(Corner(base, Wall(base), Wall(base)),
                    InnerSize(base, Full(base.size[Z]) - Wall(base) + 2 * Tenth))})
    [] OTHER -> OpenScadBase(base)

FreeCadCutout(c, base, e) ==
  LET size == CutterSize(c, base, e) IN
  Box([k \in 1 .. 3 |-> CutoutCenter(c, base, e)[k] - (size[k] \div 2)], size)

FreeCadSource(doc) ==
  Assembled(doc, FreeCadBase(doc.base), HolesByType(doc),
            {FreeCadCutout(c, doc.base, Extents(doc.base)) : c \in doc.cutouts})

----------------------------------------------------------------------------

Compiles(backend, doc) == backend = "openscad" => OpenScadCompiles(doc)

SourceOf(backend, doc) ==
  CASE backend = "cadquery"  -> CadQuerySource(doc)
    [] backend = "openscad"  -> OpenScadSource(doc)
    [] backend = "build123d" -> Build123dSource(doc)
    [] backend = "freecad"   -> FreeCadSource(doc)

=============================================================================
