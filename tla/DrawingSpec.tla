---------------------------- MODULE DrawingSpec ----------------------------
(***************************************************************************)
(* Manufacturing drawings: the default one the server proposes for a       *)
(* document (app/services/manufacturing.py), what the schema of a drawing  *)
(* asks for (ManufacturingDrawingSpec in app/models/manufacturing.py), and *)
(* what a drawing must have in common with the document it is for.         *)
(*                                                                         *)
(* A drawing is [cad, dimensions, datums, finishes]: the document whose    *)
(* hash it carries and three sequences.  A dimension is [id, target,       *)
(* datums], a datum [id, target], a finish [target, datum]; a target is    *)
(* <<kind, ...>>.  It carries no values: they are resolved from the        *)
(* document whenever the drawing is used.  Title block, tolerances, bill   *)
(* of materials and texts are left out; the review of a drawing is         *)
(* ManufacturingReview's.                                                  *)
(***************************************************************************)
EXTENDS DesignRules, SequencesExt

Axisymmetric(base) == base.kind \in {"cylinder", "ring", "profile_revolution"}

SideFaces == {"positive_x", "negative_x", "positive_y", "negative_y"}

Dimensioned(id, target, datums) == [id |-> id, target |-> target, datums |-> datums]

(* Planted fault: an L-bracket is as high as its upright.                  *)
BugBaseExtents(base) ==
  [k \in 1 .. 3 |-> IF base.kind = "l_bracket" /\ k = Z THEN base.size[Z] - base.wall
                    ELSE Dimensions(base)[k]]

(* _base_extents                                                           *)
BaseExtents(base) ==
  CASE base.kind = "profile_extrusion" ->
         <<Width(base.outer), Height(base.outer), base.size[Z]>>
    [] base.kind = "profile_revolution" ->
         <<2 * Max(Xs(base.outer)), 2 * Max(Xs(base.outer)), Height(base.outer)>>
    [] OTHER -> base.size

----------------------------------------------------------------------------
(* create_default                                                          *)

DefaultDatums(doc) ==
  <<[id |-> "A", target |-> <<"base_face", "bottom">>]>>
    \o (CASE Axisymmetric(doc.base) /\ doc.holes = <<>> -> <<>>
          [] Axisymmetric(doc.base) /\ doc.holes # <<>> ->
               <<[id |-> "B", target |-> <<"hole_axis", 1>>]>>
          [] OTHER -> <<[id |-> "B", target |-> <<"base_face", "negative_x">>],
                        [id |-> "C", target |-> <<"base_face", "negative_y">>]>>)

DefaultDimensions(doc) ==
  LET fromFaces(datum) == IF Axisymmetric(doc.base) THEN {} ELSE {datum}
      overall(measure) == Dimensioned(<<measure>>, <<"base", measure>>, {})
      located(i) ==
        <<Dimensioned(<<"hole", i, "diameter">>, <<"hole", i, "diameter">>, {}),
          Dimensioned(<<"hole", i, "x">>, <<"hole", i, "x">>, fromFaces("B")),
          Dimensioned(<<"hole", i, "y">>, <<"hole", i, "y">>, fromFaces("C"))>>
  IN <<overall("overall_x"), overall("overall_y"), overall("overall_z")>>
       \o (IF doc.base.kind = "ring" THEN <<overall("inner_diameter")>> ELSE <<>>)
       \o (IF doc.base.kind = "enclosure" THEN <<overall("wall_thickness")>> ELSE <<>>)
       \o (IF Len(doc.holes) >= 1 THEN located(1) ELSE <<>>)
       \o (IF Len(doc.holes) >= 2 THEN located(2) ELSE <<>>)

DefaultDrawing(doc) ==
  [cad |-> doc, dimensions |-> DefaultDimensions(doc), datums |-> DefaultDatums(doc),
   finishes |-> <<[target |-> <<"base_face", "top">>, datum |-> "A"]>>]

----------------------------------------------------------------------------
(* ManufacturingDrawingSpec                                                *)

MaxDimensions == 12
MaxDatums == 3

IdsIn(s) == {s[i].id : i \in DOMAIN s}

WellFormed(drawing) ==
  /\ Len(drawing.dimensions) <= MaxDimensions /\ Len(drawing.datums) <= MaxDatums
  /\ Cardinality(IdsIn(drawing.dimensions)) = Len(drawing.dimensions)
  /\ Cardinality(IdsIn(drawing.datums)) = Len(drawing.datums)
  /\ \A i \in DOMAIN drawing.dimensions :
       drawing.dimensions[i].datums \subseteq IdsIn(drawing.datums)
  /\ \A i \in DOMAIN drawing.finishes : drawing.finishes[i].datum \in IdsIn(drawing.datums)

----------------------------------------------------------------------------
(* validate_against_cad                                                    *)

(* The values a hole has for one of its fields: one, or none when it has   *)
(* no such field.  It may have the fields of another type of hole.         *)
HoleField(h, measure) ==
  CASE measure = "diameter" -> {h.diameter}
    [] measure = "x" -> {h.at[X]}
    [] measure = "y" -> {h.at[Y]}
    [] measure = "z" -> {h.at[Z]}
    [] measure = "depth" -> IF h.type = "blind" THEN {h.depth} ELSE {}
    [] measure = "counterbore_diameter" ->
         IF h.type # "blind" /\ h.head > 0 /\ h.depth > 0 THEN {h.head} ELSE {}

BaseField(base, measure) ==
  CASE measure = "overall_x" -> {BaseExtents(base)[X]}
    [] measure = "overall_y" -> {BaseExtents(base)[Y]}
    [] measure = "overall_z" -> {BaseExtents(base)[Z]}
    [] measure = "inner_diameter" -> IF base.kind = "ring" THEN {base.inner} ELSE {}
    [] measure = "wall_thickness" -> IF base.kind = "enclosure" THEN {base.wall} ELSE {}

(* ResolvedDimension holds a nominal value to the bound of a field.  What  *)
(* is measured of a base may be the sum of two.                            *)
Nominal(values) == {n \in values : InRange(n)}

(* resolve_dimension: the nominal value, or none when it raises.  Cutouts, *)
(* fillets and chamfers have every field a dimension can ask for, within   *)
(* its bound.                                                              *)
Resolved(doc, target) ==
  LET AnyOf(features) == IF target[2] <= Cardinality(features) THEN {"size"} ELSE {} IN
  CASE target[1] = "base" -> Nominal(BaseField(doc.base, target[2]))
    [] target[1] = "hole" ->
         IF target[2] <= Len(doc.holes) THEN Nominal(HoleField(doc.holes[target[2]], target[3]))
         ELSE {}
    [] target[1] = "cutout" -> AnyOf(doc.cutouts)
    [] target[1] = "edge" -> AnyOf(doc.edges)

(* _validate_datum_target, _validate_base_face                             *)
HasTarget(doc, target) ==
  CASE target[1] = "hole_axis" -> target[2] <= Len(doc.holes)
    [] target[1] = "base_face" -> ~(Axisymmetric(doc.base) /\ target[2] \in SideFaces)

Fits(doc, drawing) ==
  /\ drawing.cad = doc
  /\ \A i \in DOMAIN drawing.dimensions :
       Resolved(doc, drawing.dimensions[i].target) # {}
  /\ \A i \in DOMAIN drawing.datums : HasTarget(doc, drawing.datums[i].target)
  /\ \A i \in DOMAIN drawing.finishes : HasTarget(doc, drawing.finishes[i].target)

=============================================================================
