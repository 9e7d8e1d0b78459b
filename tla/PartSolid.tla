----------------------------- MODULE PartSolid -----------------------------
(***************************************************************************)
(* From a drawing, a prompt, or a document that was posted, to the part a  *)
(* kernel makes of it: what DxfAnalysis or Planning gives and the          *)
(* validator lets pass is compiled for a backend, whose kernel runs the    *)
(* source.  Job by job it is the pipeline that chooses the backend         *)
(* (JobPipeline); here it is any.  And to its manufacturing drawing: the   *)
(* server proposes one, the user edits it and sends it back, by then       *)
(* perhaps for another document.                                           *)
(***************************************************************************)
EXTENDS Planning, SourceCompilers, DrawingSpec

VARIABLES
  backend,    \* whose source was compiled, or "none"
  source,     \* of the part
  sheet,      \* the drawing the user has
  package     \* how the request for a package ended

part == <<backend, source>>
paper == <<sheet, package>>
request == <<drawing, input, loop, holes, result>>

NoSource == [add |-> {}, sub |-> {}, edges |-> {}]

NoSheet == [cad |-> NoDocument]

PartInit ==
  /\ (Init /\ NoPlan) \/ PlanInit
  /\ backend = "none" /\ source = NoSource
  /\ sheet = NoSheet /\ package = "none"

(* A document with errors is compiled too, but no kernel runs its source.  *)
Build(b) ==
  /\ pc = "done" /\ errors = {} /\ sheet = NoSheet
  /\ Compiles(b, document)
  /\ backend' = b
  /\ source' = SourceOf(b, document)
  /\ pc' = "built"
  /\ UNCHANGED <<request, plan, paper>>

(* manufacturing_template, which raises when its own drawing does not fit. *)
(* Whoever goes on without a drawing need not have asked for one.          *)
Template ==
  /\ pc \in {"analysed", "done"} /\ errors = {} /\ sheet = NoSheet /\ package = "none"
  /\ LET drawn == DefaultDrawing(document) IN
     IF WellFormed(drawn) /\ Fits(document, drawn)
     THEN sheet' = drawn /\ UNCHANGED <<package, pc>>
     ELSE package' = "no_template" /\ pc' = "packaged" /\ UNCHANGED sheet
  /\ UNCHANGED <<request, plan, part>>

(* generate_from_spec: the drawing comes back as it was, or with one more  *)
(* dimension.                                                              *)
Asked(more) == [sheet EXCEPT !.dimensions = @ \o more]

Package(more) ==
  /\ pc = "done" /\ sheet # NoSheet
  /\ LET asked == Asked(more) IN
     /\ sheet' = asked
     /\ package' = IF WellFormed(asked) /\ errors = {} /\ Fits(document, asked)
                   THEN "accepted" ELSE "refused"
  /\ pc' = "packaged"
  /\ UNCHANGED <<request, plan, part>>

Targets ==
  {<<"base", measure>> : measure \in {"inner_diameter", "wall_thickness"}}
    \cup {<<"hole", 1, "depth">>, <<"hole", 2, "counterbore_diameter">>, <<"hole", 3, "z">>}
    \cup {<<"cutout", 1>>, <<"edge", 1>>}

Additions == {<<>>} \cup {<<Dimensioned(<<"added">>, target, {"B"})>> : target \in Targets}

PartNext ==
  \/ Next /\ UNCHANGED <<plan, part, paper>>
  \/ PlanNext /\ UNCHANGED <<part, paper>>
  \/ \E b \in Backends : Build(b)
  \/ Template
  \/ \E more \in Additions : Package(more)

PartSpec == PartInit /\ [][PartNext]_<<vars, plan, part, paper>>

----------------------------------------------------------------------------
(* What a document means, apart from any kernel                            *)

FullSize(l) ==
  [i \in DOMAIN l |-> Line([k \in 1 .. 2 |-> Full(l[i].start[k])],
                           [k \in 1 .. 2 |-> Full(l[i].end[k])])]

InBase(p, base) ==
  LET size == Sizes(base)
      within == \A k \in 1 .. 3 : /\ p[k] <= Extents(base)[k]
                                  /\ p[k] >= NegativeFace(Extents(base), k)
      r2 == 4 * Distance2(<<p[X], p[Y]>>, <<0, 0>>)
  IN CASE base.kind = "plate" -> within
       [] base.kind = "cylinder" -> within /\ r2 <= Square(size[X])
       [] base.kind = "ring" ->
            within /\ r2 <= Square(size[X]) /\ r2 > Square(Full(base.inner))
       [] base.kind = "l_bracket" ->
            within /\ (p[Z] <= Wall(base) \/ p[Y] <= Wall(base) - Half(base.size[Y]))
       [] base.kind = "enclosure" ->
            within /\ (\/ p[Z] <= Wall(base)
                       \/ \E k \in {X, Y} : Abs(p[k]) >= Half(base.size[k]) - Wall(base))
       [] base.kind = "profile_extrusion" ->
            /\ 0 <= p[Z] /\ p[Z] <= size[Z]
            /\ InLoop(<<p[X], p[Y]>>, FullSize(base.outer))
       [] base.kind = "profile_revolution" ->
            InLoop(<<Radius(p), p[Z]>>, FullSize(base.outer))

Below(p, h, base) == Extents(base)[h.axis] - p[h.axis]

Near(p, h, diameter) ==
  4 * FromAxis2(p, HoleAt(h, h.axis, 0), h.axis) <= Square(Full(diameter))

(* A countersink narrows to the diameter of its hole, at 90 degrees.       *)
InHead(p, h, base) ==
  IF h.depth > 0 THEN Near(p, h, h.head) /\ Below(p, h, base) <= Full(h.depth)
  ELSE LET d == Full(h.head) - 2 * Below(p, h, base) IN
       d > 0 /\ 4 * FromAxis2(p, HoleAt(h, h.axis, 0), h.axis) <= Square(d)

InHole(p, h, base) ==
  \/ Near(p, h, h.diameter) /\ (h.type = "blind" => Below(p, h, base) <= Full(h.depth))
  \/ h.type \in {"counterbore", "countersink"} /\ InHead(p, h, base)

InCutout(p, c, base) ==
  LET along == IF c.face = X THEN Y ELSE X IN
  /\ Abs(p[along] - Full(c.at[along])) <= Half(c.width)
  /\ Abs(p[Z] - Full(c.at[Z])) <= Half(c.height)
  /\ c.side * p[c.face] >= Extents(base)[c.face] - Wall(base)

Means(p, doc) ==
  /\ InBase(p, doc.base)
  /\ \A i \in DOMAIN doc.holes : ~InHole(p, doc.holes[i], doc.base)
  /\ \A c \in doc.cutouts : ~InCutout(p, c, doc.base)

(* Points in the middle between the planes, edges and rims of a document,  *)
(* and outside: none of them is within 0.1 mm of one.                      *)
BasePlanes(base, k) ==
  LET e == Extents(base) IN
  {e[k], NegativeFace(e, k)}
    \cup (CASE base.kind \in {"l_bracket", "enclosure"} ->
                 {Wall(base), Wall(base) - e[k], e[k] - Wall(base)}
            [] base.kind = "ring" /\ k # Z -> {-Half(base.inner), Half(base.inner)}
            [] base.kind = "profile_extrusion" /\ k # Z -> {Full(c[k]) : c \in Corners(base.outer)}
            [] base.kind = "profile_revolution" ->
                 {Full(c[IF k = Z THEN 2 ELSE 1]) : c \in Corners(base.outer)}
            [] OTHER -> {})

HolePlanes(h, base, k) ==
  IF h.axis = k
  THEN {Extents(base)[k] - Full(h.depth)}
         \cup (IF HasCountersink(h)
               THEN LET depth == Half(h.head - h.diameter) IN
                    {Extents(base)[k] - depth, Extents(base)[k] - (depth \div 2)}
               ELSE {})
  ELSE {Full(h.at[k]) + Half(side * d) : side \in {1, -1}, d \in {h.diameter, h.head} \ {0}}

CutoutPlanes(c, base, k) ==
  IF c.face = k THEN {c.side * (Extents(base)[k] - (Wall(base) \div 2))}
  ELSE LET reach == Half(IF k = Z THEN c.height ELSE c.width) IN
       {Full(c.at[k]) - reach, Full(c.at[k]) + reach}

Planes(doc, k) ==
  LET planes == BasePlanes(doc.base, k)
        \cup (UNION {HolePlanes(doc.holes[i], doc.base, k) : i \in DOMAIN doc.holes})
        \cup (UNION {CutoutPlanes(c, doc.base, k) : c \in doc.cutouts})
  IN planes \cup {Min(planes) - Mm, Max(planes) + Mm}

Middles(S) == {(s + Min({t \in S : t > s})) \div 2 : s \in S \ {Max(S)}}

Points(doc) ==
  Middles(Planes(doc, X)) \X Middles(Planes(doc, Y)) \X Middles(Planes(doc, Z))

----------------------------------------------------------------------------
(* Properties                                                              *)

Built == backend # "none"

HasStrayHead(h) == h.type \in {"through", "blind"} /\ h.head > 0

(* Cutters stand out, by 0.1 mm behind the bottom of a hole and 0.2 mm     *)
(* behind a wall.  There, and on the very planes of an enclosure's walls,  *)
(* nothing is asked of a source.                                           *)
Clear(p, doc) ==
  LET base == doc.base IN
  /\ \A i \in DOMAIN doc.holes :
       LET h == doc.holes[i] IN
       h.depth > 0 => Below(p, h, base) - Full(h.depth) \notin 1 .. Tenth
  /\ base.kind = "enclosure" =>
       /\ p[Z] # Wall(base)
       /\ \A k \in {X, Y} : Abs(p[k]) # Half(base.size[k]) - Wall(base)
       /\ \A c \in doc.cutouts :
            Extents(base)[c.face] - Wall(base) - c.side * p[c.face] \notin 1 .. 2 * Tenth

(* Whichever backend makes it, a part is the same: what the document       *)
(* means, but for OpenSCAD, which also cuts the heads of holes whose type  *)
(* has none.                                                               *)
SameSolid ==
  Built =>
    /\ source.edges = document.edges
    /\ \A p \in {q \in Points(document) : Clear(q, document)} :
         InSource(p, source) <=>
           /\ Means(p, document)
           /\ backend = "openscad" =>
                ~\E i \in DOMAIN document.holes :
                   /\ HasStrayHead(document.holes[i])
                   /\ InHead(p, document.holes[i], document.base)

(* Is there material at the positive face, where a hole begins?            *)
BeginsInMaterial(h, base) ==
  InBase(HoleAt(h, h.axis, Extents(base)[h.axis] - 1), base)

Ending == {"blind", "counterbore", "countersink"}

OtherFeature(p, i, doc) ==
  \/ \E j \in (DOMAIN doc.holes) \ {i} : InHole(p, doc.holes[j], doc.base)
  \/ \E c \in doc.cutouts : InCutout(p, c, doc.base)

(* A bore meets the part by its axis or by its rim.                        *)
Meets(h, doc) ==
  \E a, b \in -1 .. 1 : \E s \in Middles(Planes(doc, h.axis)) :
    LET r == Half(h.diameter)
        reach == IF a * b = 0 THEN r - 1 ELSE (7 * r) \div 10
        aside(k) == CASE k = PlaneAxes(h.axis)[1] -> a * reach
                      [] k = PlaneAxes(h.axis)[2] -> b * reach
                      [] OTHER -> 0
    IN InBase([k \in 1 .. 3 |-> HoleAt(h, h.axis, s)[k] + aside(k)], doc.base)

(* Where the validator lets a bore miss the part: in the void of a ring,   *)
(* when the head of the hole is larger than the void, and along an         *)
(* L-bracket, above the base plate and in front of the upright, where only *)
(* the box around the part is asked for.                                   *)
Misses(h, base) ==
  \/ /\ base.kind = "ring" /\ h.axis = Z /\ h.head > 0
     /\ Within(Distance2(InPlane(h), <<0, 0>>), h.diameter, base.inner)
  \/ /\ base.kind = "l_bracket" /\ h.axis = X
     /\ 2 * (h.at[Z] - base.wall) >= h.diameter
     /\ 2 * (h.at[Y] - base.wall) + base.size[Y] >= h.diameter

(* The holes of a valid document are there in the part: a hole that goes   *)
(* through meets material and leaves none in its way; a blind hole and a   *)
(* head take some away and leave some of the same wall, a floor or a       *)
(* shoulder.  The validator measures the walls of an enclosure and of an   *)
(* L-bracket, but every cutter starts at the box around the part: where    *)
(* that is in the air, above a floor or in front of an upright, the depth  *)
(* of a hole is used up before it meets anything.                          *)
HolesAreMade ==
  Built =>
    LET doc == document
        base == doc.base
        points == {p \in Points(doc) : InBase(p, base)}
    IN \A i \in DOMAIN doc.holes :
         LET h == doc.holes[i]
             bore == {p \in points : Near(p, h, h.diameter)}
             ends == IF h.type = "blind" THEN bore
                     ELSE {p \in points : Near(p, h, h.head)} \ bore
         IN /\ h.type # "blind" => /\ Meets(h, doc) \/ Misses(h, base)
                                   /\ \A p \in bore : ~InSource(p, source)
            /\ h.type \in Ending /\ BeginsInMaterial(h, base) =>
                 /\ \E p \in ends : ~InSource(p, source)
                 /\ \E p \in ends :
                      /\ Below(p, h, base) < Full(MaterialDepth(base, h.axis))
                      /\ InSource(p, source) \/ OtherFeature(p, i, doc)

(* How far the solid reaches along an axis: its ends are on its planes and *)
(* edges, or on an axis of the part.                                       *)
Reached(base, k) ==
  LET planes == [i \in 1 .. 3 |-> BasePlanes(base, i) \cup {0}] IN
  {s \in planes[k] :
     \E p \in planes[X] \X planes[Y] \X planes[Z] : p[k] = s /\ InBase(p, base)}

Span(base, k) == Max(Reached(base, k)) - Min(Reached(base, k))

TooLarge(base) == \E k \in 1 .. 3 : Span(base, k) > Full(MaxDimension)

(* There is no template of a valid document only when the solid, which     *)
(* other code makes, reaches beyond the bound of a dimension, although no  *)
(* field of the document does; then there is none.  The template as it     *)
(* came is never refused, and what the drawing of a package says is so:    *)
(* its overall dimensions are those of the solid, and every value is still *)
(* the one of the document the user has seen the drawing for, whatever he  *)
(* did to the document since.                                              *)
DrawingTellsTheTruth ==
  /\ package = "no_template" => TooLarge(document.base)
  /\ package = "refused" => sheet # DefaultDrawing(document)
  /\ package = "accepted" =>
       /\ ~TooLarge(document.base)
       /\ \A k \in 1 .. 3 : Full(BaseExtents(document.base)[k]) = Span(document.base, k)
       /\ \A i \in DOMAIN sheet.dimensions :
            LET target == sheet.dimensions[i].target IN
            Resolved(document, target) = Resolved(sheet.cad, target)

=============================================================================
