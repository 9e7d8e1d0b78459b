--------------------------- MODULE MCDxfAnalysis ----------------------------
EXTENDS DxfAnalysis

Drawing(entities, mode) == [entities |-> entities, mode |-> mode]
DrawLine(p, q) == [kind |-> "line", from |-> p, to |-> q]
Center(p, q) == [kind |-> "center", from |-> p, to |-> q]
Circle(c, r) == [kind |-> "circle", center |-> c, radius |-> r]
Poly(points, closed) == [kind |-> "polyline", points |-> points, closed |-> closed]

(* Three lines between the corners of a square, drawn in any order and     *)
(* direction, and four of which the first is the lower side.               *)
Corners4 == (0 .. 1) \X (0 .. 1)
AnyLine == {DrawLine(p, q) : <<p, q>> \in {e \in Corners4 \X Corners4 : e[1] # e[2]}}
Scribbles ==
  {Drawing(s, "extrude") : s \in [1 .. 3 -> AnyLine]}
    \cup {Drawing(<<DrawLine(<<0, 0>>, <<1, 0>>)>> \o s, "auto") : s \in [1 .. 3 -> AnyLine]}

(* Polygons through points of a grid, simple or not, with a hole.          *)
Grid3 == {<<2 * x, 2 * y>> : <<x, y>> \in (0 .. 2) \X (0 .. 2)}
LowerHalf == {p \in Grid3 : p[2] <= p[1]}
Polygons ==
  {Drawing(<<Poly(<<<<0, 0>>, p>> \o s, TRUE), Circle(<<3, 2>>, 1)>>, "auto") :
     <<p, s>> \in LowerHalf \X ([1 .. 2 -> Grid3] \cup [1 .. 3 -> Grid3])}

(* A rectangle with cut corners, and holes near them.                      *)
CutRectangle == <<<<4, 0>>, <<12, 0>>, <<16, 4>>, <<16, 8>>, <<12, 12>>,
                  <<4, 12>>, <<0, 8>>, <<0, 4>>>>
CutRectangles ==
  {Drawing(<<Poly(CutRectangle, TRUE), Circle(c, r)>>, "extrude") :
     <<c, r>> \in ((1 .. 8) \X (1 .. 6)) \X {1, 2}}

(* Holes in a plate, one of them larger or not.                            *)
Sites == {<<3 * x, 3 * y>> : <<x, y>> \in (1 .. 4) \X (1 .. 3)}
Rows(s, r) == [i \in DOMAIN s |-> Circle(s[i], IF i = 1 THEN r ELSE 1)]
Plate == Poly(<<<<0, 0>>, <<15, 0>>, <<15, 12>>, <<0, 12>>>>, TRUE)
Drill(sites, sizes, r) ==
  {Drawing(<<Plate>> \o Rows(Reverse(SetToSeq(S)), r), "auto") :
     S \in {T \in SUBSET sites : Cardinality(T) \in sizes}}
LowerSites == {p \in Sites : p[2] <= 6}
Drilled == Drill(Sites, 3 .. 6, 1) \cup Drill(Sites, {4}, 2)

(* Half profiles and centerlines.                                          *)
HalfProfile == <<DrawLine(<<0, 0>>, <<4, 0>>), DrawLine(<<4, 0>>, <<4, 6>>),
                 DrawLine(<<4, 6>>, <<0, 6>>)>>
Turned ==
  {Drawing(h \o <<Center(p, q)>> \o more, mode) :
     <<h, p, q, more, mode>> \in
       {HalfProfile, Append(HalfProfile, DrawLine(<<0, 6>>, <<0, 0>>)),
        <<Poly(<<<<1, 0>>, <<3, 0>>, <<3, 4>>>>, TRUE)>>,
        <<Poly(<<<<0, 0>>, <<-3, 1>>, <<0, 4>>>>, TRUE)>>}
         \X {<<0, 6>>, <<2, 0>>} \X {<<0, 0>>, <<2, 6>>, <<4, 0>>}
         \X {<<>>, <<Circle(<<2, 3>>, 1)>>, <<Center(<<0, 0>>, <<1, 0>>)>>}
         \X {"auto", "extrude", "revolve"}}

Others ==
  {Drawing(<<Plate>> \o e, mode) :
     <<e, mode>> \in
       {<<[kind |-> "text"]>>, <<[kind |-> "insert"]>>,
        <<Poly(<<<<0, 0>>, <<1, 0>>, <<1, 1>>>>, FALSE)>>,
        <<Poly(<<<<0, 0>>, <<0, 0>>, <<1, 1>>>>, TRUE)>>,
        <<Poly(<<<<0, 0>>, <<1, 0>>>>, TRUE)>>, <<Plate, Plate>>,
        [i \in 1 .. 7 |-> Circle(<<2 * i, 6>>, 1)],
        [i \in 1 .. 4 |-> Circle(<<6, 6>>, i)],
        [i \in 1 .. 5 |-> Circle(<<IF i < 4 THEN 3 * i ELSE 3, 3>>, 1)],
        [i \in 1 .. 9 |-> [kind |-> "text"]]} \X {"auto", "revolve"}}
    \cup {Drawing(<<[kind |-> "text"]>>, "auto"), Drawing(<<Circle(<<0, 0>>, 1)>>, "auto")}

(* Drawings at the bound of a coordinate and beyond, wider than any of     *)
(* them, and turned about an axis that is too far away.                    *)
Beam(from, to) == Poly(<<<<from, 0>>, <<to, 0>>, <<to, 2>>, <<from, 2>>>>, TRUE)
Vast ==
  {Drawing(<<Beam(-100, to)>>, "auto") : to \in {100, 101, 201}}
    \cup {Drawing(<<Beam(from, 100), Center(<<from, 0>>, <<from, y>>)>>, "auto") :
            <<from, y>> \in {0, -100, -101} \X {2, 201}}
    \cup {Drawing(<<Plate, c>>, "auto") : c \in {Circle(<<6, 201>>, 1), Circle(<<6, 6>>, 101)}}

SomeDrawings ==
  Scribbles \cup Polygons \cup CutRectangles \cup Drilled \cup Turned \cup Others \cup Vast
SomeContinued ==
  Drill(LowerSites, {4}, 1) \cup Turned \cup Others
    \cup {d \in CutRectangles : d.entities[2].radius = 2}

(* Documents of the other bases.                                           *)
Base(kind, wall, inner) ==
  [kind |-> kind, size |-> <<12, 12, 8>>, wall |-> wall, inner |-> inner, outer |-> <<>>]
Hole(at, axis, type) ==
  [at |-> at, axis |-> axis, diameter |-> 2, type |-> type,
   depth |-> IF type \in {"blind", "counterbore"} THEN 4 ELSE 0,
   head |-> IF type \in {"counterbore", "countersink"} THEN 4 ELSE 0]
Stray(hole, depth) == [hole EXCEPT !.depth = depth, !.head = 4]
SomeHoles ==
  {Hole(at, axis, type) :
     <<at, axis, type>> \in {<<x, x, z>> : <<x, z>> \in {-4, 1, 3} \X {0, 2, 5}}
                              \X {X, Y, Z} \X {"through", "blind", "counterbore", "countersink"}}
    \cup {Stray(Hole(<<1, 3, 2>>, axis, type), depth) :
            <<axis, type, depth>> \in
              {X, Y, Z} \X {"through", "blind"} \X {0, 1} \ ({X, Y, Z} \X {"blind"} \X {0})}
    \cup {[Hole(<<-3, y, 5>>, axis, type) EXCEPT !.depth = depth] :
            <<y, axis, type, depth>> \in
              {-4, 2} \X {X, Y, Z} \X {"blind", "counterbore"} \X {1, 2}}
Document(base, hs, cutouts, edges) ==
  [base |-> base, holes |-> hs, cutouts |-> cutouts, edges |-> edges]
Bases ==
  {Base("plate", 0, 0), Base("cylinder", 0, 0), Base("ring", 0, 6),
   Base("l_bracket", 2, 0), Base("enclosure", 2, 0)}
Window(face, side) ==
  [face |-> face, side |-> side, at |-> <<1, 2, 4>>, width |-> 4, height |-> 2]
Windows == {Window(face, side) : <<face, side>> \in {X, Y} \X {1, -1}}
PlainDocuments ==
  {Document(b, <<h>>, {}, {}) : <<b, h>> \in Bases \X SomeHoles}
    \cup {Document(Base("plate", 0, 0), <<Hole(<<0, 0, 2>>, Z, "through"), h>>, {}, {}) :
            h \in SomeHoles}
    \cup {Document(b, <<>>, c, e) :
            <<b, c, e>> \in Bases \X ({{}, Windows, {[Window(X, 1) EXCEPT !.width = 14]}} \cup {{w} : w \in Windows})
              \X {{}, {[kind |-> "fillet", size |-> s, vertical |-> v] :
                        <<s, v>> \in {3, 4} \X BOOLEAN}}}

Vase(r) == [kind |-> "profile_revolution", size |-> <<0, 0, 0>>, wall |-> 0, inner |-> 0,
            outer |-> PolySegments(<<<<0, 0>>, <<r, 0>>, <<2, 4>>, <<0, 4>>>>)]
(* An upright that is as high as a field may be, with the plate below it.  *)
Tall(z) == [Base("l_bracket", 8, 0) EXCEPT !.size = <<12, 12, z>>]
SomeDocuments ==
  PlainDocuments
    \cup {Document(b, <<>>, {}, {}) :
            b \in {Vase(r) : r \in {4, 100, 101}} \cup {Tall(z) : z \in {200, 201, 208}}}

OnlyCutRectangles == CutRectangles
NoDocuments == {}
=============================================================================
