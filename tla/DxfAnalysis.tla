---------------------------- MODULE DxfAnalysis ----------------------------
(***************************************************************************)
(* DxfFeatureExtractor (app/services/dxf_analysis.py): a drawing is read   *)
(* entity by entity, its segments are chained into one closed loop, equal  *)
(* circles are grouped into patterns, a chamfered rectangle is recognised, *)
(* and the feature tree made of all that is turned into a document, which  *)
(* the validator judges.  Then the user may edit the tree and confirm it.  *)
(*                                                                         *)
(* Coordinates are on a lattice and in millimetres already, doubled as in  *)
(* DesignRules.  Arcs, and with them fillets, are left out.                *)
(***************************************************************************)
EXTENDS DesignRules, SequencesExt

CONSTANTS
  Drawings,     \* [entities, mode]: what may be uploaded
  Documents,    \* documents that are posted to /validate as they are
  Continued,    \* drawings whose analysis a user goes on with
  Thickness,    \* thickness_mm
  MaxEntities, MaxSegments, MaxHoles

VARIABLES
  drawing,
  pc,
  todo,       \* entities that are not read yet
  raw,        \* segments of the outline
  axes,       \* centerlines
  circles,    \* [center, radius] of each circle
  chain,      \* the loop so far
  pool,       \* segments that are not in it yet
  retried,    \* the centerline was added to the segments
  free,       \* circles in no pattern yet
  patterns,
  tree,       \* the feature tree, a sequence of [id, op, parent, data]
  document,
  confirmed,  \* did the user send the tree back: "no", "as_is", "edited"
  errors      \* what the validator reports, or the reason of a refusal

(* What modelspace holds: a text is passed over, an insert and any other   *)
(* kind of entity is refused.                                              *)
Entity ==
  [kind : {"line", "center"}, from : Point, to : Point]
    \cup [kind : {"circle"}, center : Point, radius : Int]
    \cup [kind : {"polyline"}, points : Seq(Point), closed : BOOLEAN]
    \cup [kind : {"text", "insert"}]

ASSUME DrawingsAssumption ==
  Drawings \subseteq [entities : Seq(Entity), mode : {"auto", "extrude", "revolve"}]

ASSUME ThicknessAssumption == Thickness \in Int /\ Thickness > 0

ASSUME DocumentsAssumption ==
  \A doc \in Documents :
    /\ doc.base \in BaseFeature /\ doc.holes \in Seq(HoleFeature) /\ FitsSchema(doc)
    /\ doc.cutouts \subseteq CutoutFeature /\ IsFiniteSet(doc.cutouts)
    /\ \A i \in DOMAIN doc.holes : doc.holes[i].type = "countersink" => doc.holes[i].depth = 0

vars == <<drawing, pc, todo, raw, axes, circles, chain, pool, retried, free,
          patterns, tree, document, confirmed, errors>>

input == <<todo, raw, axes, circles>>
loop  == <<chain, pool, retried>>
holes == <<free, patterns>>
result == <<tree, document, confirmed, errors>>

NoDocument == [base |-> [kind |-> "none"]]

NoDrawing == [entities |-> <<>>, mode |-> "posted"]

(* The members of a sequence that are in a set, in their order.            *)
Keep(s, S) ==
  FlattenSeq([i \in DOMAIN s |-> IF s[i] \in S THEN <<s[i]>> ELSE <<>>])

Begin ==
  /\ axes = <<>> /\ raw = <<>> /\ circles = <<>>
  /\ chain = <<>> /\ pool = <<>> /\ retried = FALSE
  /\ free = <<>> /\ patterns = <<>> /\ tree = <<>>
  /\ confirmed = "no" /\ errors = {}
  /\ todo = drawing.entities

Init ==
  \/ /\ drawing \in Drawings /\ Begin
     /\ pc = "read" /\ document = NoDocument
  \/ /\ drawing = NoDrawing /\ Begin
     /\ pc = "validate" /\ document \in Documents

Refuse(reason) ==     \* DxfAnalysisError
  /\ pc' = "refused"
  /\ errors' = {reason}
  /\ UNCHANGED <<drawing, input, loop, holes, tree, document, confirmed>>

----------------------------------------------------------------------------
(* analyze_path: the loop over modelspace                                  *)

(* A polyline is closed, has three points, and no segment of length zero.  *)
SoundPolyline(points, closed) ==
  /\ closed /\ Len(points) >= 3
  /\ \A i \in DOMAIN points : points[i] # points[(i % Len(points)) + 1]

PolySegments(points) ==
  [i \in DOMAIN points |-> Line(points[i], points[(i % Len(points)) + 1])]

Supported(e) ==
  \/ e.kind \in {"line", "center", "circle", "text"}
  \/ e.kind = "polyline" /\ SoundPolyline(e.points, e.closed)

EntitiesRead == Len(drawing.entities) - Len(todo)

BeyondLimits ==
  \/ Len(raw') + Len(axes') > MaxSegments
  \/ Len(circles') > MaxHoles

ReadEntity ==
  /\ pc = "read" /\ todo # <<>>
  /\ EntitiesRead < MaxEntities /\ Supported(Head(todo))
  /\ LET e == Head(todo) IN
     /\ raw' = raw \o (CASE e.kind = "line" -> <<Line(e.from, e.to)>>
                         [] e.kind = "polyline" -> PolySegments(e.points)
                         [] OTHER -> <<>>)
     /\ axes' = IF e.kind = "center" THEN Append(axes, Line(e.from, e.to)) ELSE axes
     /\ circles' = IF e.kind = "circle"
                   THEN Append(circles, [center |-> e.center, radius |-> e.radius])
                   ELSE circles
  /\ todo' = Tail(todo)
  /\ IF BeyondLimits THEN pc' = "refused" /\ errors' = {"limit"}
                     ELSE UNCHANGED <<pc, errors>>
  /\ UNCHANGED <<drawing, loop, holes, tree, document, confirmed>>

RefuseEntity ==
  /\ pc = "read" /\ todo # <<>>
  /\ EntitiesRead >= MaxEntities \/ ~Supported(Head(todo))
  /\ Refuse("entity")

Slanted(s) == s.start[1] # s.end[1] /\ s.start[2] # s.end[2]

Drawable(p) == InRange(p[1]) /\ InRange(p[2])     \* Point2D

(* _revolution_axis                                                        *)
IsAxis(s) == ~IsDegenerate(s) /\ ~Slanted(s) /\ Drawable(s.start) /\ Drawable(s.end)

(* No outline, two centerlines, or one that is no axis.                    *)
RefuseLines ==
  /\ pc = "read" /\ todo = <<>>
  /\ \/ raw = <<>> \/ Len(axes) > 1
     \/ Len(axes) = 1 /\ ~IsAxis(axes[1])
  /\ Refuse("lines")

StartChain(segments) == chain' = <<Head(segments)>> /\ pool' = Tail(segments)

EndOfDrawing ==
  /\ pc = "read" /\ todo = <<>> /\ raw # <<>>
  /\ axes = <<>> \/ (Len(axes) = 1 /\ IsAxis(axes[1]))
  /\ pc' = "chain"
  /\ StartChain(raw)
  /\ UNCHANGED <<drawing, input, retried, holes, result>>

----------------------------------------------------------------------------
(* _closed_chain                                                           *)

Reversed(s) == Line(s.end, s.start)

End == Last(chain).end

Touching == {i \in DOMAIN pool : End \in {pool[i].start, pool[i].end}}

(* Planted fault: a segment drawn backwards is appended as it is.          *)
BugOriented(s) == s

Oriented(s) == IF s.end = End THEN Reversed(s) ELSE s

Link ==
  /\ pc = "chain" /\ Touching # {}
  /\ chain' = Append(chain, Oriented(pool[Min(Touching)]))
  /\ pool' = RemoveAt(pool, Min(Touching))
  /\ UNCHANGED <<drawing, pc, input, retried, holes, result>>

ClosedChain == pool = <<>> /\ End = chain[1].start

BrokenChain == Touching = {} /\ ~ClosedChain

(* The outline may need the centerline to be closed: all over again.       *)
Retry ==
  /\ pc = "chain" /\ BrokenChain
  /\ axes # <<>> /\ ~retried
  /\ StartChain(raw \o axes)
  /\ retried' = TRUE
  /\ UNCHANGED <<drawing, pc, input, holes, result>>

RefuseChain ==
  /\ pc = "chain" /\ BrokenChain
  /\ axes = <<>> \/ retried
  /\ Refuse("outline")

Revolves == drawing.mode = "revolve" \/ (drawing.mode = "auto" /\ axes # <<>>)

InBounds ==
  /\ \A p \in Corners(chain) : Drawable(p)
  /\ \A i \in DOMAIN circles : Drawable(circles[i].center)

(* A point beyond its bound, or no axis to turn about, or holes to turn.   *)
RefuseShape ==
  /\ pc = "chain" /\ ClosedChain
  /\ ~InBounds \/ (Revolves /\ (axes = <<>> \/ circles # <<>>))
  /\ Refuse("shape")

(* Circles are sorted by their centers, then by radius.                    *)
Before(c, d) ==
  \/ c.center[1] < d.center[1]
  \/ c.center[1] = d.center[1] /\ c.center[2] < d.center[2]
  \/ c.center = d.center /\ c.radius < d.radius

Rank(i) ==
  Cardinality({j \in DOMAIN circles :
                 \/ Before(circles[j], circles[i])
                 \/ circles[j] = circles[i] /\ j <= i})

Holes ==
  [n \in DOMAIN circles |->
     LET c == circles[CHOOSE i \in DOMAIN circles : Rank(i) = n] IN
     [id |-> n, center |-> c.center, radius |-> c.radius]]

InferOperation ==
  /\ pc = "chain" /\ ClosedChain /\ InBounds
  /\ Revolves => (axes # <<>> /\ circles = <<>>)
  /\ pc' = IF Revolves THEN "tree" ELSE "patterns"
  /\ free' = Holes
  /\ UNCHANGED <<drawing, input, loop, patterns, result>>

----------------------------------------------------------------------------
(* _hole_patterns                                                          *)

Ids(group) == [i \in DOMAIN group |-> group[i].id]
Positions(group, k) == {group[i].center[k] : i \in DOMAIN group}

(* _circular_pattern: on a lattice, the corners of a square.               *)
CornerSum(group) ==
  LET at(i, k) == group[i].center[k] IN
  [k \in 1 .. 2 |-> at(1, k) + at(2, k) + at(3, k) + at(4, k)]

(* 4 times p, turned by 90 degrees about the middle of four points, whose  *)
(* sum is s.                                                               *)
QuarterTurn4(p, s) == <<s[1] + s[2] - 4 * p[2], s[2] - s[1] + 4 * p[1]>>

QuarterTurn(p, s) == [k \in 1 .. 2 |-> QuarterTurn4(p, s)[k] \div 4]

EvenlyOnCircle(group) ==
  LET at == {group[i].center : i \in DOMAIN group} IN
  /\ Len(group) = 4 /\ Cardinality(at) = 4
  /\ \A p \in at : QuarterTurn4(p, CornerSum(group)) \in {<<4 * q[1], 4 * q[2]>> : q \in at}

Circular(group) ==
  [kind |-> "circular", members |-> ToSet(Ids(group)), radius |-> group[1].radius,
   count |-> Len(group), seed |-> group[1].center, sum |-> CornerSum(group)]

(* _linear_pattern, along the axis k                                       *)
EvenlyOnLine(group, k) ==
  LET values == Positions(group, k)
      gap == (Max(values) - Min(values)) \div (Len(group) - 1)
  IN /\ Cardinality(Positions(group, 3 - k)) = 1
     /\ Cardinality(values) = Len(group)
     /\ values = {Min(values) + i * gap : i \in 0 .. Len(group) - 1}

(* Planted fault: the spacing counts the circles, not the gaps.            *)
BugLinear(group, k) ==
  [kind |-> "linear", members |-> ToSet(Ids(group)), radius |-> group[1].radius,
   count |-> Len(group), seed |-> group[1].center, direction |-> k,
   spacing |-> (Max(Positions(group, k)) - Min(Positions(group, k))) \div Len(group)]

(* Sorted circles lie along the direction of their line already.           *)
Linear(group, k) ==
  [kind |-> "linear", members |-> ToSet(Ids(group)), radius |-> group[1].radius,
   count |-> Len(group), seed |-> group[1].center, direction |-> k,
   spacing |-> (Max(Positions(group, k)) - Min(Positions(group, k))) \div (Len(group) - 1)]

(* Sequences of numbers in the order of a dictionary.                      *)
Precedes(s, t) == \E i \in DOMAIN s : s[i] < t[i] /\ \A j \in 1 .. i - 1 : s[j] = t[j]
Foremost(S) == CHOOSE s \in S : \A t \in S \ {s} : Precedes(s, t)

(* Is d on the circle through a, b and c?                                  *)
Concyclic(a, b, c, d) ==
  LET norm(p) == Distance2(p, d) IN
    norm(a) * Cross(d, b, c) - norm(b) * Cross(d, a, c) + norm(c) * Cross(d, a, b) = 0

(* _best_circular_subpattern: circles on which exactly four are, evenly.   *)
Squares(group) ==
  LET at(i) == group[i].center
      triples == {t \in [1 .. 3 -> DOMAIN group] :
                    t[1] < t[2] /\ t[2] < t[3] /\ Cross(at(t[1]), at(t[2]), at(t[3])) # 0}
      carried(t) == Keep(group, {h \in ToSet(group) :
                                   Concyclic(at(t[1]), at(t[2]), at(t[3]), h.center)})
  IN {s \in {carried(t) : t \in triples} : EvenlyOnCircle(s)}

FirstSquare(group) ==
  CHOOSE s \in Squares(group) :
    Ids(s) = Foremost({Ids(t) : t \in Squares(group)})

(* _best_linear_subpattern: the longest run, as <<-length, direction,      *)
(* fixed coordinate, first, spacing>>; the earlier one of equals.          *)
RunLength(values, v, d) ==
  Max({n \in 1 .. Cardinality(values) : \A i \in 0 .. n - 1 : v + i * d \in values})

Runs(group) ==
  LET row(k, f) == Positions(Keep(group, {h \in ToSet(group) : h.center[3 - k] = f}), k)
      pairs(k, f) == {e \in row(k, f) \X row(k, f) : e[1] < e[2]}
      from(k, f) == {<<-RunLength(row(k, f), e[1], e[2] - e[1]), k, f, e[1], e[2] - e[1]>> :
                       e \in pairs(k, f)}
  IN {r \in UNION {UNION {from(k, f) : f \in Positions(group, 3 - k)} : k \in 1 .. 2} :
        r[1] <= -3}

OnRun(group, r) ==
  LET at(i) == IF r[2] = 1 THEN <<r[4] + i * r[5], r[3]>> ELSE <<r[3], r[4] + i * r[5]>>
      first(p) == Min({j \in DOMAIN group : group[j].center = p})
  IN [i \in 1 .. -r[1] |-> group[first(at(i - 1))]]

NoPattern == [kind |-> "none"]

PatternOf(group) ==
  IF Len(group) < 3 THEN NoPattern
  ELSE IF EvenlyOnCircle(group) THEN Circular(group)
  ELSE IF EvenlyOnLine(group, 1) THEN Linear(group, 1)
  ELSE IF EvenlyOnLine(group, 2) THEN Linear(group, 2)
  ELSE IF Squares(group) # {} THEN Circular(FirstSquare(group))
  ELSE IF Runs(group) # {}
  THEN LET r == Foremost(Runs(group)) IN Linear(OnRun(group, r), r[2])
  ELSE NoPattern

(* The circles in no pattern that are as large as the first one.           *)
Group == Keep(free, {h \in ToSet(free) : h.radius = free[1].radius})

GroupPattern ==
  /\ pc = "patterns" /\ Len(free) >= 3
  /\ LET found == PatternOf(Group) IN
     /\ found # NoPattern
     /\ patterns' = Append(patterns, found)
     /\ free' = Keep(free, {h \in ToSet(free) : h.id \notin found.members})
  /\ UNCHANGED <<drawing, pc, input, loop, result>>

SkipCircle ==
  /\ pc = "patterns" /\ Len(free) >= 3
  /\ PatternOf(Group) = NoPattern
  /\ free' = Tail(free)
  /\ UNCHANGED <<drawing, pc, input, loop, patterns, result>>

----------------------------------------------------------------------------
(* _global_edge_treatment                                                  *)

Edges(l, k) == <<Min({p[k] : p \in Corners(l)}), Max({p[k] : p \in Corners(l)})>>

(* The sides of the bounding box a point is on.                            *)
BoxSides(l, p) == {e \in (1 .. 2) \X (1 .. 2) : p[e[1]] = Edges(l, e[1])[e[2]]}

JoinsAdjacentSides(l, s) ==
  \E e, f \in (1 .. 2) \X (1 .. 2) :
    e[1] # f[1] /\ BoxSides(l, s.start) = {e} /\ BoxSides(l, s.end) = {f}

Diagonals(l) == {i \in DOMAIN l : Slanted(l[i])}
Reach(s, k) == Abs(s.end[k] - s.start[k])

(* A rectangle with four equal chamfers.                                   *)
Chamfered(l) ==
  /\ Len(l) = 8 /\ Cardinality(Diagonals(l)) = 4
  /\ \A i \in Diagonals(l) :
       Reach(l[i], 1) = Reach(l[i], 2) /\ JoinsAdjacentSides(l, l[i])
  /\ Cardinality({Reach(l[i], 1) : i \in Diagonals(l)}) = 1

SharpRectangle(l) ==
  LET x == Edges(l, 1)
      y == Edges(l, 2)
  IN PolySegments(<<<<x[1], y[1]>>, <<x[2], y[1]>>, <<x[2], y[2]>>, <<x[1], y[2]>>>>)

ChamferSize(l) == Reach(l[Min(Diagonals(l))], 1)

----------------------------------------------------------------------------
(* _feature_tree                                                           *)

Node(id, op, parent, data) == [id |-> id, op |-> op, parent |-> parent, data |-> data]

ProfileNode == <<"profile", 1>>

(* _revolution_axis: which coordinate is radial, and where the axis is.    *)
RevolutionAxis ==
  IF axes[1].start[1] = axes[1].end[1]
  THEN [radial |-> 1, at |-> axes[1].start[1]]
  ELSE [radial |-> 2, at |-> axes[1].start[2]]

Patterned == UNION {patterns[i].members : i \in DOMAIN patterns}

HoleNodes ==
  LET single == Keep(Holes, {h \in ToSet(Holes) : h.id \notin Patterned}) IN
  [i \in DOMAIN single |->
     Node(<<"circle", single[i].id>>, "circle_hole", ProfileNode,
          [center |-> single[i].center, radius |-> single[i].radius])]

PatternNodes ==
  [i \in DOMAIN patterns |->
     Node(<<"pattern", i>>, "hole_pattern", ProfileNode, patterns[i])]

BuildTree ==
  /\ \/ pc = "tree"
     \/ pc = "patterns" /\ Len(free) < 3
  /\ pc' = "convert"
  /\ tree' =
       IF Revolves
       THEN <<Node(ProfileNode, "profile_loop", ProfileNode, chain),
              Node(<<"revolve", 1>>, "revolve_profile", ProfileNode, RevolutionAxis)>>
       ELSE <<Node(ProfileNode, "profile_loop", ProfileNode,
                   IF Chamfered(chain) THEN SharpRectangle(chain) ELSE chain),
              Node(<<"extrude", 1>>, "extrude_profile", ProfileNode, Thickness)>>
              \o HoleNodes \o PatternNodes
              \o (IF Chamfered(chain)
                  THEN <<Node(<<"chamfer", 1>>, "chamfer_edges", ProfileNode,
                              ChamferSize(chain))>>
                  ELSE <<>>)
  /\ UNCHANGED <<drawing, input, loop, holes, document, confirmed, errors>>

----------------------------------------------------------------------------
(* spec_from_feature_tree                                                  *)

Nodes(op) == Keep(tree, {n \in ToSet(tree) : n.op = op})
BaseNodes == Nodes("extrude_profile") \o Nodes("revolve_profile")
FeatureNodes == Nodes("circle_hole") \o Nodes("hole_pattern") \o Nodes("chamfer_edges")
TreeProfile == Head(Nodes("profile_loop"))
TreeBase == Head(BaseNodes)

(* _expanded_pattern_holes: the centers of the circles of a pattern.       *)
Expanded(p) ==
  IF p.kind = "linear"
  THEN [i \in 1 .. p.count |->
          [k \in 1 .. 2 |-> p.seed[k] + (IF k = p.direction THEN (i - 1) * p.spacing ELSE 0)]]
  ELSE LET turned(q) == QuarterTurn(q, p.sum) IN
       <<p.seed, turned(p.seed), turned(turned(p.seed)), turned(turned(turned(p.seed)))>>

ThroughHole(center, radius) ==
  [at |-> <<center[1], center[2], 0>>, axis |-> Z, diameter |-> 2 * radius,
   type |-> "through", depth |-> 0, head |-> 0]

HolesOf(node) ==
  IF node.op = "circle_hole" THEN <<ThroughHole(node.data.center, node.data.radius)>>
  ELSE [i \in 1 .. node.data.count |->
          ThroughHole(Expanded(node.data)[i], node.data.radius)]

TreeHoles ==
  LET nodes == Nodes("circle_hole") \o Nodes("hole_pattern") IN
  FlattenSeq([i \in DOMAIN nodes |-> HolesOf(nodes[i])])

(* _profile_for_revolution                                                 *)
Radial(p, axis) == p[axis.radial] - axis.at
Radii(l, axis) == {Radial(p, axis) : p \in Corners(l)}

OffAxis(l, axis) ==
  \/ 0 \notin Radii(l, axis)
  \/ Min(Radii(l, axis)) < 0 /\ Max(Radii(l, axis)) > 0

OnAxis(p, l, axis) ==
  LET sign == IF Min(Radii(l, axis)) < 0 THEN -1 ELSE 1 IN
  <<sign * Radial(p, axis), p[3 - axis.radial] - Edges(l, 3 - axis.radial)[1]>>

ProfileForRevolution(l, axis) ==
  [i \in DOMAIN l |-> Line(OnAxis(l[i].start, l, axis), OnAxis(l[i].end, l, axis))]

Revolution == TreeBase.op = "revolve_profile"

WellBuilt ==
  /\ Cardinality({tree[i].id : i \in DOMAIN tree}) = Len(tree)
  /\ Len(Nodes("profile_loop")) = 1 /\ Len(BaseNodes) = 1
  /\ \A i \in DOMAIN tree :
       tree[i].op # "profile_loop" => tree[i].parent = TreeProfile.id
  /\ Len(TreeHoles) <= MaxHoles
  /\ Len(Nodes("chamfer_edges")) <= 1
  /\ Revolution => FeatureNodes = <<>> /\ ~OffAxis(TreeProfile.data, TreeBase.data)

Converted ==
  [base |-> [kind |-> IF Revolution THEN "profile_revolution" ELSE "profile_extrusion",
             size |-> <<0, 0, IF Revolution THEN 0 ELSE TreeBase.data>>,
             wall |-> 0, inner |-> 0,
             outer |-> IF Revolution
                       THEN ProfileForRevolution(TreeProfile.data, TreeBase.data)
                       ELSE TreeProfile.data],
   holes |-> TreeHoles,
   cutouts |-> {},
   edges |-> {[kind |-> "chamfer", size |-> Nodes("chamfer_edges")[i].data,
               vertical |-> TRUE] : i \in DOMAIN Nodes("chamfer_edges")}]

Convertible == WellBuilt /\ FitsSchema(Converted)

RefuseTree ==
  /\ pc = "convert" /\ ~Convertible
  /\ Refuse("tree")

Convert ==
  /\ pc = "convert" /\ Convertible
  /\ pc' = "validate"
  /\ document' = Converted
  /\ UNCHANGED <<drawing, input, loop, holes, tree, confirmed, errors>>

Validate ==
  /\ pc = "validate"
  /\ pc' = IF confirmed # "no" \/ drawing.mode = "posted" THEN "done" ELSE "analysed"
  /\ errors' = Errors(document)
  /\ UNCHANGED <<drawing, input, loop, holes, tree, document, confirmed>>

----------------------------------------------------------------------------
(* The user's tree comes back (dxf_feature_tree_to_spec).                  *)

Repeated == {Append(tree, tree[i]) : i \in DOMAIN tree}
Dropped == {RemoveAt(tree, i) : i \in DOMAIN tree}
Moved == {[tree EXCEPT ![i].parent = tree[Len(tree)].id] : i \in DOMAIN tree}

Confirm ==
  /\ pc = "analysed" /\ drawing \in Continued
  /\ pc' = "convert"
  /\ \/ confirmed' = "as_is" /\ tree' = tree
     \/ confirmed' = "edited" /\ tree' \in Repeated \cup Dropped \cup Moved
  /\ errors' = {}
  /\ UNCHANGED <<drawing, input, loop, holes, document>>

Next ==
  \/ ReadEntity \/ RefuseEntity \/ RefuseLines \/ EndOfDrawing
  \/ Link \/ Retry \/ RefuseChain \/ RefuseShape \/ InferOperation
  \/ GroupPattern \/ SkipCircle \/ BuildTree
  \/ RefuseTree \/ Convert \/ Validate \/ Confirm

Spec == Init /\ [][Next]_vars

----------------------------------------------------------------------------
(* Properties                                                              *)

Ends(l) == [i \in DOMAIN l |-> {l[i].start, l[i].end}]

Bagged(s) == [e \in ToSet(s) |-> Cardinality({i \in DOMAIN s : s[i] = e})]

(* One closed curve: two ends meet at every point, and no part is apart.   *)
OneCycle(l) ==
  /\ \A p \in Corners(l) :
       Cardinality({i \in DOMAIN l : l[i].start = p})
         + Cardinality({i \in DOMAIN l : l[i].end = p}) = 2
  /\ \A S \in (SUBSET Corners(l)) \ {{}, Corners(l)} :
       \E i \in DOMAIN l : (l[i].start \in S) # (l[i].end \in S)

(* The order the entities are drawn in, and the direction of a line, never *)
(* matter: the chain is every segment of the outline once, each starting   *)
(* where the one before it ends, and an outline is refused only if its     *)
(* segments, with or without the centerline, are not one closed curve.     *)
ChainIsTheDrawing ==
  /\ pc \in {"patterns", "tree"} =>
       /\ Bagged(Ends(chain)) = Bagged(Ends(IF retried THEN raw \o axes ELSE raw))
       /\ BrokenSegments(chain) \subseteq {"profile_degenerate_segment"}
  /\ pc = "refused" /\ errors = {"outline"} =>
       ~OneCycle(raw) /\ ~(axes # <<>> /\ OneCycle(raw \o axes))

DocumentCircles ==
  [i \in DOMAIN document.holes |->
     [center |-> InPlane(document.holes[i]), radius |-> document.holes[i].diameter \div 2]]

Times(bag, e) == IF e \in DOMAIN bag THEN bag[e] ELSE 0

(* Grouping circles into patterns and expanding the patterns again gives   *)
(* the circles of the drawing, each as often as it was drawn; a tree that  *)
(* the user edited gives no circle that was not drawn.                     *)
HolesSurvive ==
  pc = "validate" /\ drawing.mode # "posted" =>
    LET drawn == Bagged(circles)
        made == Bagged(DocumentCircles)
    IN /\ confirmed # "edited" => made = drawn
       /\ \A c \in DOMAIN made : made[c] <= Times(drawn, c)

(* The lattice, as far as the box around some points.                      *)
Around(xs, ys) == (Min(xs) .. Max(xs)) \X (Min(ys) .. Max(ys))

(* Pick's theorem, which holds of simple polygons, with the points inside  *)
(* counted one by one.                                                     *)
Simple(l) ==
  LET points == {p \in Around(Xs(l), Ys(l)) : InLoop(p, l)}
      border == {p \in points : \E i \in DOMAIN l : OnSegment(p, l[i])}
  IN Abs(SignedArea2(l)) = 2 * Cardinality(points \ border) + Cardinality(border) - 2

Disc(h) ==
  LET c == InPlane(h)
      d == EffectiveDiameter(h)
  IN {p \in (c[1] - d .. c[1] + d) \X (c[2] - d .. c[2] + d) :
        4 * Distance2(p, c) < Square(d)}

(* What is seen of a part along an axis.                                   *)
InSilhouette(p, base, axis) ==
  CASE base.kind = "profile_extrusion" -> InLoop(p, base.outer)
    [] base.kind \in {"cylinder", "ring"} /\ axis = Z ->
         4 * Distance2(p, <<0, 0>>) <= Square(base.size[X])
    [] OTHER -> \A k \in 1 .. 2 :
                  2 * Abs(p[k] - PlaneCenter(base, axis)[k])
                    <= Dimensions(base)[PlaneAxes(axis)[k]]

Judged == pc \in {"analysed", "done"}

(* A document without an error can be made: its profile is a simple        *)
(* polygon, on the side of the axis it is turned about, every hole is      *)
(* within the part, and no two holes along an axis have a point in common. *)
ValidIsSolid ==
  Judged /\ errors = {} =>
    LET base == document.base
        hs == document.holes
    IN /\ base.kind \in {"profile_extrusion", "profile_revolution"} => Simple(base.outer)
       /\ base.kind = "profile_revolution" =>
            \A p \in Corners(base.outer) : p[1] >= 0 /\ p[2] >= 0
       /\ \A i \in DOMAIN hs : \A p \in Disc(hs[i]) : InSilhouette(p, base, hs[i].axis)
       /\ \A i, j \in DOMAIN hs :
            i # j /\ hs[i].axis = hs[j].axis => Disc(hs[i]) \cap Disc(hs[j]) = {}

(* tests/test_dxf_analysis.py:129: a drawing with a hole outside its       *)
(* outline is not convertible.                                             *)
ConvertibleHolesInside ==
  pc = "analysed" /\ errors = {} =>
    \A i \in DOMAIN circles : CircleInLoop(circles[i].center, circles[i].radius, chain)

=============================================================================
