------------------------------- MODULE Intent -------------------------------
(***************************************************************************)
(* From a plan to a document: intent_to_document (services/planners/       *)
(* intent.py), which both planners end in, and what the rule-based planner *)
(* makes of the words it has recognised in a prompt (rule_based.py).       *)
(* Recognising them is text processing and stays out.                      *)
(*                                                                         *)
(* An intent is [template, params, groups, cutouts, edges]; params is a    *)
(* function from the names of parameters to numbers, where 0 stands for    *)
(* null.  A group of holes is [count, diameter, nominal, type, layout,     *)
(* positions, axis, depth, head]; nominal is that of its thread.  Numbers  *)
(* are twice those in the plan, and depth and head as in DesignRules.      *)
(* Assumptions and doubts, which only ask for a review, are left out.      *)
(***************************************************************************)
EXTENDS DesignRules, SequencesExt

Parameters == {"length", "width", "height", "thickness", "diameter", "outer_diameter",
               "inner_diameter", "depth", "vertical_height", "wall_thickness", "edge_margin"}

Or(given, default) == IF given # 0 THEN given ELSE default

(* A fraction of a number; a result that is not on the lattice is an error.*)
Share(n, num, den) == CHOOSE s \in {(n * num) \div den} : s * den = n * num

Lesser(a, b) == IF a < b THEN a ELSE b
Greater(a, b) == IF a > b THEN a ELSE b

----------------------------------------------------------------------------
(* _base_from_intent                                                       *)

BaseOf(template, x, y, z, wall, inner) ==
  [kind |-> template, size |-> <<x, y, z>>, wall |-> wall, inner |-> inner, outer |-> <<>>]

IntentBase(template, p) ==
  LET thick(default) == Or(p["thickness"], Or(p["height"], default)) IN
  CASE template = "plate" ->
         BaseOf(template, Or(p["length"], 200), Or(p["width"], 120), thick(10), 0, 0)
    [] template = "cylinder" ->
         LET d == Or(p["diameter"], Or(p["outer_diameter"], 40)) IN
         BaseOf(template, d, d, Or(p["height"], Or(p["length"], 80)), 0, 0)
    [] template = "ring" ->
         LET d == Or(p["outer_diameter"], 60)
             given == p["inner_diameter"]
             void == IF given = 0 \/ given >= d THEN Share(d, 1, 2) ELSE given
         IN BaseOf(template, d, d, thick(10), 0, void)
    [] template = "l_bracket" ->
         LET plate == Or(p["thickness"], 8) IN
         BaseOf(template, Or(p["width"], Or(p["length"], 120)), Or(p["depth"], 80),
                Or(p["vertical_height"], Or(p["height"], 100)) + plate, plate, 0)
    [] template = "enclosure" ->
         BaseOf(template, Or(p["length"], 200), Or(p["width"], 140), Or(p["height"], 60),
                Or(p["wall_thickness"], Or(p["thickness"], 4)), 0)

----------------------------------------------------------------------------
(* _default_positions                                                      *)

Spread(base, axis) == [k \in 1 .. 2 |-> Dimensions(base)[PlaneAxes(axis)[k]]]

Margin(p) == Or(p["edge_margin"], 20)

(* At least half a millimetre from the middle of the part.                 *)
SafeMargin(base, axis, margin) ==
  LET narrow == Lesser(Spread(base, axis)[1], Spread(base, axis)[2]) IN
  Lesser(Greater(margin, 0), Greater(Share(narrow, 1, 2) - 1, 0))

(* How far from the middle the outermost default positions are.            *)
HalfSpread(base, axis, margin) ==
  [k \in 1 .. 2 |->
     Greater(Share(Spread(base, axis)[k], 1, 2) - SafeMargin(base, axis, margin), 0)]

OnPlane(axis, p) ==
  [k \in 1 .. 3 |-> IF \E i \in 1 .. 2 : PlaneAxes(axis)[i] = k
                    THEN p[CHOOSE i \in 1 .. 2 : PlaneAxes(axis)[i] = k] ELSE 0]

DefaultPositions(base, count, layout, margin, axis) ==
  LET center == PlaneCenter(base, axis)
      spread == Spread(base, axis)
      half == HalfSpread(base, axis, margin)
      corners == <<<<-1, -1>>, <<1, -1>>, <<1, 1>>, <<-1, 1>>>>
      row(i) ==
        CASE layout = "centered_line_x" ->
               center[1] + Share(spread[1], 2 * i - count - 1, 2 * (count + 1))
          [] layout # "centered_line_x" /\ count = 1 -> center[1]
          [] OTHER -> center[1] - half[1] + Share(2 * half[1], i - 1, count - 1)
  IN IF layout = "four_corners"
     THEN [i \in 1 .. Lesser(count, 4) |->
             OnPlane(axis, [k \in 1 .. 2 |-> center[k] + corners[i][k] * half[k]])]
     ELSE [i \in 1 .. count |-> OnPlane(axis, <<row(i), center[2]>>)]

----------------------------------------------------------------------------
(* intent_to_document                                                      *)

(* The standard tables, at the one thread whose holes are on the lattice.  *)
Clearance == [nominal \in {20} |-> 22]
TapDrill == [nominal \in {20} |-> 17]

GroupDiameter(g) ==
  Or(g.diameter,
     CASE g.nominal = 0 -> 6
       [] g.nominal # 0 /\ g.type = "tapped" -> TapDrill[g.nominal]
       [] g.nominal # 0 /\ g.type = "clearance" -> Clearance[g.nominal]
       [] OTHER -> g.nominal)

(* Planted fault: the depth of a counterbore has nothing to do with the    *)
(* material.                                                               *)
BugGroupDepth(g, material) ==
  CASE g.type = "blind" ->
         Or(g.depth, Lesser(Greater(Share(GroupDiameter(g), 3, 2), 2), Share(material, 3, 4)))
    [] g.type = "counterbore" -> Or(g.depth, Share(GroupDiameter(g), 3, 5))
    [] OTHER -> IF g.head # 0 /\ g.type # "countersink" THEN g.depth ELSE 0

GroupDepth(g, material) ==
  CASE g.type = "blind" ->
         Or(g.depth, Lesser(Greater(Share(GroupDiameter(g), 3, 2), 2), Share(material, 3, 4)))
    [] g.type = "counterbore" ->
         Or(g.depth, Lesser(Share(GroupDiameter(g), 3, 5), Share(material, 1, 2)))
    [] OTHER -> IF g.head # 0 /\ g.type # "countersink" THEN g.depth ELSE 0

GroupHead(g) ==
  CASE g.type = "counterbore" -> Or(g.head, Share(GroupDiameter(g), 9, 5))
    [] g.type = "countersink" -> Or(g.head, 2 * GroupDiameter(g))
    [] OTHER -> g.head

GroupPositions(base, g, margin) ==
  IF g.layout = "explicit" /\ g.positions # <<>> THEN g.positions
  ELSE DefaultPositions(base, g.count, g.layout, margin, g.axis)

(* A tapped or a clearance hole is a through hole to everything after.     *)
GroupHoles(base, g, margin) ==
  LET at == GroupPositions(base, g, margin) IN
  [i \in 1 .. Lesser(g.count, Len(at)) |->
     [at |-> at[i], axis |-> g.axis, diameter |-> GroupDiameter(g),
      type |-> IF g.type \in {"tapped", "clearance"} THEN "through" ELSE g.type,
      depth |-> GroupDepth(g, MaterialDepth(base, g.axis)), head |-> GroupHead(g)]]

IntentDocument(intent) ==
  LET base == IntentBase(intent.template, intent.params) IN
  [base |-> base,
   holes |-> FlattenSeq([n \in DOMAIN intent.groups |->
                           GroupHoles(base, intent.groups[n], Margin(intent.params))]),
   cutouts |-> intent.cutouts, edges |-> intent.edges]

(* What a plan consists of (LLMIntent, IntentHole), and whether the numbers *)
(* nobody gave, and those the schema lets pass, are on the lattice.        *)
HoleGroup ==
  [count : Nat, diameter : Int, nominal : {0} \cup DOMAIN TapDrill,
   type : {"through", "blind", "counterbore", "countersink", "tapped", "clearance"},
   layout : {"explicit", "center", "line_x", "centered_line_x", "four_corners"},
   positions : Seq(Int \X Int \X Int), axis : {X, Y, Z}, depth : Int, head : Int]

IsIntent(i) ==
  /\ i.template \in {"plate", "cylinder", "ring", "l_bracket", "enclosure"}
  /\ i.params \in [Parameters -> Int]
  /\ i.groups \in Seq(HoleGroup)
  /\ i.cutouts \subseteq CutoutFeature /\ IsFiniteSet(i.cutouts)

Whole(n, num, den) == ((n * num) \div den) * den = n * num

OnLattice(i) ==
  LET base == IntentBase(i.template, i.params)
      void == i.params["inner_diameter"]
  IN
  /\ i.template = "ring" /\ (void = 0 \/ void >= base.size[X]) => Whole(base.size[X], 1, 2)
  /\ \A n \in DOMAIN i.groups :
    LET g == i.groups[n]
        material == MaterialDepth(base, g.axis)
        half == HalfSpread(base, g.axis, Margin(i.params))
    IN /\ \A k \in 1 .. 2 : Whole(Spread(base, g.axis)[k], 1, 2)
       /\ \A k \in 1 .. g.count :
            /\ (g.layout \in {"center", "line_x"} \/ (g.layout = "explicit" /\ g.positions = <<>>))
                 /\ g.count > 1 => Whole(2 * half[1], k - 1, g.count - 1)
            /\ g.layout = "centered_line_x" =>
                 Whole(Spread(base, g.axis)[1], 2 * k - g.count - 1, 2 * (g.count + 1))
       /\ g.type = "blind" /\ g.depth = 0 =>
            Whole(GroupDiameter(g), 3, 2) /\ Whole(material, 3, 4)
       /\ g.type = "counterbore" /\ g.depth = 0 =>
            Whole(GroupDiameter(g), 3, 5) /\ Whole(material, 1, 2)
       /\ g.type = "counterbore" /\ g.head = 0 => Whole(GroupDiameter(g), 9, 5)

----------------------------------------------------------------------------
(* RuleBasedPlanner: words is [template, params, triplet, hole, cutout,    *)
(* edges]; hole and cutout are sequences of one or none.  A hole is        *)
(* [count, diameter, nominal, tapped, kind, corners, central, positions,   *)
(* axis, depth, head].                                                     *)

(* a x b x c stands for parameters that have no word of their own.         *)
RuleParams(words) ==
  LET p == words.params
      third == IF words.template \in {"plate", "ring"} THEN "thickness" ELSE "height"
      from(name) == CASE name = "length" -> words.triplet[1]
                      [] name = "width" -> words.triplet[2]
                      [] name = third -> words.triplet[3]
                      [] OTHER -> 0
  IN IF words.triplet = <<>> THEN p ELSE [name \in Parameters |-> Or(p[name], from(name))]

(* _hole_group: counterbores and countersinks get their sizes here         *)
(* already, whatever the material.                                         *)
RuleGroup(w) ==
  LET type == CASE w.kind # "none" -> w.kind
                [] w.kind = "none" /\ w.tapped -> "tapped"
                [] w.kind = "none" /\ ~w.tapped /\ w.nominal # 0 -> "clearance"
                [] OTHER -> "through"
      diameter == Or(w.diameter, CASE w.nominal = 0 -> 6
                                   [] w.nominal # 0 /\ w.tapped -> TapDrill[w.nominal]
                                   [] OTHER -> Clearance[w.nominal])
      count == CASE w.positions # <<>> -> Len(w.positions)
                 [] w.positions = <<>> /\ w.corners -> 4
                 [] OTHER -> w.count
  IN [count |-> count, diameter |-> diameter, nominal |-> w.nominal, type |-> type,
      layout |-> CASE w.positions # <<>> -> "explicit"
                   [] w.positions = <<>> /\ w.corners -> "four_corners"
                   [] w.positions = <<>> /\ ~w.corners /\ w.central ->
                        IF count = 1 THEN "center" ELSE "centered_line_x"
                   [] OTHER -> "line_x",
      positions |-> w.positions, axis |-> w.axis,
      depth |-> IF type = "counterbore" THEN Or(w.depth, Share(diameter, 3, 5)) ELSE w.depth,
      head |-> CASE type = "counterbore" -> Or(w.head, Share(diameter, 9, 5))
                 [] type = "countersink" -> Or(w.head, 2 * diameter)
                 [] OTHER -> w.head]

(* _rectangular_cutout: in the middle of the height, unless told.          *)
RuleCutout(c, p) ==
  [c EXCEPT !.at = [k \in 1 .. 3 |-> IF k = Z THEN Or(c.at[Z], Share(Or(p["height"], 60), 1, 2))
                                     ELSE c.at[k]]]

RuleIntent(words) ==
  LET p == RuleParams(words) IN
  [template |-> words.template, params |-> p,
   groups |-> [i \in DOMAIN words.hole |-> RuleGroup(words.hole[i])],
   cutouts |-> {RuleCutout(words.cutout[i], p) : i \in DOMAIN words.cutout},
   edges |-> words.edges]

=============================================================================
