---------------------------- MODULE MCPartSolid ----------------------------
(***************************************************************************)
(* The drawings and documents of MCDxfAnalysis, as far as a solid, and     *)
(* prompts: every template with and without numbers, and a group of holes  *)
(* of every type and layout.                                               *)
(***************************************************************************)
EXTENDS PartSolid, MCDxfAnalysis

Templates == {"plate", "cylinder", "ring", "l_bracket", "enclosure"}

Params(given) == [name \in Parameters |-> IF name \in DOMAIN given THEN given[name] ELSE 0]

(* Nothing but defaults, a small part, and walls that are impossible.      *)
Unnamed == Params(<<>>)
Small ==
  Params([name \in Parameters |->
            CASE name \in {"thickness", "wall_thickness"} -> 8
              [] name = "inner_diameter" -> 16 [] name = "edge_margin" -> 12
              [] OTHER -> 48])
Walls == Params([name \in {"thickness", "wall_thickness", "inner_diameter"} |-> 160])

SomeIntent(template, params, group) ==
  [template |-> template, params |-> params, groups |-> <<group>>, cutouts |-> {}, edges |-> {}]
AsGroup(count, diameter, type, layout, axis) ==
  [count |-> count, diameter |-> diameter, nominal |-> 0, type |-> type, layout |-> layout,
   positions |-> <<>>, axis |-> axis, depth |-> 0, head |-> 0]
TwoPlaces == <<<<4, 8, 12>>, <<-8, 8, 12>>>>

Placed ==
  {AsGroup(r[1], 0, "through", r[2], a) :
     <<r, a>> \in
       {<<1, "center">>, <<1, "four_corners">>, <<2, "line_x">>, <<5, "four_corners">>,
        <<3, "centered_line_x">>} \X {X, Y, Z}}
    \cup {[AsGroup(c, 0, "through", "explicit", Z) EXCEPT !.positions = p] :
            <<c, p>> \in {1, 3} \X {<<>>, TwoPlaces}}
Typed ==
  {AsGroup(1, 10, t, "line_x", a) :
     <<t, a>> \in {"counterbore", "countersink"} \X {Y, Z}}
    \cup {[AsGroup(1, 0, t, "center", Z) EXCEPT !.nominal = 20] :
            t \in {"tapped", "clearance", "counterbore", "through"}}
    \cup {[AsGroup(2, 10, t, "line_x", Z) EXCEPT !.depth = 4, !.head = 14] :
            t \in {"counterbore", "through"}}
Blind == {AsGroup(1, d, "blind", "line_x", Y) : d \in {0, 4}}

SomeAnswers ==
  {SomeIntent(t, p, g) : <<t, p, g>> \in Templates \X {Unnamed, Small} \X (Placed \cup Typed \cup Blind)}
    \cup {SomeIntent(t, Small, [g EXCEPT !.axis = Z]) : <<t, g>> \in Templates \X Blind}
    \cup {SomeIntent(t, Walls, AsGroup(1, 0, "through", "center", Z)) : t \in Templates}
    \cup {[template |-> "plate", params |-> Small, cutouts |-> {}, edges |-> {},
           groups |-> <<AsGroup(6, 4, "through", "four_corners", Z),
                        AsGroup(1, 10, "countersink", "center", Z)>>]}

Word == [count |-> 1, diameter |-> 10, nominal |-> 0, tapped |-> FALSE, kind |-> "none",
         corners |-> FALSE, central |-> FALSE, positions |-> <<>>, axis |-> Z,
         depth |-> 0, head |-> 0]
HoleWords ==
  {[Word EXCEPT !.count = c, !.corners = four, !.central = mid, !.positions = p, !.axis = a] :
     <<c, four, mid, p, a>> \in
       {1, 3} \X BOOLEAN \X BOOLEAN \X {<<>>, <<<<4, 8, 0>>>>} \X {Y, Z}}
    \cup {[Word EXCEPT !.kind = k, !.depth = d] :
            <<k, d>> \in {"counterbore", "countersink"} \X {0, 4}}
    \cup {[Word EXCEPT !.nominal = 20, !.tapped = t, !.diameter = d] :
            <<t, d>> \in BOOLEAN \X {0, 10}}
    \cup {[Word EXCEPT !.kind = "blind", !.depth = 4], [Word EXCEPT !.diameter = 0]}
SomeWords(template, params, triplet, hole, cutout) ==
  [template |-> template, params |-> params, triplet |-> triplet, hole |-> hole,
   cutout |-> cutout, edges |-> {[kind |-> "fillet", size |-> 2, vertical |-> TRUE]}]
SomePrompts ==
  {SomeWords(t, Small, <<>>, <<w>>, <<>>) : <<t, w>> \in Templates \X HoleWords}
    \cup {SomeWords(t, Unnamed, s, h, <<>>) :
            <<t, s, h>> \in Templates \X {<<>>, <<60, 40, 8>>} \X {<<>>, <<Word>>}}
    \cup {SomeWords("enclosure", p, <<>>, <<>>, <<[Window(X, 1) EXCEPT !.at = <<0, 2, z>>]>>) :
            <<p, z>> \in {Unnamed, Small, Walls} \X {0, 40}}
=============================================================================
