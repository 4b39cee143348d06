---------------------------- MODULE MCExtraction ----------------------------
(***************************************************************************)
(* Extraction for TLC, over drawings of three sheets: schedules of every   *)
(* kind and no plans, a finish schedule with two area plans, or catalogs   *)
(* with two plans that carry their tags.                                   *)
(***************************************************************************)
EXTENDS Extraction

Schema(n, k, core, shape, grammar, merges, qty, match) ==
  [name |-> n, key |-> k, core |-> core, shape |-> shape, grammar |-> grammar, merges |-> merges,
   qty |-> qty, match |-> match, groups |-> {<<"door">>, <<"frame">>}, ambiguous |-> {<<"material">>},
   marks |-> {"N1", "N2", "N3"}]

Labels(f, g) == <<"number">> :> f @@ <<"type">> :> g

Door   == Schema("door", "mark", {"mark", "door_material", "frame_material", "width"}, "instance", "mark", TRUE, "",
                 <<"number">> :> "mark" @@ <<"door", "material">> :> "door_material" @@
                 <<"frame", "material">> :> "frame_material" @@ <<"width">> :> "width")
Finish == Schema("finish", "room", {"room", "floor", "base", "wall"}, "instance", "mark", FALSE, "",
                 <<"number">> :> "room" @@ <<"floor">> :> "floor" @@ <<"base">> :> "base" @@ <<"wall">> :> "wall")
Catalog(n) == Schema(n, "tag", {"tag", "type"}, "catalog", "mark", FALSE, "count",
                 Labels("tag", "type") @@ <<"quantity">> :> "count")
Device == Schema("device", "id", {"id", "type"}, "instance", "free", FALSE, "", Labels("id", "type"))

MCRegistry == <<Door, Finish, Catalog("window"), Catalog("plumbing"), Catalog("lighting"), Device>>

Title(n) == << <<n, "schedule">>, <<>>, <<>> >>

DoorTable(rows) ==
  << Title("door"), << <<>>, <<"door">>, <<>>, <<"frame">> >>,
     << <<"number">>, <<"material">>, <<"width">>, <<"material">> >> >> \o rows
DoorRow(marks, materials) == << marks, materials, <<"3">>, <<"HM">> >>
Doors == {DoorTable(<<DoorRow(<<"N1">>, <<"WD">>), DoorRow(<<"N2", "N3">>, <<"HM", "HM">>)>>),
          DoorTable(<<DoorRow(<<"B1">>, <<"WD">>), DoorRow(<<"N1">>, <<"AL">>), DoorRow(<<"N1">>, <<"AL">>)>>),
          DoorTable(<<DoorRow(<<"B1">>, <<"WD">>), DoorRow(<<"N1">>, <<"AL">>)>>)}

FinishTable(key, rooms) ==
  << << key, <<"floor">>, <<"base">>, <<"wall">> >> >> \o
  [i \in DOMAIN rooms |-> << <<rooms[i]>>, <<"CPT">>, <<"RB">>, <<"PT">> >>]
CatalogTable(rows) == << Title("fixture"), << <<"number">>, <<"type">>, <<"quantity">> >> >> \o rows
Rows2(a, b) == << << <<a>>, <<"sink">>, <<"2", "EA">> >>, << <<b>>, <<"lamp">>, <<>> >>, << <<b>>, <<>>, <<>> >> >>

Sheet(titles, tables, words) == [loads |-> TRUE, titles |-> titles, tables |-> tables, words |-> words]
W(t, x) == [w |-> t, at |-> x]

Schedules3 ==
  {Sheet({"door"}, <<d>>, <<>>) : d \in Doors} \cup
  {Sheet({"finish"}, <<FinishTable(k, <<"N1", "N2">>), FinishTable(<<"number">>, <<"N3", "B1">>)>>, <<>>) :
     k \in {<<"number">>, <<>>}} \cup
  {Sheet({"window", "lighting"}, <<CatalogTable(Rows2("L1", "L2"))>>, <<>>),
   Sheet({"door", "finish"}, <<FinishTable(<<"number">>, <<"N1">>), DoorTable(<<DoorRow(<<"N1">>, <<"WD">>)>>)>>, <<>>),
   Sheet({"device"}, <<CatalogTable(Rows2("N1", "X"))>>, <<>>),
   [Sheet({}, <<>>, <<>>) EXCEPT !.loads = FALSE]}

Rooms12 == Sheet({"finish"}, <<FinishTable(<<"number">>, <<"N1", "N2">>)>>, <<>>)
Plan(a, b, c, d, big) ==
  Sheet({}, <<>>, <<W("N1", a), W("120", b), W("SF", b), W(big, d), W("SF", d), W("N2", c), W("90SF", d)>>)
Plans(X) == {Plan(a, b, c, d, big) : a, b, c, d \in X, big \in {"120", "99000"}}

Lamps == Sheet({"lighting", "window"}, <<CatalogTable(Rows2("L1", "L2"))>>, <<W("L2", 0), W("L2", 5), W("L2", 9)>>)
Sinks == Sheet({"plumbing"}, <<CatalogTable(Rows2("W1", "L2"))>>, <<>>)
Tagged == {Sheet({}, <<>>, <<W("L2", 0), W("L2", x), W(t, y)>>) : x, y \in {3, 8}, t \in {"L1", "L2", "W1"}}

MCDocuments ==
  {<<p, q, r>> : p, q, r \in Schedules3} \cup
  {<<Rooms12, p, q>> : p \in Plans({0, 2, 3}), q \in {Plan(a, 3, 9, 9, "120") : a \in {2, 9}}} \cup
  {<<p, q, r>> : p \in {Lamps, Sinks}, q \in {Lamps, Sinks} \cup Tagged, r \in Tagged}

MCCounted == <<"plumbing", "lighting">>
MCNumber == [t \in {"2", "3"} |-> IF t = "2" THEN 2 ELSE 3]
MCArea == [t \in {"120", "99000"} |-> IF t = "120" THEN 120 ELSE 99000]
MCAreaWithUnit == [t \in {"90SF"} |-> 90]
=============================================================================
