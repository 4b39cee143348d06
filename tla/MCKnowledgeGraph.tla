-------------------------- MODULE MCKnowledgeGraph --------------------------
(***************************************************************************)
(* KnowledgeGraph for TLC.  Either the package varies, over one or two     *)
(* files of up to five pages together, and the project is fixed, or the     *)
(* package is plain and the project varies.                                *)
(***************************************************************************)
EXTENDS KnowledgeGraph

Page(l, a, s) == [large |-> l, anchored |-> a, signs |-> s]

Text       == Page(FALSE, TRUE, <<>>)
Cover      == Page(FALSE, FALSE, <<>>)
TocSheet   == Page(FALSE, TRUE, "spec_toc" :> 100)
Sheet      == Page(TRUE, FALSE, <<>>)
DoorSheet  == Page(TRUE, FALSE, "door_schedule" :> 75)
GoodDoors  == Page(TRUE, FALSE, "door_schedule" :> 100)
DoorNote   == Page(TRUE, FALSE, "door_schedule" :> 0)
AbbrSheet  == Page(TRUE, FALSE, "abbreviations" :> 30)
FullSheet  == Page(TRUE, FALSE, [n \in {"drawing_index", "door_schedule", "finish_schedule", "abbreviations"} |-> 80])

Kinds == {Cover, TocSheet, DoorSheet, GoodDoors, AbbrSheet}

Varied == {<<s>> : s \in [1..4 -> Kinds] \cup [1..5 -> Kinds \ {AbbrSheet}]} \cup
          {<<s, t>> : s \in [1..2 -> Kinds], t \in [1..2 -> Kinds]}

Plain == {<<<<FullSheet>>, <<TocSheet, Text>>>>, <<<<Sheet, DoorNote, FullSheet, TocSheet>>>>,
          <<<<FullSheet, AbbrSheet>>, <<Text>>>>}

Row(m, r, d, f, h) == [mark |-> m, room |-> r, door |-> d, frame |-> f, hardware |-> h, glazing |-> h]

Rows == {Row("D1", "R1", "HM", "HM", TRUE), Row("D1", "R1", "FRP", "AL", FALSE),
         Row("D2", "R2", "AL & G", "", TRUE), Row("D2", "R1", "WD", "(E)", FALSE)}

Project(toc, ds, match, body, refs) ==
  [toc |-> toc, doors |-> ds, match |-> match, body |-> body, refs |-> refs,
   rooms |-> <<[room |-> "R1", finishes |-> {"CPT", "X"}], [room |-> "R1", finishes |-> {"CPT"}]>>,
   sheets |-> {"A9.3.1", "AF2.4"}, abbrev |-> {"HM", "AL"}, applied |-> {"CPT"}]

Matches == [{"HM", "WD", "AL", "AL & G", "CPT"} -> {"081113", "096813"}]

MCPlainProject == Project({"081113"}, <<Row("D1", "R1", "HM", "HM", TRUE)>>,
                          [c \in {"HM", "WD", "AL", "AL & G", "CPT"} |-> "081113"], {"081113", "087100"}, {})

Doors2 == {<<>>} \cup {<<r>> : r \in Rows}
                  \cup {<<r, q>> : r \in {x \in Rows : x.mark = "D1"}, q \in Rows}
Whole  == {"081113", "087100"}

\* A manual without a trace section ends the build before the doors.
Manuals == {<<b, r, ds>> \in {Whole, {"081113"}} \X {{}, {<<"081113", "087100">>}} \X Doors2 :
              b = Whole \/ (r = {} /\ ds = <<>>)}

Tocs == {{"087100", "084113"}, {"081113", "084113", "087100", "096813"}}

\* Two doors are listed by a manual that has the sections of both.
Projects ==
  {Project(t[1], t[2][3], match, t[2][1], t[2][2]) :
     t \in {u \in Tocs \X Manuals : Len(u[2][3]) = 2 => "096813" \in u[1]},
     match \in {m \in Matches : m["WD"] = m["AL"] /\ m["AL & G"] = m["AL"] /\ m["HM"] = "081113"}}

MCPackages == Varied \cup Plain
MCInputs == (Varied \X {MCPlainProject}) \cup (Plain \X Projects)

MCMaterials == [c \in {"HM", "WD", "AL", "AL & G"} |->
                  CASE c = "HM" -> "081113" [] c = "WD" -> "081416" [] OTHER -> "084113"]
MCFinishes == [c \in {"CPT"} |-> "096813"]
MCBase     == [c \in {"HM", "WD", "AL", "AL & G"} |-> IF c = "AL & G" THEN "AL" ELSE c]
MCDivision == [s \in {"081113", "081416", "084113", "087100", "088000", "096813"} |->
                 IF s = "096813" THEN "09" ELSE "08"]
=============================================================================
