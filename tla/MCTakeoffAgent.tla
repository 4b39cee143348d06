--------------------------- MODULE MCTakeoffAgent ---------------------------
(***************************************************************************)
(* TakeoffAgent for TLC: reports with up to two catalog types and a room,  *)
(* counts of one symbol on up to two sheets, and an area of that room or   *)
(* of one that no schedule lists, two rows a page.                         *)
(***************************************************************************)
EXTENDS TakeoffAgent

Item(s, m)   == [schedule |-> s, shape |-> IF s = "finish" THEN "room" ELSE "catalog", mark |-> m]
Found(m, p)  == [symbol_id |-> m, sheet_page |-> p, count |-> p, verified |-> p = 1]
Area(m)      == [room_number |-> m]

MCNoReport == [summary |-> "none", items |-> <<>>, fixture_counts |-> <<>>, room_areas |-> <<>>]

MCReports ==
  [summary : {"rollup"},
   items : {<<Item("plumbing", "P1"), Item("finish", "R1")>>,
            <<Item("plumbing", "P1"), Item("plumbing", "P2"), Item("finish", "R1")>>},
   fixture_counts : {<<>>, <<Found("P1", 2)>>, <<Found("P1", 1), Found("P1", 2)>>},
   room_areas : {<<>>, <<Area("R1")>>, <<Area("R2")>>}]

MCReferences == [schedule : {"", "finish"}, mark : {"", "R1"}]
=============================================================================
