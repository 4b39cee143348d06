----------------------------- MODULE Schedules -----------------------------
(***************************************************************************)
(* Reading a schedule: resolve_columns names the columns of a table by its *)
(* header, a row selector picks the data rows, and each row becomes a      *)
(* ScheduleItem with a quantity and the basis of it.                       *)
(*                                                                         *)
(* A table is a sequence of rows, a row a sequence of cells, a cell the    *)
(* sequence of its words (<<>> when it is empty).  A schema is a record:   *)
(*   name, key, core (a set of fields), shape, grammar, merges, qty;       *)
(*   match: label -> field, what _match answers for the labels it knows;   *)
(*   groups, ambiguous: sets of labels;  marks: its built-in marks.        *)
(***************************************************************************)
EXTENDS Integers, SequencesExt

CONSTANTS
  MarkLike,    \* the words _looks_like_mark accepts
  TagLike,     \* the words _looks_like_tag accepts
  Number,      \* word -> the number _num reads in it
  MinBuiltin,  \* _MIN_BUILTIN_MARKS
  MinCols      \* min_cols of parse_page

Unknown == -1  \* the quantity None

IsSeq(s) == s \in Seq(ToSet(s))

Word(cell) == cell[1]
IsWordOf(cell, words) == Len(cell) = 1 /\ Word(cell) \in words
CellAt(row, c) == IF c \in DOMAIN row THEN row[c] ELSE <<>>
Filled(row) == {c \in DOMAIN row : row[c] # <<>>}
MaxOf(S) == CHOOSE m \in S : \A n \in S : n <= m
MinOf(S) == CHOOSE m \in S : \A n \in S : m <= n

\* The entries of s at the positions P, in order.
Chosen(s, P) == FlattenSeq([i \in DOMAIN s |-> IF i \in P THEN <<s[i]>> ELSE <<>>])

-----------------------------------------------------------------------------
(***************************************************************************)
(* resolve_columns                                                         *)
(***************************************************************************)

IsTitle(row) ==
  \/ Cardinality(Filled(row)) <= 1
  \/ \A c \in Filled(row) : "schedule" \in ToSet(row[c])

IsHeader(row, s) ==
  Cardinality({c \in DOMAIN row : row[c] \in DOMAIN s.match \cup s.groups \cup s.ambiguous}) >= 2

\* Titles are skipped; the band ends at the first row that is not a header.
DataStart(table, s) ==
  LET Data(row) == ~IsTitle(row) /\ ~IsHeader(row, s)
  IN  MinOf({i \in DOMAIN table : Data(table[i])} \cup {Len(table) + 1})

Band(table, s) == {r \in 1..DataStart(table, s) - 1 : ~IsTitle(table[r])}

\* The lowest label of the band names the column, with the nearest group on
\* its left above it when the label alone says nothing.
NearestGroup(table, above, s, c) ==
  LET At(q) == {k \in 1..c : CellAt(table[q], k) \in s.groups}
      with  == {q \in above : At(q) # {}}
  IN  IF with = {} THEN <<>> ELSE table[MinOf(with)][MaxOf(At(MinOf(with)))]

LabelOf(table, band, s, c) ==
  LET named == {r \in band : CellAt(table[r], c) # <<>>}
      low   == MaxOf(named)
  IN  IF named = {} THEN <<>>
      ELSE IF table[low][c] \in s.ambiguous
           THEN NearestGroup(table, {q \in band : q < low}, s, c) \o table[low][c]
           ELSE table[low][c]

\* field -> column: the first column to claim a field wins.
ByField(table, s) ==
  LET band    == Band(table, s)
      columns == 1..MaxOf({Len(table[r]) : r \in DOMAIN table})
      claims  == {<<c, s.match[LabelOf(table, band, s, c)]>> :
                    c \in {d \in columns : LabelOf(table, band, s, d) \in DOMAIN s.match}}
  IN  [f \in {cl[2] : cl \in claims} |-> MinOf({cl[1] : cl \in {x \in claims : x[2] = f}})]

Resolves(by, s) == 100 * Cardinality(s.core \cap DOMAIN by) >= 75 * Cardinality(s.core)

-----------------------------------------------------------------------------
(***************************************************************************)
(* select_rows                                                             *)
(***************************************************************************)

CatalogRows(table, k) ==
  LET typed == {i \in DOMAIN table : /\ IsWordOf(CellAt(table[i], k), TagLike)
                                    /\ Cardinality(Filled(table[i])) >= 2}
  IN  Chosen(table, {i \in typed : \A j \in typed : j < i => table[j][k] # table[i][k]})

FreeRows(table, s, k) ==
  Chosen(table, {i \in DOMAIN table : i >= DataStart(table, s) /\ CellAt(table[i], k) # <<>>})

\* _expand_merged: a row of n marks is n rows; a column whose words do not
\* divide among them goes to the first.
Expand(row, k) ==
  LET n == Len(row[k])
      Share(cell, j) ==
        LET w == Len(cell) \div n
        IN  IF Len(cell) % n = 0 THEN SubSeq(cell, (j - 1) * w + 1, j * w)
            ELSE IF j = 1 THEN cell ELSE <<>>
  IN  [j \in 1..n |-> [c \in DOMAIN row |-> Share(row[c], j)]]

MarkRows(table, k, words, merges) ==
  LET Of(row) ==
        LET cell == CellAt(row, k)
        IN  IF merges /\ Len(cell) >= 2 /\ ToSet(cell) \subseteq words THEN Expand(row, k)
            ELSE IF IsWordOf(cell, words) THEN <<row>> ELSE <<>>
  IN  FlattenSeq([i \in DOMAIN table |-> Of(table[i])])

\* The built-in marks when they clearly apply, else whatever looks like one.
MarkRowsAuto(table, k, s) ==
  LET builtin == MarkRows(table, k, s.marks, s.merges)
  IN  IF Len(builtin) >= MinBuiltin THEN builtin ELSE MarkRows(table, k, MarkLike, s.merges)

SelectRows(table, by, s) ==
  LET k == IF s.key \in DOMAIN by THEN by[s.key] ELSE 1
  IN  CASE s.shape = "catalog" -> CatalogRows(table, k)
        [] s.shape = "instance" /\ s.grammar = "free" -> FreeRows(table, s, k)
        [] OTHER -> MarkRowsAuto(table, k, s)

-----------------------------------------------------------------------------
(***************************************************************************)
(* build_item and parse_page                                               *)
(***************************************************************************)

Quantity(s, attrs) ==
  LET numbers == IF s.qty \in DOMAIN attrs
                 THEN {i \in DOMAIN attrs[s.qty] : attrs[s.qty][i] \in DOMAIN Number} ELSE {}
  IN  IF numbers # {} THEN <<Number[attrs[s.qty][MinOf(numbers)]], "qty_column">>
      ELSE IF s.shape = "instance" THEN <<1, "row_count">>
      ELSE <<Unknown, "unknown_plan_count">>

BuildItem(row, by, s, page) ==
  LET attrs == [f \in {g \in DOMAIN by : by[g] \in DOMAIN row} |-> row[by[f]]]
      qty == Quantity(s, attrs)
  IN  [schedule |-> s.name, page |-> page, quantity |-> qty[1], basis |-> qty[2],
       mark |-> IF s.key \in DOMAIN attrs THEN attrs[s.key] ELSE <<>>]

ParsePage(tables, s, page) ==
  LET Of(t) ==
        LET by   == ByField(t, s)
            rows == SelectRows(t, by, s)
        IN  IF t # <<>> /\ Len(t[1]) >= MinCols /\ Resolves(by, s)
            THEN [i \in DOMAIN rows |-> BuildItem(rows[i], by, s, page)] ELSE <<>>
  IN  FlattenSeq([i \in DOMAIN tables |-> Of(tables[i])])
=============================================================================
