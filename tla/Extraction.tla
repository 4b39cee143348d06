----------------------------- MODULE Extraction -----------------------------
(***************************************************************************)
(* build_schedule_items over one open Document, and the verification of    *)
(* its counts: the schedules pass, the area pass and the counting pass     *)
(* share the pages' memo, and a pull that fails stays failed for all three *)
(* and is written to the ledger.                                           *)
(*                                                                         *)
(* A page is a record: loads (fitz can open it), titles (the schedules     *)
(* whose signature its text carries), tables, and words, the sequence of   *)
(* its positioned words [w |-> word, at |-> position on one axis].         *)
(***************************************************************************)
EXTENDS Schedules

CONSTANTS
  Documents,        \* the drawings: sequences of pages
  SCHEDULE_REGISTRY,\* a sequence of schemas
  CountedCatalogs,  \* _COUNTED_CATALOGS
  Area,             \* the words _NUM accepts -> square feet
  AreaWithUnit,     \* the words that are a number and its unit in one -> square feet
  MaxDist, MaxSF, MinLabels, MinRooms,  \* join_areas, locate_area_plans
  MinTags, Spread,  \* _MIN_TAGS, _SPREAD_THRESHOLD of the width of a sheet
  Confidences,      \* what a verifier may answer, in hundredths
  MaxFailures       \* bound: pulls that fail in one behaviour

\* A set of drawings has a page, and a word a position.
ASSUME DocumentsAssumption ==
  \A d \in Documents :
    /\ IsSeq(d) /\ d # <<>>
    /\ \A p \in DOMAIN d :
         /\ IsSeq(d[p].words) /\ \A i \in DOMAIN d[p].words : d[p].words[i].at \in Int
         /\ IsSeq(d[p].tables)
         /\ \A t \in ToSet(d[p].tables) :
              IsSeq(t) /\ \A row \in ToSet(t) : IsSeq(row) /\ \A cell \in ToSet(row) : IsSeq(cell)
ASSUME SchemasAssumption ==
  /\ IsSeq(SCHEDULE_REGISTRY)
  /\ \A s \in ToSet(SCHEDULE_REGISTRY) :
       /\ s.shape \in {"catalog", "instance"}
       /\ s.name \in ToSet(CountedCatalogs) => s.shape = "catalog"
ASSUME CatalogsAssumption == IsSeq(CountedCatalogs) /\ CountedCatalogs # <<>>
ASSUME DistanceAssumption == MaxDist \in Nat

VARIABLES
  doc,
  memo,      \* Page._memo: <<page, op>> -> whether the pull was produced
  failures,  \* Document.failures
  pass,      \* the pass under way: "text", "tables", "words", "areas", "count", "verify", "flip"; or the end
  at,        \* the next page of the pass, or the next result to verify
  catalog,   \* the counted catalog under way
  items, roomAreas, counts

extractionVars == <<doc, memo, failures, pass, at, catalog, items, roomAreas, counts>>

PageCount == Len(doc)

-----------------------------------------------------------------------------
(***************************************************************************)
(* Page._cached and Document._safe                                         *)
(***************************************************************************)

\* The two kinds of get_text are two entries of the memo under one op.
Op(pull) == IF pull = "tables" THEN "tables" ELSE "get_text"

Failed(m) == {q \in DOMAIN m : ~m[q]}

Pull(p, pull, ok) ==
  IF <<p, pull>> \in DOMAIN memo
  THEN ok = memo[<<p, pull>>] /\ UNCHANGED <<memo, failures>>
  ELSE /\ ok \/ Cardinality(Failed(memo)) < MaxFailures
       /\ memo' = [q \in DOMAIN memo \cup {<<p, pull>>} |-> IF q = <<p, pull>> THEN ok ELSE memo[q]]
       /\ failures' = IF ok THEN failures ELSE Append(failures, [page |-> p, op |-> Op(pull)])

Got(p, pull) == <<p, pull>> \in DOMAIN memo /\ memo[<<p, pull>>]

Turn(next) == IF at < PageCount THEN pass' = pass /\ at' = at + 1 ELSE pass' = next /\ at' = 1

-----------------------------------------------------------------------------
(***************************************************************************)
(* extract_schedule_items                                                  *)
(***************************************************************************)

\* The text pass.  doc.page(i) itself is not under _safe.
ReadText ==
  /\ pass = "text"
  /\ IF doc[at].loads
     THEN (\E ok \in BOOLEAN : Pull(at, "text", ok)) /\ Turn("tables")
     ELSE pass' = "raised" /\ UNCHANGED <<at, memo, failures>>
  /\ UNCHANGED <<doc, catalog, items, roomAreas, counts>>

Matched(p) == {s \in ToSet(SCHEDULE_REGISTRY) : s.name \in doc[p].titles}

\* Mutant of Key: items are told apart by their mark alone.
KeyOfMark(item) == item.mark

Key(item) == <<item.schedule, item.mark>>

\* The items found that have a mark, and a key that neither an item kept before
\* nor one found earlier has.
Fresh(found) ==
  Chosen(found, {n \in DOMAIN found :
                   /\ found[n].mark # <<>>
                   /\ \A o \in ToSet(items) : Key(o) # Key(found[n])
                   /\ \A m \in 1..n - 1 : Key(found[m]) # Key(found[n])})

OnPage(p) ==
  FlattenSeq([i \in DOMAIN SCHEDULE_REGISTRY |->
    LET s == SCHEDULE_REGISTRY[i]
    IN  IF s \in Matched(p) THEN ParsePage(doc[p].tables, s, p) ELSE <<>>])

ReadTables ==
  /\ pass = "tables"
  /\ IF ~Got(at, "text") \/ Matched(at) = {}
     THEN UNCHANGED <<memo, failures, items>>
     ELSE \E ok \in BOOLEAN :
            /\ Pull(at, "tables", ok)
            /\ items' = IF ok THEN items \o Fresh(OnPage(at)) ELSE items
  /\ Turn("words")
  /\ UNCHANGED <<doc, catalog, roomAreas, counts>>

-----------------------------------------------------------------------------
(***************************************************************************)
(* harvest_room_areas                                                      *)
(***************************************************************************)

ReadWords ==
  /\ pass = "words"
  /\ \E ok \in BOOLEAN : Pull(at, "words", ok)
  /\ Turn("areas")
  /\ UNCHANGED <<doc, catalog, items, roomAreas, counts>>

Words(p) == IF Got(p, "words") THEN doc[p].words ELSE <<>>

KnownRooms == {Word(i.mark) : i \in {j \in ToSet(items) : j.schedule = "finish"}}

\* A number with the unit as the next word, or both in one word.
SfLabels(ws) ==
  {i \in DOMAIN ws : \/ ws[i].w \in DOMAIN Area /\ i < Len(ws) /\ ws[i + 1].w = "SF"
                     \/ ws[i].w \in DOMAIN AreaWithUnit \ DOMAIN Area}

SquareFeet(w) == IF w \in DOMAIN Area THEN Area[w] ELSE AreaWithUnit[w]

RoomTokens(ws) == {i \in DOMAIN ws : ws[i].w \in KnownRooms}

IsAreaPlan(ws) ==
  Cardinality(SfLabels(ws)) >= MinLabels /\ Cardinality(RoomTokens(ws)) >= MinRooms

Dist(ws, i, j) == IF ws[i].at > ws[j].at THEN ws[i].at - ws[j].at ELSE ws[j].at - ws[i].at

\* Of the candidates C, the one nearest to i; the first of equals.
Nearest(ws, C, i) ==
  CHOOSE r \in C : \A q \in C : Dist(ws, i, r) < Dist(ws, i, q)
                                \/ (Dist(ws, i, r) = Dist(ws, i, q) /\ r <= q)

\* Mutant of Bindings: each room takes the label nearest to it.
BindingsOfRooms(ws) ==
  LET InReach(r) == {l \in SfLabels(ws) : SquareFeet(ws[l].w) <= MaxSF /\ Dist(ws, l, r) <= MaxDist}
  IN  {<<Nearest(ws, InReach(r), r), r>> : r \in {q \in RoomTokens(ws) : InReach(q) # {}}}

\* Each label binds to its nearest room, as <<label, room token>>.
Bindings(ws) ==
  LET InReach(l) == {r \in RoomTokens(ws) : Dist(ws, l, r) <= MaxDist}
      eligible   == {l \in SfLabels(ws) : SquareFeet(ws[l].w) <= MaxSF /\ InReach(l) # {}}
  IN  {<<l, Nearest(ws, InReach(l), l)>> : l \in eligible}

\* The closest binding of each room; pairs are sorted by distance, stably.
JoinAreas(ws, p) ==
  LET Closer(a, b) == Dist(ws, a[1], a[2]) < Dist(ws, b[1], b[2])
                      \/ (Dist(ws, a[1], a[2]) = Dist(ws, b[1], b[2]) /\ a[1] <= b[1])
      won == {b \in Bindings(ws) :
                \A o \in Bindings(ws) : ws[o[2]].w = ws[b[2]].w => Closer(b, o)}
  IN  {[room |-> ws[b[2]].w, sf |-> SquareFeet(ws[b[1]].w), page |-> p] : b \in won}

Harvest ==
  /\ pass = "areas"
  /\ LET ws == Words(at)
         new == IF IsAreaPlan(ws) THEN JoinAreas(ws, at) ELSE {}
     IN  roomAreas' = roomAreas \cup {a \in new : \A o \in roomAreas : o.room # a.room}
  /\ Turn("count")
  /\ UNCHANGED <<doc, memo, failures, catalog, items, counts>>

-----------------------------------------------------------------------------
(***************************************************************************)
(* count_fixtures and extract_counts                                       *)
(***************************************************************************)

Cataloged == {i \in ToSet(items) : i.schedule = CountedCatalogs[catalog]}
Tags == {Word(i.mark) : i \in Cataloged}
SchedulePages == {i.page : i \in Cataloged}

TagTokens(ws) == {i \in DOMAIN ws : ws[i].w \in Tags}

IsInstancePlan(ws) ==
  LET xs == {ws[i].at : i \in TagTokens(ws)}
  IN  /\ Cardinality(TagTokens(ws)) >= MinTags
      /\ MaxOf(xs) - MinOf(xs) >= Spread

CountsOn(p) ==
  LET ws == Words(p)
      Count(t) == [symbol |-> t, page |-> p, count |-> Cardinality({i \in DOMAIN ws : ws[i].w = t}),
                   confidence |-> 70, verified |-> FALSE]
  IN  IF p \notin SchedulePages /\ IsInstancePlan(ws)
      THEN {Count(ws[i].w) : i \in TagTokens(ws)} ELSE {}

CountPage ==
  /\ pass = "count"
  /\ counts' = counts \o SetToSeq(CountsOn(at))
  /\ IF at < PageCount \/ catalog = Len(CountedCatalogs)
     THEN Turn(IF counts' = <<>> THEN "flip" ELSE "verify") /\ UNCHANGED catalog
     ELSE catalog' = catalog + 1 /\ at' = 1 /\ UNCHANGED pass
  /\ UNCHANGED <<doc, memo, failures, items, roomAreas>>

-----------------------------------------------------------------------------
(***************************************************************************)
(* verify_counts, reconcile and flip_fixture_items                         *)
(***************************************************************************)

Lower(a, b) == IF a < b THEN a ELSE b
Higher(a, b) == IF a < b THEN b ELSE a

Merge(result, agrees, conf) ==
  [result EXCEPT !.verified = TRUE,
                 !.confidence = IF agrees THEN Higher(@, conf) ELSE Lower(@, conf) \div 2]

\* The client raises, and the result stays as it was; or it answers.  An
\* answer whose count is not an integer does not agree.
Verify ==
  /\ pass = "verify"
  /\ \/ counts' = counts
     \/ \E agrees \in BOOLEAN, conf \in Confidences :
          counts' = [counts EXCEPT ![at] = Merge(@, agrees, conf)]
  /\ IF at < Len(counts) THEN at' = at + 1 /\ UNCHANGED pass ELSE at' = 1 /\ pass' = "flip"
  /\ UNCHANGED <<doc, memo, failures, catalog, items, roomAreas>>

\* Rendering the sheet, and an answer that is no object or whose confidence is no
\* number, raise out of verify_counts.
VerifyRaises ==
  /\ pass = "verify"
  /\ pass' = "aborted"
  /\ UNCHANGED <<doc, memo, failures, at, catalog, items, roomAreas, counts>>

ResultsOf(symbol) == {c \in ToSet(counts) : c.symbol = symbol}

\* Mutant of AllVerified: one answered sheet is enough.
SomeVerified(results) == \E c \in results : c.verified

AllVerified(results) == \A c \in results : c.verified

Flip(item) ==
  LET results == IF Len(item.mark) = 1 THEN ResultsOf(Word(item.mark)) ELSE {}
  IN  IF item.basis = "unknown_plan_count" /\ results # {} /\ AllVerified(results)
      THEN [item EXCEPT !.quantity = MaxOf({c.count : c \in results}), !.basis = "plan_count"]
      ELSE item

FlipItems ==
  /\ pass = "flip"
  /\ items' = [i \in DOMAIN items |-> Flip(items[i])]
  /\ pass' = "done"
  /\ UNCHANGED <<doc, memo, failures, at, catalog, roomAreas, counts>>

-----------------------------------------------------------------------------
ExtractionInit ==
  /\ doc \in Documents
  /\ memo = <<>> /\ failures = <<>>
  /\ pass = "text" /\ at = 1 /\ catalog = 1
  /\ items = <<>> /\ roomAreas = {} /\ counts = <<>>

Ended == pass \in {"done", "raised", "aborted"} /\ UNCHANGED extractionVars

ExtractionNext ==
  \/ ReadText \/ ReadTables \/ ReadWords \/ Harvest \/ CountPage \/ Verify \/ VerifyRaises
  \/ FlipItems \/ Ended

ExtractionSpec == ExtractionInit /\ [][ExtractionNext]_extractionVars

-----------------------------------------------------------------------------
(***************************************************************************)
(* Properties                                                              *)
(***************************************************************************)

Listed(p) == UNION {ToSet(ParsePage(doc[p].tables, s, p)) : s \in Matched(p)}

InLedger(p) == \E f \in ToSet(failures) : f.page = p

Same(i, j) == i.schedule = j.schedule /\ i.mark = j.mark

\* One item for each schedule and mark, from the first page that lists it and
\* could be read; and what is missing is missing on a page of the ledger,
\* which names every failed pull once however many passes asked for it
\* (extract_schedule_items, Page._cached, Document._safe).
ItemsAreWhole ==
  /\ pass = "done" =>
       /\ \A i, j \in DOMAIN items : i # j => ~Same(items[i], items[j])
       /\ \A p \in DOMAIN doc : \A l \in Listed(p) :
            \/ l.mark = <<>> \/ InLedger(p)
            \/ \E i \in ToSet(items) : Same(i, l) /\ i.page <= p
       /\ \A i \in ToSet(items) : \E l \in Listed(i.page) : Same(i, l)
  /\ \A p \in DOMAIN doc :
       Cardinality({k \in DOMAIN failures : failures[k].page = p})
         = Cardinality({q \in DOMAIN memo : q[1] = p /\ ~memo[q]})

\* The labels of a plan that may give an area; that a label has no token nearer
\* than r, and that those as near are all of one room.
Eligible(ws) == {l \in SfLabels(ws) : SquareFeet(ws[l].w) <= MaxSF}
Owns(ws, l, r) == /\ Dist(ws, l, r) <= MaxDist
                  /\ \A q \in RoomTokens(ws) : Dist(ws, l, r) <= Dist(ws, l, q)
Only(ws, l, r) == /\ Owns(ws, l, r)
                  /\ \A q \in RoomTokens(ws) : Owns(ws, l, q) => ws[q].w = ws[r].w

\* An area joins a room of the finish schedule and a label that are near: the
\* label has no nearer room, and no label closer to the room is its own.  A
\* room has one area, and a label of a plan that has a room in reach gives
\* its nearest room one (join_areas, harvest_room_areas).
AreasAreMutual ==
  /\ \A a \in roomAreas :
       /\ \A o \in roomAreas : o.room = a.room => o = a
       /\ LET ws == doc[a.page].words
          IN  \E l \in Eligible(ws), r \in RoomTokens(ws) :
                /\ ws[r].w = a.room /\ SquareFeet(ws[l].w) = a.sf /\ Owns(ws, l, r)
                /\ \A m \in Eligible(ws), q \in RoomTokens(ws) :
                     ws[q].w = a.room /\ Only(ws, m, q) => Dist(ws, l, r) <= Dist(ws, m, q)
  /\ pass \in {"count", "verify", "flip", "done"} =>
       \A p \in {q \in DOMAIN doc : Got(q, "words") /\ IsAreaPlan(doc[q].words)} :
         LET ws == doc[p].words
         IN  \A l \in Eligible(ws), r \in RoomTokens(ws) :
               Only(ws, l, r) => \E a \in roomAreas : a.room = ws[r].w /\ a.page <= p

\* A quantity that was to be counted is the largest count of its symbol on a
\* sheet that is not its schedule, and only when the verifier answered for
\* every sheet it was counted on; every other quantity is the schedule's
\* (extract_counts, merge, reconcile, flip_fixture_items).
QuantitiesAreCounted ==
  /\ pass = "done" => \A c \in ToSet(counts) :
       /\ c.count = Cardinality({i \in DOMAIN doc[c.page].words : doc[c.page].words[i].w = c.symbol})
       /\ c.count > 0
       /\ \E k \in ToSet(CountedCatalogs) :
            /\ \E i \in ToSet(items) : i.schedule = k /\ i.mark = <<c.symbol>>
            /\ \A i \in ToSet(items) : i.schedule = k => i.page # c.page
  /\ pass = "done" => \A i \in ToSet(items) :
       LET sheets == {c \in ToSet(counts) : i.mark = <<c.symbol>>}
       IN  \/ /\ i.basis = "plan_count"
              /\ sheets # {} /\ \A c \in sheets : c.verified /\ c.count <= i.quantity
              /\ \E c \in sheets : c.count = i.quantity
           \/ /\ i \in Listed(i.page)
              /\ i.basis = "unknown_plan_count" => sheets = {} \/ \E c \in sheets : ~c.verified
=============================================================================
