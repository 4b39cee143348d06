--------------------------- MODULE KnowledgeGraph ---------------------------
(***************************************************************************)
(* build_graph over the document map, and the report on its result.        *)
(*                                                                         *)
(* The parsers are external: what they return for the page an artifact is  *)
(* on is the `project`; for another page it is nothing, or an exception.   *)
(* Sections, sheets, rooms, marks and codes are model values.  The lexical *)
(* matcher is its result, the model behind section_llm any answer.         *)
(***************************************************************************)
EXTENDS DocumentMap

CONSTANTS
  Inputs,           \* pairs of a package and the project in it
  MATERIAL_SECTION, \* material code -> section, the hand-authored seed
  FINISH_SECTION,   \* finish prefix -> section
  Base,             \* material code -> its first word
  Division,         \* section -> division
  TraceSections,    \* _TRACE_SECTIONS
  HardwareSection, GlazingSection,
  DoorSheets, RoomSheets, \* the sheets a door and a room appear on
  SectionLLM        \* whether build_graph is given an llm

\* The schedules have rows in an order.
ASSUME InputsAssumption ==
  \A in \in Inputs : /\ in[2].rooms \in Seq(ToSet(in[2].rooms))
                     /\ in[2].doors \in Seq(ToSet(in[2].doors))

\* No code is in both tables.
ASSUME TablesAssumption == DOMAIN MATERIAL_SECTION \cap DOMAIN FINISH_SECTION = {}

VARIABLES
  project,
  building,  \* "idle", "link", "trace", "doors", "rooms", "refs", "built", "reported", "raised"
  available, \* the artifacts whose page had what its parser reads
  links,     \* material_links and finish_links: code -> SectionLink
  done,      \* rows of the phase that are in the graph
  nodes,     \* id -> [type, carried, unresolved]
  edges,     \* <<source, relationship, target>>: the keys of the MultiDiGraph
  report

graphVars == <<project, building, available, links, done, nodes, edges, report>>
vars      == <<mapVars, graphVars>>

NoSection == "none"
NoReport  == <<>>

Node(type) == [type |-> type, carried |-> {}, unresolved |-> {}]
Untyped    == Node("untyped")

Sid(s) == <<"section", s>>

\* The graph with a node for each id that has none yet.
WithNodes(graph, ids, node) ==
  [n \in DOMAIN graph \cup ids |-> IF n \in DOMAIN graph THEN graph[n] ELSE node]

-----------------------------------------------------------------------------
(***************************************************************************)
(* What is read: a page number of the map, in the file of the caller       *)
(***************************************************************************)

\* One file is both; of several the first holds the drawings, the last the manual.
DrawingsFile == 1

Exists(name) == FirstPage(name) \in DOMAIN package[DrawingsFile]
HasIt(name)  ==
  LET signs == package[DrawingsFile][FirstPage(name)].signs
  IN  name \in DOMAIN signs /\ signs[name] > 0

Drawn == {n \in DOMAIN ARTIFACT_REGION : ARTIFACT_REGION[n] = "drawings"}

Unreadable ==
  \E n \in Drawn : Located(n) /\ (~Exists(n) \/ (n = "door_schedule" /\ ~HasIt(n)))

Readable == {n \in Drawn : Located(n) /\ Exists(n) /\ HasIt(n)}

\* parse_spec_toc scans on from the located page.
TocPage(i) == LET signs == package[Len(package)][i].signs
              IN  "spec_toc" \in DOMAIN signs /\ signs["spec_toc"] > 0
TocFrom    == IF Located("spec_toc") THEN FirstPage("spec_toc") ELSE 1
TocIsRead  == \E i \in DOMAIN package[Len(package)] : i >= TocFrom /\ TocPage(i)

Toc     == {n[2] : n \in {m \in DOMAIN nodes : m[1] = "section" /\ nodes[m].type = "spec_section"}}
Doors   == IF "door_schedule" \in available THEN project.doors ELSE <<>>
Rooms   == IF "finish_schedule" \in available THEN project.rooms ELSE <<>>
Sheets  == IF "drawing_index" \in available THEN project.sheets ELSE {}
Abbrev  == IF "abbreviations" \in available THEN project.abbrev ELSE {}
Applied == IF "finish_schedule" \in available THEN project.applied ELSE {}

-----------------------------------------------------------------------------
(***************************************************************************)
(* section_resolver and section_llm                                        *)
(***************************************************************************)

Codes      == DOMAIN MATERIAL_SECTION \cup DOMAIN FINISH_SECTION
Material   == DOMAIN MATERIAL_SECTION
Seed(c)    == IF c \in Material THEN MATERIAL_SECTION[c] ELSE FINISH_SECTION[c]
Candidates(c) == {s \in Toc : c \in Material => Division[s] = "08"}

\* expansion: a code without a description matches nothing.
Described(c) == (IF c \in Material THEN Base[c] ELSE c) \in Abbrev \cup Applied

\* match_section: the title with the best score, when it is good enough.
Lexical(c) == IF Described(c) /\ project.match[c] \in Candidates(c)
              THEN project.match[c] ELSE NoSection

\* external: an error, an answer that is no candidate, or one of the sections;
\* LinkRaises has the answer that is not even of the form.
Replies(c) == {"error", "invented"} \cup Candidates(c)

\* LLMSectionMatcher.resolve: what is no candidate is no answer.
Resolved(c, reply) == IF reply \in Candidates(c) THEN reply ELSE NoSection

LinkTrusting(c, got, method) ==
  [section |-> IF got = NoSection THEN Seed(c) ELSE got, method |-> method, disputed |-> FALSE]

\* build_section_map: derivation first, the seed wherever it disagrees.
LinkOf(c, got, method) ==
  IF got = Seed(c) THEN [section |-> got, method |-> method, disputed |-> FALSE]
  ELSE [section |-> Seed(c), method |-> "override", disputed |-> got # NoSection]

\* The codes are linked in some order.
NextCode == CHOOSE c \in Codes \ DOMAIN links : TRUE

Link ==
  /\ building = "link" /\ DOMAIN links # Codes
  /\ LET c == NextCode
     IN  \/ Lexical(c) # NoSection /\ links' = Put(links, c, LinkOf(c, Lexical(c), "derived_lexical"))
         \/ Lexical(c) = NoSection /\ ~SectionLLM /\ links' = Put(links, c, LinkOf(c, NoSection, "none"))
         \/ /\ Lexical(c) = NoSection /\ SectionLLM
            /\ \E reply \in Replies(c) :
                 links' = Put(links, c, LinkOf(c, Resolved(c, reply), "derived_llm"))
  /\ building' = IF DOMAIN links' = Codes THEN "trace" ELSE "link"
  /\ UNCHANGED <<mapVars, project, available, done, nodes, edges, report>>

\* An answer without `get`, or with words for a confidence, is read outside the try.
LinkRaises ==
  /\ building = "link" /\ DOMAIN links # Codes
  /\ Lexical(NextCode) = NoSection /\ SectionLLM
  /\ building' = "raised"
  /\ UNCHANGED <<mapVars, project, available, links, done, nodes, edges, report>>

-----------------------------------------------------------------------------
GraphInit ==
  /\ building = "idle"
  /\ available = {}
  /\ links = <<>>
  /\ done = 0
  /\ nodes = <<>> /\ edges = {}
  /\ report = NoReport

\* The parsers run first; the sections of the TOC are the first nodes.
Parse ==
  /\ building = "idle" /\ mapping = "mapped"
  /\ building' = IF Unreadable THEN "raised" ELSE "link"
  /\ available' = IF Unreadable THEN {} ELSE Readable
  /\ nodes' = IF ~Unreadable /\ TocIsRead
              THEN [n \in {Sid(s) : s \in project.toc} |-> Node("spec_section")] ELSE <<>>
  /\ UNCHANGED <<mapVars, project, links, done, edges, report>>

\* The trace sections are looked up in the manual; then the nodes that stand alone.
Trace ==
  /\ building = "trace"
  /\ building' = IF TraceSections \subseteq project.body THEN "doors" ELSE "raised"
  /\ LET Abbrs == {<<"abbr", Base[c]>> : c \in {m \in Material : Base[m] \in Abbrev}}
         Rs    == {<<"room", Rooms[i].room>> : i \in DOMAIN Rooms}
     IN  nodes' = IF TraceSections \subseteq project.body
                  THEN LET withSheets == WithNodes(nodes, {<<"sheet", s>> : s \in Sheets}, Node("sheet"))
                           withAbbrs  == WithNodes(withSheets, Abbrs, Node("abbreviation"))
                       IN  WithNodes(withAbbrs, Rs, Node("room"))
                  ELSE nodes
  /\ UNCHANGED <<mapVars, project, available, links, done, edges, report>>

Linked(c) == c \in DOMAIN links /\ Sid(links[c].section) \in DOMAIN nodes

\* link_material
MaterialEdges(id, m, rel) ==
  IF m \in Material /\ Linked(m)
  THEN {<<id, rel, Sid(links[m].section)>>} \cup
       {<<id, "HAS_MATERIAL", a>> : a \in {<<"abbr", Base[m]>>} \cap DOMAIN nodes}
  ELSE {}

Existing == {"", "(E)"}
UnlinkedCodes(ms) == {m \in ms \ Existing : m \notin Material}

Unlinked(ms) == {m \in ms \ Existing : ~(m \in Material /\ Linked(m))}

SpecEdge(id, has, rel, s) == IF has /\ Sid(s) \in DOMAIN nodes THEN {<<id, rel, Sid(s)>>} ELSE {}

SheetEdges(id, ss) == {<<id, "APPEARS_ON", n>> : n \in {<<"sheet", s>> : s \in ss} \cap DOMAIN nodes}

AddDoor ==
  /\ building = "doors" /\ done < Len(Doors)
  /\ LET d    == Doors[done + 1]
         id   == <<"door", d.mark>>
         room == <<"room", d.room>>
         node == [type |-> "door", carried |-> {d.door, d.frame} \ Existing,
                  unresolved |-> Unlinked({d.door, d.frame}),
                  hardware |-> d.hardware, frame |-> d.frame # ""]
     IN  /\ nodes' = WithNodes(Put(nodes, id, node), {room}, Node("room"))
         /\ edges' = edges \cup MaterialEdges(id, d.door, "DOOR_SPECIFIED_IN")
                           \cup MaterialEdges(id, d.frame, "FRAME_SPECIFIED_IN")
                           \cup SpecEdge(id, d.hardware, "HARDWARE_SPECIFIED_IN", HardwareSection)
                           \cup SpecEdge(id, d.glazing, "GLAZING_SPECIFIED_IN", GlazingSection)
                           \cup {<<id, "LOCATED_IN", room>>} \cup SheetEdges(id, DoorSheets)
  /\ done' = done + 1
  /\ UNCHANGED <<mapVars, project, building, available, links, report>>

DoorsDone ==
  /\ building = "doors" /\ done = Len(Doors)
  /\ building' = "rooms" /\ done' = 0
  /\ UNCHANGED <<mapVars, project, available, links, nodes, edges, report>>

\* A second row of a room overwrites the codes of the first, unless it has none.
AddFinishes ==
  /\ building = "rooms" /\ done < Len(Rooms)
  /\ LET r  == Rooms[done + 1]
         id == <<"room", r.room>>
         In == {p \in r.finishes : p \in DOMAIN FINISH_SECTION /\ Linked(p)}
     IN  /\ edges' = edges \cup {<<id, "FINISH_SPECIFIED_IN", Sid(links[p].section)>> : p \in In}
                           \cup SheetEdges(id, RoomSheets)
         /\ nodes' = [nodes EXCEPT ![id].carried = r.finishes,
                                   ![id].unresolved = IF r.finishes \ In = {} THEN @ ELSE r.finishes \ In]
  /\ done' = done + 1
  /\ UNCHANGED <<mapVars, project, building, available, links, report>>

RoomsDone ==
  /\ building = "rooms" /\ done = Len(Rooms)
  /\ building' = "refs" /\ done' = 0
  /\ UNCHANGED <<mapVars, project, available, links, nodes, edges, report>>

\* The source of a reference is not looked up: add_edge makes it a bare node.
AddReferences ==
  /\ building = "refs"
  /\ LET Refs == {<<Sid(st[1]), "REFERENCES", Sid(st[2])>> : st \in
                   {r \in project.refs : r[1] \in TraceSections /\ Sid(r[2]) \in DOMAIN nodes}}
     IN  /\ edges' = edges \cup Refs
         /\ nodes' = WithNodes(nodes, {e[1] : e \in Refs}, Untyped)
  /\ building' = "built"
  /\ UNCHANGED <<mapVars, project, available, links, done, report>>

-----------------------------------------------------------------------------
(***************************************************************************)
(* build_report: the gates of phase 5 and the queries of KnowledgeGraph    *)
(***************************************************************************)

OfType(t)    == {n \in DOMAIN nodes : nodes[n].type = t}
Touching(n)  == {e \in edges : n \in {e[1], e[3]}}
Via(n, rels) == \E e \in edges : e[1] = n /\ e[2] \in rels

DoorRels == {"DOOR_SPECIFIED_IN", "FRAME_SPECIFIED_IN", "HARDWARE_SPECIFIED_IN", "GLAZING_SPECIFIED_IN"}
RoomRels == {"FINISH_SPECIFIED_IN"}

\* _rate >= 0.9, and 0 of nothing
MostlyResolved(t, rels) ==
  /\ OfType(t) # {}
  /\ 10 * Cardinality({n \in OfType(t) : Via(n, rels)}) >= 9 * Cardinality(OfType(t))

\* A domain rule asks nine doors in ten; without doors it is not stated.  The
\* one about floors of rooms is left out.
Mostly(good) == 10 * Cardinality(good) >= 9 * Cardinality(OfType("door"))

OrphanDoors == {n \in OfType("door") : ~Via(n, {"LOCATED_IN"})}
OrphanSpecs == {n \in OfType("spec_section") : ~\E e \in edges : e[3] = n}
Missing     == {n \in DOMAIN nodes : nodes[n].unresolved # {}}

Gates ==
  [spec_toc_parsed       |-> OfType("spec_section") # {},
   doors_parsed          |-> Doors # <<>>,
   rooms_parsed          |-> Rooms # <<>>,
   abbreviations_parsed  |-> Abbrev # {},
   sheets_registered     |-> Sheets # {},
   element_connectivity  |-> \A n \in OfType("door") \cup OfType("room") : Touching(n) # {},
   door_to_spec_rate     |-> MostlyResolved("door", DoorRels),
   room_to_finish_rate   |-> MostlyResolved("room", RoomRels),
   doors_have_hardware   |-> Mostly({n \in OfType("door") : nodes[n].hardware}),
   doors_have_frame      |-> Mostly({n \in OfType("door") : nodes[n].frame})]

\* stats and _rate read the type of every node, confidence_distribution the least
\* and the greatest of their confidences.
Reportable == DOMAIN nodes # {} /\ Untyped \notin Range(nodes)

Report ==
  /\ building = "built"
  /\ building' = IF Reportable THEN "reported" ELSE "raised"
  /\ report' = IF Reportable
               THEN [gates |-> Gates, orphan_doors |-> OrphanDoors,
                     orphan_specs |-> OrphanSpecs, missing |-> Missing]
               ELSE NoReport
  /\ UNCHANGED <<mapVars, project, available, links, done, nodes, edges>>

Finished == building \in {"reported", "raised"} /\ UNCHANGED vars

-----------------------------------------------------------------------------
Init ==
  /\ \E in \in Inputs : package = in[1] /\ project = in[2]
  /\ MapInit /\ GraphInit

Next ==
  \/ MapNext /\ UNCHANGED graphVars
  \/ Parse \/ Link \/ LinkRaises \/ Trace \/ AddDoor \/ DoorsDone \/ AddFinishes \/ RoomsDone
  \/ AddReferences \/ Report \/ Finished

Spec == Init /\ [][Next]_vars

-----------------------------------------------------------------------------
(***************************************************************************)
(* Properties                                                              *)
(***************************************************************************)

\* Segmentation (segmenter.py): the regions of a file tile its pages in order,
\* neighbours differ in kind, a region begins and ends with pages of its own
\* class, and however strays are absorbed, a run of min_run pages or more
\* keeps its kind.
RegionsTile ==
  mapping # "segment" =>
    /\ \A p \in Everywhere : \E r \in ToSet(regions) : Holds(r, p[1], p[2])
    /\ \A k, l \in DOMAIN regions : k < l /\ regions[k].file = regions[l].file =>
         /\ regions[k].last < regions[l].first
         /\ l = k + 1 => regions[k].kind # regions[l].kind
    /\ \A r \in ToSet(regions) : \A i \in {r.first, r.last} :
         (ProvisionalKind(package[r.file][i]) = "drawings") <=> (r.kind = "drawings")
    /\ \A f \in DOMAIN package : \A u \in Runs(Provisional(f)) : PageCount(u) >= MinRun =>
         \E r \in OfKind(Provisional(f)[u[1]]) : Holds(r, f, u[1]) /\ Holds(r, f, u[2])

\* Location (locator.py): what is located are confirmed pages of one region of
\* the artifact's kind, and no other confirmed pages of that kind in a row are
\* more, or as many with more confidence; every artifact is found, missing or
\* not applicable, and never two of these.
LocatedIsBest ==
  \A spec \in ToSet(LOCATORS) : spec.name \in DOMAIN artifacts =>
    LET at == artifacts[spec.name].at
    IN  /\ Located(spec.name) =>
             /\ PagesOf(at) \subseteq Confirmed(spec)
             /\ \E r \in OfKind(spec.kind) : Holds(r, at.file, at.first) /\ Holds(r, at.file, at.last)
             /\ \A p, q \in Confirmed(spec) :
                  LET row == [file |-> p[1], first |-> p[2], last |-> q[2]]
                  IN  (/\ p[1] = q[1] /\ p[2] <= q[2] /\ PagesOf(row) \subseteq Confirmed(spec)
                       /\ spec.many \/ p = q) =>
                       /\ q[2] - p[2] <= at.last - at.first
                       /\ q[2] - p[2] = at.last - at.first => Total(spec.name, row) <= Total(spec.name, at)
        /\ mapping = "mapped" =>
             /\ spec.name \in Completeness.missing <=> OfKind(spec.kind) # {} /\ Confirmed(spec) = {}
             /\ spec.name \in Completeness.found <=> Confirmed(spec) # {}
             /\ spec.name \in Completeness.not_applicable <=> OfKind(spec.kind) = {}

\* Some row of the schedules gives the element n the code c, for an edge rel.
Gives(n, rel, c) ==
  \/ \E i \in DOMAIN Doors : /\ n = <<"door", Doors[i].mark>>
                            /\ \/ rel = "DOOR_SPECIFIED_IN" /\ c = Doors[i].door
                               \/ rel = "FRAME_SPECIFIED_IN" /\ c = Doors[i].frame
  \/ \E i \in DOMAIN Rooms : /\ n = <<"room", Rooms[i].room>>
                            /\ rel = "FINISH_SPECIFIED_IN" /\ c \in Rooms[i].finishes

\* Grounding (phase5_graph_builder.py, section_llm.py): every edge leads to a
\* node the builder made, a reference may leave from one it did not; no
\* answer of the matcher or of the model puts a section on an edge other than
\* the hand-authored one of a code that the schedules give the element.
EdgesAreGrounded ==
  /\ \A e \in edges :
       /\ {e[1], e[3]} \subseteq DOMAIN nodes
       /\ nodes[e[3]].type # "untyped"
       /\ nodes[e[1]].type = "untyped" => e[2] = "REFERENCES"
  /\ \A e \in edges : e[2] \in {"DOOR_SPECIFIED_IN", "FRAME_SPECIFIED_IN", "FINISH_SPECIFIED_IN"} =>
       \E c \in Codes : Gives(e[1], e[2], c) /\ e[3] = Sid(Seed(c)) /\ Seed(c) \in project.toc

\* The codes that have a section for the kind of element.
Table(n) == IF nodes[n].type = "door" THEN Material ELSE DOMAIN FINISH_SECTION

\* Accounting (link_material and the finish loop): in a finished report every
\* material of a door and every finish of a room, by its last row, either has its
\* edge to its section or its element is among the missing connections with that code;
\* no code is missing that the element's own table gives a section of the contents.
CodesAreAccounted ==
  building = "reported" =>
    \A n \in OfType("door") \cup OfType("room") :
      /\ \A c \in nodes[n].carried :
           \/ c \in nodes[n].unresolved /\ n \in report.missing
           \/ /\ c \in Codes
              /\ \E e \in edges : e[1] = n /\ e[3] = Sid(Seed(c))
                   /\ e[2] \in DoorRels \cup RoomRels
      /\ \A c \in nodes[n].unresolved : c \in Table(n) => ~Linked(c)
      /\ nodes[n].unresolved # {} <=> n \in report.missing
=============================================================================
