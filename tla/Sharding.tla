------------------------------ MODULE Sharding ------------------------------
(***************************************************************************)
(* What a takeoff job computes: plan_shard_windows, the extraction of each *)
(* window, merge_partials and the assembly of the report, next to the      *)
(* single run over the whole document that the sharded one must reproduce  *)
(* (decision D5 of the scaling design).  Orchestrator says when the steps  *)
(* run; here each shard and the reduce is one step.                        *)
(***************************************************************************)
EXTENDS Integers, SequencesExt

CONSTANTS
  MaxPages,       \* bound: pages of the document
  MaxCap,         \* bound: settings.max_candidates_per_shard
  PageValues,     \* what a page can be: NotCandidate, Unreadable or a sequence of marks
  NotCandidate,   \* no schedule title on the page
  Unreadable,     \* a candidate page whose table extraction raises
  NoMark,         \* an item with an empty mark
  NoRange         \* config.page_range is None

ASSUME BoundsAssumption == MaxPages \in Nat \ {0} /\ MaxCap \in Nat \ {0}
ASSUME PagesAssumption ==
  \A v \in PageValues \ {NotCandidate, Unreadable} : v \in Seq(ToSet(v))

VARIABLES
  page,             \* the document: what each of its pages is
  range,            \* config.page_range
  cap,              \* settings.max_candidates_per_shard
  status,           \* takeoff_jobs.status
  windows,          \* the ShardWindows; window i is a sequence of start, end, candidates
  partials,         \* object store: what the extracted shards stored
  dead,             \* the shards that exhausted their attempts
  reportItems,      \* report["items"] of the artifact
  manifestFailures  \* manifest["failures"]: pages recorded as unreadable

inputs == <<page, range, cap>>
output == <<reportItems, manifestFailures>>
vars   == <<inputs, status, windows, partials, dead, output>>

JobStatus == {"planning", "running", "mapping", "reducing", "succeeded", "failed"}
Ranges    == {NoRange} \cup {w \in (0 .. MaxPages) \X (1 .. MaxPages + 1) : w[1] < w[2]}

Init ==
  /\ \E n \in 1 .. MaxPages : page \in [0 .. n - 1 -> PageValues]
  /\ range \in Ranges
  /\ cap \in 1 .. MaxCap
  /\ status = "planning"
  /\ windows = <<>>
  /\ partials = [i \in {} |-> <<>>]
  /\ dead = {}
  /\ reportItems = <<>>
  /\ manifestFailures = {}

-----------------------------------------------------------------------------
(***************************************************************************)
(* The planner                                                             *)
(***************************************************************************)

Total      == Cardinality(DOMAIN page)
Candidates == {p \in DOMAIN page : page[p] # NotCandidate}

Lo == IF range = NoRange THEN 0 ELSE range[1]
Hi == IF range = NoRange \/ range[2] > Total THEN Total ELSE range[2]

Pages(lo, hi)      == {p \in DOMAIN page : lo <= p /\ p < hi}
CandidatesIn(w)    == Pages(w[1], w[2]) \cap Candidates
Window(start, end) == <<start, end, Cardinality(CandidatesIn(<<start, end>>))>>

\* The edges up to the last cut.  The loop goes page by page: count has the
\* candidates since the last cut, and a cut comes right after every cap-th.
Boundaries ==
  LET count[p \in Lo .. Hi] ==
        IF p = Lo THEN 0
        ELSE IF p - 1 \notin Candidates THEN count[p - 1]
        ELSE IF count[p - 1] + 1 = cap THEN 0 ELSE count[p - 1] + 1
      edges[p \in Lo .. Hi] ==
        IF p = Lo THEN <<Lo>>
        ELSE IF p - 1 \in Candidates /\ count[p] = 0 THEN Append(edges[p - 1], p) ELSE edges[p - 1]
  IN  edges[Hi]

WindowsBetween(edges) == [k \in 1 .. Len(edges) - 1 |-> Window(edges[k], edges[k + 1])]

\* Mutant of PlanShardWindows: the edges end with the last cut.
PlanShardWindowsNoTail ==
  IF Lo >= Hi THEN <<>>
  ELSE IF Cardinality(CandidatesIn(<<Lo, Hi>>)) <= cap THEN <<Window(Lo, Hi)>>
  ELSE WindowsBetween(Boundaries)

\* plan_shard_windows: none, one, or those between neighbouring edges; a cut
\* that lands on Hi leaves no tail.
PlanShardWindows ==
  LET cuts == Boundaries
  IN  IF Lo >= Hi THEN <<>>
      ELSE IF Cardinality(CandidatesIn(<<Lo, Hi>>)) <= cap THEN <<Window(Lo, Hi)>>
      ELSE WindowsBetween(IF Last(cuts) < Hi THEN Append(cuts, Hi) ELSE cuts)

-----------------------------------------------------------------------------
(***************************************************************************)
(* Extraction and merge                                                    *)
(***************************************************************************)

\* The items of one page, in table order; an unreadable page degrades to none.
PageItems(p) ==
  IF page[p] \in {NotCandidate, Unreadable} THEN <<>>
  ELSE [k \in 1 .. Len(page[p]) |-> [mark |-> page[p][k], page |-> p]]

\* Mutant of FirstWins: the later item replaces the earlier one.
FirstWinsLast(found) ==
  LET out[i \in 0 .. Len(found)] ==
        IF i = 0 THEN <<>>
        ELSE LET kept == out[i - 1]
                 it   == found[i]
             IN  IF it.mark = NoMark THEN kept
                 ELSE Append(SelectSeq(kept, LAMBDA o : o.mark # it.mark), it)
  IN  out[Len(found)]

\* The seen-set loop that extract_schedule_items and merge_partials share: an
\* item is kept unless it has no mark or the mark of an earlier one.
FirstWins(found) ==
  LET Seen(i) == found[i].mark = NoMark \/ \E j \in 1 .. i - 1 : found[j].mark = found[i].mark
      out[i \in 0 .. Len(found)] ==
        IF i = 0 THEN <<>> ELSE IF Seen(i) THEN out[i - 1] ELSE Append(out[i - 1], found[i])
  IN  out[Len(found)]

Extract(lo, hi) == FirstWins(FlattenSeq([k \in 1 .. hi - lo |-> PageItems(lo + k - 1)]))

Shards == 0 .. Len(windows) - 1

\* merge_partials over the succeeded shards, in the order of their index.
MergePartials ==
  FirstWins(FlattenSeq([k \in 1 .. Len(windows) |->
    IF k - 1 \in DOMAIN partials THEN partials[k - 1] ELSE <<>>]))

\* Document.page raises for an index past the last page, and neither
\* extract_schedule_items nor harvest_room_areas catches it.
RangeInDocument == range # NoRange => range[2] <= Total

-----------------------------------------------------------------------------

\* plan_and_dispatch: process_job takes over when there is at most one window.
PlanAndDispatch ==
  /\ status = "planning"
  /\ windows' = PlanShardWindows
  /\ status' = IF Len(windows') <= 1 THEN "running" ELSE "mapping"
  /\ UNCHANGED <<inputs, partials, dead, output>>

\* process_job: run_takeoff reads the pages of page_range as they were submitted.
ProcessJob ==
  /\ status = "running"
  /\ IF RangeInDocument
     THEN /\ status' = "succeeded"
          /\ reportItems' = Extract(Lo, Hi)
          /\ manifestFailures' = {p \in Pages(Lo, Hi) : page[p] = Unreadable}
     ELSE /\ status' = "failed"
          /\ UNCHANGED output
  /\ UNCHANGED <<inputs, windows, partials, dead>>

Unfinished(i) == i \in Shards \ (dead \cup DOMAIN partials)

\* run_shard, in an attempt that succeeds.
RunShard(i) ==
  /\ status = "mapping"
  /\ Unfinished(i)
  /\ partials' = [j \in DOMAIN partials \cup {i} |->
                    IF j = i THEN Extract(windows[i + 1][1], windows[i + 1][2])
                             ELSE partials[j]]
  /\ UNCHANGED <<inputs, status, windows, dead, output>>

\* run_shard, when the last attempt fails.
ShardDies(i) ==
  /\ status = "mapping"
  /\ Unfinished(i)
  /\ dead' = dead \cup {i}
  /\ UNCHANGED <<inputs, status, windows, partials, output>>

\* Mutant of ReduceBegin: a dead shard holds the reduce back.
ReduceBeginComplete ==
  /\ status = "mapping"
  /\ DOMAIN partials = Shards
  /\ status' = "reducing"
  /\ UNCHANGED <<inputs, windows, partials, dead, output>>

ReduceBegin ==
  /\ status = "mapping"
  /\ \A i \in Shards : ~Unfinished(i)
  /\ status' = "reducing"
  /\ UNCHANGED <<inputs, windows, partials, dead, output>>

\* reduce_job: merged items, then the area and fixture passes over page_range.
\* The manifest it writes has no "failures".
ReducePublish ==
  /\ status = "reducing"
  /\ RangeInDocument
  /\ status' = "succeeded"
  /\ reportItems' = MergePartials
  /\ UNCHANGED <<inputs, windows, partials, dead, manifestFailures>>

Next ==
  \/ PlanAndDispatch \/ ProcessJob
  \/ \E i \in Shards : RunShard(i) \/ ShardDies(i)
  \/ ReduceBegin \/ ReducePublish

Spec == Init /\ [][Next]_vars

\* The workers keep running; a shard may succeed or die, but not neither.
FairSpec == Spec /\ WF_vars(Next)

-----------------------------------------------------------------------------
(***************************************************************************)
(* Properties                                                              *)
(***************************************************************************)

Gapless ==
  windows # <<>> =>
    /\ windows[1][1] = Lo
    /\ Last(windows)[2] = Hi
    /\ \A k \in DOMAIN windows : windows[k][1] < windows[k][2]
    /\ \A k \in 2 .. Len(windows) : windows[k][1] = windows[k - 1][2]

WithinBudget ==
  /\ \A k \in DOMAIN windows :
       /\ windows[k][3] = Cardinality(CandidatesIn(windows[k]))
       /\ windows[k][3] <= cap
       /\ k < Len(windows) => windows[k][3] = cap
  /\ windows # <<>> => (Len(windows) = 1 <=> Cardinality(CandidatesIn(<<Lo, Hi>>)) <= cap)

\* The windows are non-empty, ordered and gapless, and cover the pages of the
\* range that the document has (planner.py, second invariant); none holds more
\* candidate pages than the memory budget allows, its row says how many it has,
\* and no more shards are planned than that takes: only the last lacks a full
\* share.
WindowsTile == Gapless /\ WithinBudget

\* The places of the items on the given pages, as page and index, in reading
\* order; and of those, the first one of every mark.
Places(pages) == UNION {{<<p, k>> : k \in DOMAIN PageItems(p)} : p \in pages}
Sooner(x, y)  == x[1] < y[1] \/ (x[1] = y[1] /\ x[2] < y[2])
Item(x)       == PageItems(x[1])[x[2]]

FirstPlaces(pages) ==
  {x \in Places(pages) : /\ Item(x).mark # NoMark
                         /\ \A y \in Places(pages) : Sooner(y, x) => Item(y).mark # Item(x).mark}

\* The reference: out holds the first occurrence of every mark on the given
\* pages, and nothing else, in reading order.
Golden(out, pages) ==
  /\ {out[n] : n \in DOMAIN out} = {Item(x) : x \in FirstPlaces(pages)}
  /\ \A m, n \in DOMAIN out : m < n =>
       \E x, y \in FirstPlaces(pages) : Sooner(x, y) /\ out[m] = Item(x) /\ out[n] = Item(y)

\* The artifact holds what one serial pass over the document would hold (D5),
\* less the pages of dead shards: deduplicating window by window and then over
\* the windows gives the same items, in the same order, as doing it once.
ReportIsGolden ==
  status = "succeeded" =>
    Golden(reportItems,
           Pages(Lo, Hi) \ UNION {Pages(windows[i + 1][1], windows[i + 1][2]) : i \in dead})

\* A job whose page range lies within its document ends, whichever shards die.
SettlesInRange ==
  RangeInDocument => <>(status \in {"succeeded", "failed"})

\* Every job ends as succeeded or failed (lifecycle of the scaling design), the
\* ones whose page_range ends past the last page included.
Settles == <>(status \in {"succeeded", "failed"})
=============================================================================
