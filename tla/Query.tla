------------------------------- MODULE Query -------------------------------
(***************************************************************************)
(* What the Query API answers from a report and the rows it was projected  *)
(* into: the three paginated listings and the summary.  A row is a record  *)
(* of the report with its ordinal; a request outside the limits is         *)
(* refused, which the callers see from Asked.                              *)
(***************************************************************************)
EXTENDS Integers, FiniteSets, SequencesExt

CONSTANT MaxPageSize   \* MAX_PAGE_SIZE

Entities == {"items", "room_areas", "fixture_counts"}

\* project, and shred_entities in the transaction of its caller: the rows a job
\* has afterwards, whatever it had before.
Projected(report) ==
  [e \in Entities |-> {[ordinal |-> k - 1, row |-> report[e][k]] : k \in DOMAIN report[e]}]

\* _load_queryable: a job that has not succeeded has nothing to query.
Queryable(status) == status = "succeeded"

\* The limits _offset enforces.
Asked(page, size) == page >= 1 /\ size \in 1 .. MaxPageSize

Offset(page, size) == (page - 1) * size

TotalPages(total, size) == (total + size - 1) \div size

\* The WHERE clause: equalities, and a bound for a confidence.
Matches(row, filter) ==
  \A f \in DOMAIN filter :
    IF f = "min_confidence" THEN row.confidence >= filter[f] ELSE row[f] = filter[f]

\* ORDER BY ordinal: the k-th row is the one up to which there are k.
Listed(rows, filter) ==
  LET found == {r \in rows : Matches(r.row, filter)}
      nth(k) == CHOOSE r \in found : Cardinality({q \in found : q.ordinal <= r.ordinal}) = k
  IN  [k \in 1 .. Cardinality(found) |-> nth(k).row]

\* get_items, get_fixture_counts, get_room_areas: one page and the page count.
GetPage(rows, filter, page, size) ==
  LET all  == Listed(rows, filter)
      last == Min({Offset(page, size) + size, Len(all)})
  IN  [data        |-> SubSeq(all, Offset(page, size) + 1, last),
       total_pages |-> TotalPages(Len(all), size)]

\* get_summary: the rollups of the report, the flags of the manifest, and the
\* counts nobody verified, counted over the rows.
GetSummary(report, manifest, rows) ==
  [rollup        |-> report.summary,
   incomplete    |-> manifest.failed # {},
   failed_shards |-> manifest.failed,
   unverified    |-> Cardinality({r \in rows.fixture_counts : ~r.row.verified})]
=============================================================================
