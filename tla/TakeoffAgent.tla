---------------------------- MODULE TakeoffAgent ----------------------------
(***************************************************************************)
(* The takeoff agent over the service: its tools are clients of the public *)
(* API, one request after another, while the job they ask about goes on.   *)
(* The job is TakeoffJob's, as its readers see it; the answers are Query's.*)
(* Every request has two steps, since the API gates on the job in one      *)
(* transaction and reads in another; the agent may fail at each.           *)
(***************************************************************************)
EXTENDS Query

CONSTANTS
  MaxShards,       \* bound: windows a plan may have
  PageSize,        \* _PAGE_SIZE of the client
  MaxWaits,        \* max_wait_s, in poll intervals
  Reports,         \* bound: the reports the pipeline may publish
  NoReport,        \* what the rows of an unpublished job project
  References,      \* bound: schedule and mark of an escalation, "" for none
  Postconditions,  \* _POSTCONDITIONS
  MaxCalls         \* bound: tool calls of a run

ASSUME BoundsAssumption ==
  /\ PageSize \in 1 .. MaxPageSize
  /\ MaxWaits \in Nat /\ MaxCalls \in Nat
  /\ MaxPageSize \in Nat

\* What the pipeline publishes has three lists.
ASSUME ReportsAssumption ==
  \A r \in Reports : \A e \in Entities : r[e] \in Seq(ToSet(r[e]))

VARIABLES
  exists,      \* whether the drawings have been submitted
  status, shardCount, manifest, sound,  \* the job
  report,      \* the artifact
  rows,        \* the entity rows of the job
  tool,        \* the tool being dispatched, "none" between calls, or "over"
  todo,        \* endpoints its requests have yet to go through
  page,        \* the page of the endpoint in front
  gated,       \* the gate of the request has been passed
  fetched,     \* what fetch_all has so far
  waited,      \* sleeps of wait_for_takeoff
  answer,      \* the status the last wait returned
  verified,    \* postconditions marked as satisfied
  scratchpad,  \* the report finalize_report wrote
  saved,       \* the file _save_report wrote
  stop,        \* stop_reason, or "raised"
  calls        \* bound: tool calls made

job   == <<exists, status, shardCount, manifest, sound, report, rows>>
fetch == <<todo, page, gated, fetched>>
run   == <<waited, answer, verified, scratchpad, saved, stop, calls>>
vars  == <<job, tool, fetch, run>>

Job   == INSTANCE TakeoffJob

Terminal == {"succeeded", "failed", "dead"}
Nothing  == [summary |-> <<>>, items |-> <<>>, fixture_counts |-> <<>>, room_areas |-> <<>>]
NoFile   == [job |-> "none"]

Init ==
  /\ exists = FALSE
  /\ Job!Init
  /\ report = NoReport
  /\ rows = Projected(NoReport)
  /\ tool = "none"
  /\ todo = <<>> /\ page = 1 /\ gated = FALSE /\ fetched = Nothing
  /\ waited = 0 /\ answer = "none"
  /\ verified = {}
  /\ scratchpad = NoFile /\ saved = NoFile
  /\ stop = "none"
  /\ calls = 0

-----------------------------------------------------------------------------
(***************************************************************************)
(* The service                                                             *)
(***************************************************************************)

\* Mutant of Published: the rows are not those of the report, which comes later.
PublishedLater(r) == report' = r /\ UNCHANGED rows

\* The transaction that sets the status points to the artifact and replaces the rows.
Published(r) == report' = r /\ rows' = Projected(r)

Work ==
  /\ exists
  /\ \/ Job!StartPlanning \/ Job!RunWhole \/ Job!FanOut \/ Job!StartReducing
     \/ Job!GiveUp \/ Job!LoseSoundness
  /\ UNCHANGED <<exists, report, rows, tool, fetch, run>>

Publish ==
  /\ Job!Publish
  /\ \E r \in Reports : Published(r)
  /\ UNCHANGED <<exists, tool, fetch, run>>

-----------------------------------------------------------------------------
(***************************************************************************)
(* The tools                                                               *)
(***************************************************************************)

Call(t, endpoints) ==
  /\ tool = "none"
  /\ calls < MaxCalls
  /\ calls' = calls + 1
  /\ tool' = t
  /\ todo' = endpoints
  /\ page' = 1
  /\ gated' = FALSE
  /\ fetched' = Nothing
  /\ waited' = 0
  /\ UNCHANGED <<job, answer, verified, scratchpad, saved, stop>>

FetchAll == <<"summary", "items", "fixture_counts", "room_areas">>

CallTool ==
  \/ Call("submit_takeoff", <<>>)
  \/ Call("wait_for_takeoff", <<>>)
  \/ Call("takeoff_summary", <<"summary">>)
  \/ \E e \in Entities : Call("takeoff_query", <<e>>)
  \/ Call("cross_check", FetchAll)
  \/ Call("finalize_report", FetchAll)

\* The tool returns.
Return == tool' = "none"

\* A request gets no answer, or the service fails.
RequestFails ==
  /\ tool \notin {"none", "over"}
  /\ Return
  /\ UNCHANGED <<job, fetch, run>>

\* There is no such job, or _load_queryable finds it not ready: TakeoffApiError
\* fails the tool.
Refused ==
  /\ \/ tool = "wait_for_takeoff" /\ ~exists
     \/ /\ tool \notin {"none", "over"} /\ todo # <<>> /\ ~gated
        /\ ~(exists /\ Queryable(status))
  /\ Return
  /\ UNCHANGED <<job, fetch, run>>

\* The same drawings give the same job, as long as it has not failed; its id may be
\* lost on the way.
Submit ==
  /\ tool = "submit_takeoff"
  /\ status \notin {"failed", "dead"}
  /\ exists' = TRUE
  /\ Return
  /\ UNCHANGED <<status, shardCount, manifest, sound, report, rows, fetch, run>>

\* After a failed job they make a new one, which no wait has told of.  The agent
\* goes on with it: of the old one it could only hear again that it failed.
Resubmit ==
  /\ tool = "submit_takeoff"
  /\ status \in {"failed", "dead"}
  /\ status' = "queued" /\ shardCount' = 0 /\ manifest' = Job!NoManifest /\ sound' = TRUE
  /\ report' = NoReport /\ rows' = Projected(NoReport)
  /\ answer' = "none"
  /\ Return
  /\ UNCHANGED <<exists, fetch, waited, verified, scratchpad, saved, stop, calls>>

\* Mutant of Slept: the sleeps are not counted.
NeverSlept == waited' = waited

Slept == waited' = waited + 1

\* wait_for_takeoff: one request, and the sleep after it.
Poll ==
  /\ tool = "wait_for_takeoff"
  /\ exists
  /\ status \notin Terminal
  /\ waited < MaxWaits
  /\ Slept
  /\ UNCHANGED <<job, tool, fetch, answer, verified, scratchpad, saved, stop, calls>>

\* Mutant of WaitOver: the tool gives up without looking at the status.
WaitOverBlind == waited >= MaxWaits - 1

WaitOver == status \in Terminal \/ waited >= MaxWaits

WaitReturns ==
  /\ tool = "wait_for_takeoff"
  /\ exists
  /\ WaitOver
  /\ answer' = status
  /\ Return
  /\ UNCHANGED <<job, fetch, waited, verified, scratchpad, saved, stop, calls>>

\* _load_queryable, in a transaction of its own.
PassGate ==
  /\ todo # <<>> /\ tool \notin {"none", "over"}
  /\ ~gated
  /\ exists /\ Queryable(status)
  /\ gated' = TRUE
  /\ UNCHANGED <<job, tool, todo, page, fetched, run>>

ReadSummary ==
  /\ gated /\ tool \notin {"none", "over"}
  /\ todo[1] = "summary"
  /\ fetched' = [fetched EXCEPT !.summary = <<GetSummary(report, manifest, rows)>>]
  /\ todo' = Tail(todo)
  /\ gated' = FALSE
  /\ UNCHANGED <<job, tool, page, run>>

\* _fetch_pages stops when the page it has reached is the last; takeoff_query
\* asks for one page.
LastPage(total) == page >= total \/ tool = "takeoff_query"

ReadPage ==
  /\ gated /\ tool \notin {"none", "over"}
  /\ todo[1] \in Entities
  /\ LET e    == todo[1]
         resp == GetPage(rows[e], <<>>, page, PageSize)
     IN  /\ fetched' = [fetched EXCEPT ![e] = @ \o resp.data]
         /\ IF LastPage(resp.total_pages) THEN todo' = Tail(todo) /\ page' = 1
                                          ELSE page' = page + 1 /\ UNCHANGED todo
  /\ gated' = FALSE
  /\ UNCHANGED <<job, tool, run>>

\* takeoff_summary, takeoff_query and cross_check only tell what they read.
Told ==
  /\ tool \in {"takeoff_summary", "takeoff_query", "cross_check"}
  /\ todo = <<>>
  /\ Return
  /\ UNCHANGED <<job, fetch, run>>

-----------------------------------------------------------------------------
(***************************************************************************)
(* finalize_report                                                         *)
(***************************************************************************)

Marked(d) == {i \in ToSet(d.items) : i.mark # ""}

\* Types of each catalog schedule that no plan sheet was found to have.
Uncounted(d) ==
  LET counted == {c.symbol_id : c \in ToSet(d.fixture_counts)}
  IN  {[schedule |-> i.schedule, mark |-> i.mark] :
         i \in {x \in Marked(d) : x.shape = "catalog" /\ x.mark \notin counted}}

\* The counts of a symbol, by their place in the listing.
CountsOf(s, d) == {k \in DOMAIN d.fixture_counts : d.fixture_counts[k].symbol_id = s}

\* Symbols counted on two sheets or more.
Repeated(d) == {c.symbol_id : c \in {x \in ToSet(d.fixture_counts) :
                                     Cardinality(CountsOf(x.symbol_id, d)) >= 2}}

CandidateTotal(s, counts) ==
  MapThenSumSet(LAMBDA k : counts[k].count, {k \in DOMAIN counts : counts[k].symbol_id = s})

DoubleCounts(d) ==
  {[symbol_id |-> s, total |-> CandidateTotal(s, d.fixture_counts)] : s \in Repeated(d)}

\* Mutant of WithoutArea: a room has an area as soon as any is harvested.
WithoutAnyArea(d) ==
  IF d.room_areas # <<>> THEN {} ELSE {i.mark : i \in {x \in Marked(d) : x.schedule = "finish"}}

\* Rooms of the finish schedule that no area was harvested for.
WithoutArea(d) ==
  {i.mark : i \in {x \in Marked(d) : x.schedule = "finish"}}
    \ {a.room_number : a \in ToSet(d.room_areas)}

Reconciled(d) ==
  [uncounted    |-> Uncounted(d),
   doubles      |-> DoubleCounts(d),
   unverified   |-> Cardinality({k \in DOMAIN d.fixture_counts : ~d.fixture_counts[k].verified}),
   without_area |-> WithoutArea(d),
   incomplete   |-> d.summary[1].incomplete,
   has_gaps     |-> Uncounted(d) # {} \/ WithoutArea(d) # {} \/ DoubleCounts(d) # {}]

\* _validate_escalations: what is named is somewhere in the data.
Valid(e, d) ==
  /\ e.schedule = "" \/ e.schedule \in {i.schedule : i \in ToSet(d.items)}
  /\ e.mark = "" \/ e.mark \in {i.mark : i \in ToSet(d.items)}
                                 \cup {c.symbol_id : c \in ToSet(d.fixture_counts)}
                                 \cup {a.room_number : a \in ToSet(d.room_areas)}

\* build_artifact: rollups and reconciliation are copied, the escalations are
\* the model's.
Artifact(d, escalations) ==
  [job            |-> "takeoff",
   incomplete     |-> d.summary[1].incomplete,
   rollup         |-> d.summary[1].rollup,
   reconciliation |-> Reconciled(d),
   escalations    |-> escalations]

\* The status is asked for once more, for its provenance, and the report is
\* written; a later one replaces it.
Finalize ==
  /\ tool = "finalize_report"
  /\ todo = <<>>
  /\ \E e \in References :
       IF Valid(e, fetched) THEN scratchpad' = Artifact(fetched, {e})
                            ELSE UNCHANGED scratchpad
  /\ Return
  /\ UNCHANGED <<job, fetch, waited, answer, verified, saved, stop, calls>>

-----------------------------------------------------------------------------
(***************************************************************************)
(* The plan, and the end of the run                                        *)
(***************************************************************************)

\* postcondition_verify asks for evidence, and takes any.
Verify ==
  /\ tool = "none"
  /\ calls < MaxCalls
  /\ \E p \in Postconditions : verified' = verified \cup {p}
  /\ calls' = calls + 1
  /\ UNCHANGED <<job, tool, fetch, waited, answer, scratchpad, saved, stop>>

\* The loop ends; the completion gate lets "completed" through once every
\* postcondition is verified.  The entrypoint saves what was finalized.
End ==
  /\ tool = "none"
  /\ tool' = "over"
  /\ stop' \in {"incomplete_plan", "deadline", "max_iterations"} \cup
               IF verified = Postconditions THEN {"completed", "empty_response"} ELSE {}
  /\ saved' = scratchpad
  /\ UNCHANGED <<job, fetch, waited, answer, verified, scratchpad, calls>>

\* The provider fails: what was finalized is not saved.
Raised ==
  /\ tool = "none"
  /\ tool' = "over"
  /\ stop' = "raised"
  /\ UNCHANGED <<job, fetch, waited, answer, verified, scratchpad, saved, calls>>

Service == Work \/ Publish
Answer  == \/ Refused \/ Submit \/ Resubmit \/ Poll \/ WaitReturns \/ PassGate
           \/ ReadSummary \/ ReadPage \/ Told \/ Finalize
Agent   == CallTool \/ Answer \/ RequestFails \/ Verify \/ End \/ Raised

\* Once the run is over nothing is left for the agent to do.
Rest == tool = "over" /\ UNCHANGED vars

Next == Service \/ Agent \/ Rest

Spec == Init /\ [][Next]_vars

\* Every request is answered, unless it fails.  Nothing is assumed of the job,
\* which may hang (Orchestrator!NeverHangs), nor of the model.
FairSpec == Spec /\ WF_vars(Answer)

-----------------------------------------------------------------------------
(***************************************************************************)
(* Properties                                                              *)
(***************************************************************************)

\* What the agent has when it assembles its report is the published takeoff, no
\* row twice and none left out, although it came in many requests and each of
\* them looked at the job in two transactions (reconcile.py, "complete").
ListingIsWhole ==
  (tool \in {"cross_check", "finalize_report"} /\ todo = <<>>) =>
    /\ fetched.summary = <<GetSummary(report, manifest, rows)>>
    /\ \A e \in Entities : fetched[e] = report[e]

UncountedTypes ==
  {i \in Marked(report) : i.shape = "catalog" /\ \A c \in ToSet(report.fixture_counts) :
                                                   c.symbol_id # i.mark}

RoomsWithoutArea ==
  {i \in Marked(report) : i.schedule = "finish" /\ \A a \in ToSet(report.room_areas) :
                                                     a.room_number # i.mark}

\* Two sheets that count the same symbol.
CountedTwice(j, k) ==
  j # k /\ report.fixture_counts[j].symbol_id = report.fixture_counts[k].symbol_id

NoGapIsLost(file) ==
  LET r      == file.reconciliation
      counts == report.fixture_counts
  IN  /\ file.rollup = report.summary
      /\ file.incomplete <=> manifest.failed # {}
      /\ r.incomplete <=> manifest.failed # {}
      /\ \A i \in UncountedTypes : [schedule |-> i.schedule, mark |-> i.mark] \in r.uncounted
      /\ \A i \in RoomsWithoutArea : i.mark \in r.without_area
      /\ \A j, k \in DOMAIN counts :
           CountedTwice(j, k) =>
             \E d \in r.doubles :
               /\ d.symbol_id = counts[j].symbol_id
               /\ d.total = CandidateTotal(counts[j].symbol_id, counts)
      /\ r.unverified = Cardinality({k \in DOMAIN counts : ~counts[k].verified})
      /\ r.has_gaps <=> \/ UncountedTypes # {} \/ RoomsWithoutArea # {}
                        \/ \E j, k \in DOMAIN counts : CountedTwice(j, k)

EscalationsAreReal(file) ==
  \A e \in file.escalations :
    /\ e.schedule # "" => \E i \in ToSet(report.items) : i.schedule = e.schedule
    /\ e.mark # "" => \/ \E i \in ToSet(report.items) : i.mark = e.mark
                      \/ \E c \in ToSet(report.fixture_counts) : c.symbol_id = e.mark
                      \/ \E a \in ToSet(report.room_areas) : a.room_number = e.mark

\* The report that is saved has every gap there is in the published takeoff: each
\* catalog type that no sheet was found to have, each room without an area, each
\* symbol of two sheets with the sum of its counts, how many counts are unverified,
\* and whether shards are missing from it (report_tools.py, "the numeric spine");
\* it has gaps exactly if there is a type, a room or a symbol of these.
\* No saved escalation names a schedule or a mark that the takeoff does not have
\* ("can never escalate a fictional item").
ReportIsTrue == saved # NoFile => NoGapIsLost(saved) /\ EscalationsAreReal(saved)

\* A wait that says the job is over is right as long as the agent has that job, and
\* one that says it is not has used its whole budget.
HonestWait ==
  /\ [](answer \in Terminal => status = answer)
  /\ [][(answer' # answer /\ answer' \notin Terminal \cup {"none"}) => waited >= MaxWaits]_vars

\* Waiting ends, even for a job that hangs.
WaitEnds == tool = "wait_for_takeoff" ~> tool # "wait_for_takeoff"
=============================================================================
