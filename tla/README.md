# Specifications of construction-harness

This directory holds TLA+ specifications of the takeoff service and of the agent
harness in this repository, the TLC configurations that check them on small
instances, and theorems about them that the TLA+ proof system checks for every
value of the constants. Paths below are relative to the repository's root.

Modelled are the service (submission, orchestration, planner and merge, queries),
the agent harness (loop, registry, permissions, sub-agents, providers), the takeoff
agent that runs on both, the extraction it asks for, and the pipeline that maps a
bid package and builds its knowledge graph. Section 8 says what is not.

## 1. Inventory

### Takeoff service (`service/`)

| Component | State | Operations | Correct when |
|---|---|---|---|
| Ingestion API, `api/ingestions.py` | `takeoff_jobs` row, its two partial unique indexes (migration 0004), the PDF object, the queue | `submit_ingestion`, `_submit`, `_find_existing` | one piece of work per content, a key names one request, an answered job is one for the caller's content and will be worked on, the object precedes the worker |
| Orchestration, `jobs/orchestrator.py`, `jobs/worker.py` | `takeoff_jobs.status/shard_count/completed_shards/manifest`, `takeoff_shards`, partial objects, RQ's queue and registries | `plan_and_dispatch`, `run_shard`, `_finalize_shard`, `reduce_job`, `process_job` | the reduce runs once, after every shard is settled; nothing is left out unlisted; every job ends; the row only moves forward |
| Planner, `takeoff/planner.py` | none (pure) | `plan_shard_windows` | the windows tile the range within the memory budget |
| Merge and assembly, `takeoff/reduce.py`, `takeoff/pipeline_adapter.py` | none (pure) | `extract_shard`, `merge_partials`, `assemble_report`, `run_takeoff` | sharded and single execution give the same items (decision D5) |
| Query API, `api/query.py` | none, reads the row, the projection and the artifact | `get_items`, `get_fixture_counts`, `get_room_areas`, `get_summary` | a listing shows one version of a succeeded job, whole and without repetition |
| Projection, `takeoff/projection.py` | the entity rows of a job | `project`, `shred_entities`, inside the publishing transaction | rows and artifact appear together |
| Plumbing (`core/`, `clients/`, `obs/`, `api/main.py`) | configuration, sessions, metrics | `session_scope`, storage and queue clients | a session commits as a whole or not at all |

The API writes the row, then the object, then the queue entry. The worker pops
`plan_and_dispatch`, which either runs `process_job` in place or writes one row
per window and enqueues one `run_shard` each. Every finished shard increments
`completed_shards` with `UPDATE ... RETURNING`; the one that reads back
`shard_count` enqueues `reduce_job`, which reads the shard rows, loads the
partials, writes the artifact and publishes.

Hard behaviours: requests race on the unique indexes; shards finish in any order
and at once; a run may be cut short between any two writes, and RQ then runs it
again from the start; a shard's row and RQ keep separate counts of its attempts;
uploads and enqueues can fail after a commit.

### Agent harness (`src/harness/`)

| Component | State | Operations | Correct when |
|---|---|---|---|
| Agent loop, `agent.py`, `messages.py` | transcript, iteration count, nudges | `arun`, `_one_turn`, completion gate, grace turn | every call has a result, every run ends with the stop reason it earned |
| Registry, permissions, loop detection, `tools/registry.py`, `permissions/` | recent calls, remembered approvals, write gate | `dispatch`, `_record`, `_check_loop`, `check` | a denied call never runs, a loop is noticed, gated calls run one at a time |
| Context, `context/` | transcript, token count | `snapshot`, `mask_older_results`, `summarize_prefix`, `drop_orphan_tool_results`, `Compactor` | no call is separated from its result, the budget is met or the failure reported |
| Plans, `plans/` | steps and their evidence | plan tools, `is_ready_to_finalize` | a plan is finished only with evidence |
| Sub-agents, `subagents/` | spawn budget, semaphore, write gate | `spawn`, `spawn_all` | the budget is never exceeded, writers exclude each other, every batch is answered |
| Providers, `providers/` | the accumulator's open calls, the adapters' ids and reasoning items, the retry clock | `astream`, `accumulate`, `RetryPolicy.run`, `_to_responses_input` | fragments reach their call, retries stop at the bounds, the reasoning of a turn with calls is replayed before them |
| MCP client and other tools | sessions, files | connect, call | input and output around external processes |

### Takeoff agent and extraction (`src/takeoff_agent/`, `src/access/`, `src/takeoff/`, `src/pipeline/`, `src/models/`, `src/validation/`)

| Component | State | Operations | Correct when |
|---|---|---|---|
| Takeoff agent, `takeoff_agent/` | what was fetched, the scratchpad's report, verified postconditions | `submit_takeoff`, `wait_for_takeoff`, `takeoff_summary`, `takeoff_query`, `cross_check`, `finalize_report`, `_save_report` | it reports what the service published, every gap of it and nothing fictional |
| Document access, `access/` | per-page memo, ledger of failures | `Document.page`, `Page._cached`, `Document._safe` | a page is read once, a bad page degrades and is listed once |
| Takeoff extraction, `takeoff/` | items, areas, counts | `extract_schedule_items`, `harvest_room_areas`, `count_fixtures`, `verify_counts`, `flip_fixture_items` | first-wins over pages in order; areas and rooms are nearest to each other; only verified counts become quantities |
| Document map, `pipeline/segmenter.py`, `locator.py`, `build_document_map.py` | regions, located artifacts | `segment_package`, `locate_all`, `_completeness` | regions tile the pages, an artifact is located at its best run or reported missing |
| Knowledge graph, `pipeline/section_resolver.py`, `section_llm.py`, `phase5_graph_builder.py`, `models/graph.py` | section links, nodes and edges | `build_section_map`, `build_graph`, the graph's queries | edges lead to nodes that were read, a material or finish to the section of a code its element has; no code is lost without a trace |
| Gates, `validation/` | none | `check_phase2` ... `check_phase5`, `check_domain_rules`, `build_report` | the report is of the graph, or raises |

The agent's tools call the service through its public API, one request after
another, while the workers go on; each request opens two transactions. Inside one
response of the model the sub-agents' siblings share the event loop, a gate and a
permission manager. The passes of one extraction share a `Document`, and with it the
memo and the ledger.

Hard behaviours: a job published between two requests; fragments of several calls
that interleave and carry no ids; a human asked for the same call by two siblings;
a parent cancelled while a sibling holds the gate; a pull that fails in one pass and
is asked for by the next; an artifact whose page number outlives its file.

`PROJECT.json` lists each with its sources, what is modelled of it, and every
hazard at its line.

## 2. The modules

### Orchestrator

State and code correspond one to one: `status`, `shardCount`, `completed` and
`manifest` are columns of `takeoff_jobs`; `shardStatus` and `attempts` those of
`takeoff_shards`; `partials` the objects at `_partial_key`; `queue`, `retriesLeft`
and the resting values of `pc` are RQ's list, counters and registries. While a
worker holds a job `pc` says before which write it is. `snapshot` is what
`reduce_job` read. `reduceCalls`, `counted`, `redone` and `aborts` are history.

An action is one committed transaction, object write or enqueue, in the code's
order. What lies between two of them is local and needs no step.

| Action | Code |
|---|---|
| `Pop`, `Finish`, `RunFailed` | RQ (external): take the oldest job, file it, retry while `retries_left > 0` |
| `Abort` | a run is killed or raises where nothing catches it, in the plan and the reduce too |
| `PlanBegin`, `PlanSingle`, `PlanSharded`, `Dispatch` | `plan_and_dispatch` |
| `SingleBegin`, `SingleBuild`, `SingleFails`, `SinglePublish` | `process_job` |
| `ShardBegin` ... `ShardMark` | `run_shard` with its two except branches |
| `ShardCount`, `ShardEnqueue` | `_finalize_shard`: the counter's transaction, then the enqueue |
| `ReduceBegin`, `ReduceAssemble`, `ReducePublish` | `reduce_job` |

Left out: timestamps, error texts, `job.attempts` and `job.mode` (the mode is
sharded exactly when `shardCount > 0`), the contents of partials (Sharding), the
entity rows, which are part of the publishing transaction.

### TakeoffJob

The abstract specification: the lifecycle of one row as a reader sees it, moving
forward only, publishing once, and accounting in its manifest for every shard as
long as it is `sound`. Orchestrator implements it with `sound <- ~redone`. The
word `sound` marks where the code's own promise ends: a shard that was counted
twice may hide another (section 7).

### Ingestion

Concurrent requests through `_submit`. Each search, the insert, the upload and the
enqueue is a step, since Postgres reads committed rows per statement and nothing
holds a lock between them. The two indexes are the sets `SameKey` and
`ActiveContent`; a refused insert sends the request through both searches once
more (`collided`), and what that finds or does not find is the answer. `Breaks`
is any exception or the death of the process, at every step. `Settle` stands for
all of Orchestrator: an enqueued job reaches a final status. A job is named by
the request that created it. A content stands for a `content_sha256` with its
`config_hash`; upload validation is left out.

### Sharding

The data side of a job. A page is a non-candidate, a candidate whose tables cannot
be read, or a sequence of marks. `PlanShardWindows` is the planner, `FirstWins` the
seen-set loop that extraction and merge share, and the actions are
`process_job`, `run_shard`, a shard's death and `reduce_job`, each as one step:
their interleaving is Orchestrator's subject. Of the area and fixture passes only
what they do with an index past the last page is modelled. `Unreadable` covers a
failing table extraction, the one kind of failure that is per page.

### AgentLoop

One `arun` after another over one transcript, with what the loop drives: the
registry's dispatch and loop guard, the completion gate, compaction and the
repair of orphan results before every send. A message is its kind and the ids of
the calls in it; `masked` holds the calls whose result text was elided, `plan`
the open steps and postconditions, `callHistory` the part of `_call_history` that
`_check_loop` looks at, `todo` the calls of a response that await dispatch. An
action ends where the code awaits, returns or goes round the loop.

| Action | Code |
|---|---|
| `Start` | `arun` up to the loop; the caller may pass a transcript that another run left, in whatever state a cancellation left it |
| `Deadline`, `BeginTurn`, `BeginTurnCompacting` | top of the loop; `mask_older_results`, then `summarize_prefix` if the context is still full |
| `Send`, `RespondText`, `RespondCalls` | `_one_turn` and the provider's answer, which is open |
| `Nudge`, `FailClosed`, `Accept` | the completion gate and the final answer |
| `Refuse`, `BreakLoop`, `Invoke` | `dispatch` of the next call: unknown, invalid or denied; stopped by the loop guard; run, whether it raises or not |
| `Exhausted`, `SendGrace`, `WrapUp` | the grace turn |
| `Interrupted`, `DispatchInterrupted` | cancellation, or an error that nothing catches, at an await |

Left out: token counts (the context may be full at any turn), which tools are
selected, texts, and the callbacks that observe events. `sends`, `bodies` and
`broken` are history. A provider that gets no tools is taken to answer without
calls. The write gate and the cache of approvals matter only between siblings:
SubAgents has them.

### SubAgents

The calls of one parent to `spawn_subagent` and `spawn_parallel_subagents`, one
batch after another. `pc` says at which await a sibling is: waiting for the
semaphore, with the model, with the human, in a tool's body, or at the gate, whose
holder and waiters are `gate`. `started` and `pending` are history.

| Action | Code |
|---|---|
| `Delegate`, `Join`, `Cancel` | the two tools; `gather` in `spawn_all`; cancellation of the parent |
| `OverBudget`, `Spawn`, `Finish` | `SubagentSpawner.spawn`: budget, catalog without delegation tools, result |
| `CallAllowed`, `CallDenied`, `CallAsks` | `dispatch` up to its first await: `PermissionManager.check` with `by_side_effect` |
| `HumanAllows`, `HumanDenies`, `PromptFails` | the answer of the prompt, and what is remembered of it |
| `Enter`, `Answer` | the write gate around `_invoke`, which returns or raises |

An asyncio lock is fair and a task runs to its next await, so a step lasts that
long: the budget's check and increment are one.

### Query and TakeoffAgent

`Query` has no state: it is what the four endpoints answer from a report, a manifest
and the rows. `TakeoffAgent` extends it, takes the job from `TakeoffJob`
(`Job == INSTANCE`), and adds the agent between them.

| Action | Code |
|---|---|
| `Work`, `Publish` | the service: any step of the job's row; the publishing transaction of `reduce_job` or `process_job`, with the artifact and the rows |
| `CallTool`, `Return` | one tool call, and its end |
| `Submit`, `Resubmit`, `Poll`, `WaitReturns` | `submit_takeoff`, which the service answers with the job of these drawings or, after it failed, with a new one; `wait_for_takeoff` |
| `PassGate`, `ReadSummary`, `ReadPage` | one request: `_load_queryable` in one transaction, the query in another; `_fetch_pages` goes on while `page < total_pages` |
| `Refused`, `RequestFails` | 404, 409 and every other failure of a request |
| `Finalize` | `finalize_report`: reconcile, validate the escalations, write the artifact |
| `Verify`, `End`, `Raised` | `postcondition_verify`; the end of `arun` with `_save_report`; an error of the provider |

### Providers

One turn with one of three vendors (external): blocks one after another, items that
overlap, or no ids at all. `Opened`, `Fails`, `FailsRetryably` and `Wakes` are the
opening of the stream under `RetryPolicy.run`; `StartCall`, `Fragment`, `Text`, `Think`
and `Seal` are an event of the vendor together with its translation and what
`accumulate` makes of it; `Complete` is the response and the message made from it;
`Replayed` is what `_to_responses_input` sends of it in the next request: reasoning
items and then calls, or the text alone. An argument object is its fragments, and
parses when it has them all in order.

### DocumentMap and KnowledgeGraph

`DocumentMap` is `build_document_map`: `SegmentFile`, `AbsorbStray` and `EmitRegions` are
`segment_file`, `Locate` the search for one artifact. A page is its size, whether it
has an anchor, and the artifacts it answers to with a confidence. `KnowledgeGraph`
extends it with `build_graph`: `Parse` is what is read at the mapped pages,
`Link` one code through `build_section_map` and the model behind it, `Trace`,
`AddDoor`, `AddFinishes` and `AddReferences` the phases of the builder in order, and
`Report` the gates and queries. What a parser finds on a page is the `project` of the
input. The answer of the model is open: an error, an invention, any section
(`Replies`), or one that cannot be read (`LinkRaises`), which ends the build.

### Schedules and Extraction

`Schedules` has no state: `resolve_columns`, the row selectors and `build_item` as
operators on tables of words. `Extraction` is `build_schedule_items` over one
document, a page at a time, followed by the verification of its counts.

| Action | Code |
|---|---|
| `ReadText`, `ReadTables` | the two passes of `extract_schedule_items` |
| `ReadWords`, `Harvest` | `harvest_room_areas` |
| `CountPage` | `count_fixtures`, per catalog and sheet |
| `Verify`, `VerifyRaises`, `FlipItems` | `verify_counts` with a verifier that may fail, agree or not; the rendering of a sheet, or an answer that cannot be read, raises; `flip_fixture_items` |

Every pull goes through `Pull`, which is `Page._cached` and `Document._safe`.
Positions are on one axis: the code only compares distances and a spread. A label of
square feet is two words or one (`SfLabels`).

### MC modules

The `MC` modules are what the `.cfg` files instantiate; they define the values that a
`.cfg` cannot write: pages, tables, reports, projects. A definition whose comment
begins "Mutant of" is a variant with a plausible bug that `PROJECT.json`
pairs with a property it breaks; no behaviour uses it.

### Proof modules

`X_proofs` extends `X` and holds its theorems, each with the few facts about sets of
numbers it needs (a least element, a maximum). `Schedules_proofs` extends Sharding and
Extraction, which share the loop of `extract_schedule_items`, and so the lemmas about
loops and flattened sequences; that is why Extraction names its specification
`ExtractionSpec`. The next-state relation and the constants are those that TLC
runs: no definition is replaced.

## 3. Plan

Done, in this order: the models (Orchestrator with TakeoffJob, Ingestion, Sharding,
AgentLoop, SubAgents, Query with TakeoffAgent over TakeoffJob, Providers, DocumentMap
with KnowledgeGraph, Schedules with Extraction), then the theorems of Orchestrator
with its refinement, Ingestion, SubAgents, Providers, AgentLoop, TakeoffAgent, the
graph, the document map, Sharding and Extraction. Every invariant that a passing run checks
is the statement of a theorem.

Next: the text parsers of the manual as operators (contents, section bodies, bid items).

No module uses a recursive operator, so that theorems can be stated about all of
them; loops over sequences are folds or recursive functions.

## 4. The runs

| Run | Instance | Shows |
|---|---|---|
| `orchestrator` | 3 shards, 2 workers, 2 attempts, 2 aborted runs | the reduce is enqueued at most once; it sees every shard settled and finds every partial; the counter is exact while no counted shard is started again; dead is final; without aborted runs the job ends; TakeoffJob is implemented |
| `orchestrator_backoff` | 2 shards, 3 attempts, interval 10 | violated: a parked retry is never run |
| `ingestion` | 3 requests, 2 contents, 1 key or none | four searches, two indexes and any breakage give right answers, no double work, no work without drawings |
| `ingestion_orphan` | 2 requests | violated: an answered job nobody will run |
| `sharding` | up to 4 pages of 4 kinds, every range up to one past the end, caps 1 and 2 | the windows tile the range within budget, the sharded items are those of a single pass less the dead shards' pages, a job with its range inside the document ends |
| `sharding_range` | up to 2 pages | violated: a range past the end leaves the job reducing |
| `agent_loop` | two runs over one transcript, 2 iterations, 1 nudge, 2 calls per response, 2 keys, the last result kept by masking and 2 messages by a summary, repeat limit 3 | what is sent is a valid stream of tool pairs; the stop reason is the one earned within the turn budget; the loop guard holds; every run ends |
| `subagents` | 3 siblings, 2 at a time, 4 spawns in a session, 1 call each, tools that read, declare a change, declare nothing, and delegate | changing bodies exclude each other and nothing survives its parent's call; the budget holds; no call is asked for more often than siblings run at once; every batch ends |
| `takeoff_agent` | 3 tool calls, pages of 2 rows, listings of up to 3 rows, plans of up to 2 shards, 2 sleeps | what is fetched is what was published; the saved report has every kind of gap and names no fictional schedule or mark; a wait is honest and ends |
| `providers` | 3 vendors, 3 calls of 2 fragments, 4 attempts, delays up to 4, a budget of 7 | calls, names, arguments and order are those emitted; no attempt begins late; a turn with calls goes back with its reasoning sealed and before them |
| `knowledge_graph` | every package of 4 pages of 5 kinds or of 5 pages of 4 kinds in one file, or of 2 and 2; 3 plain packages with every project of up to 2 doors and 2 finish rows (two doors where the table of contents has all the sections they need) | regions tile; artifacts are at their best run; edges are grounded in the element's own codes; codes are accounted for |
| `extraction` | 3 sheets: schedules of six kinds, two area plans with labels of one and two words, two tagged plans; 1 pull that fails | items are whole up to the ledger; areas are mutual nearest; quantities are counted and verified |

### Bounds

- Three shards are the fewest where one shard may be counted twice and there is still
  one unfinished and one that closes the count; two workers let any two steps
  interleave, and more only add pairs of the same kind. Two attempts have a first
  and a last one. Two aborts allow a rerun of a rerun. The theorems remove these
  bounds for the safety properties.
- Three requests: the winner of a race, the loser, and a later one that finds
  either. Two contents and one key give the conflict of the key. A second key adds
  requests that do not meet.
- Four pages with a cap of one give up to four windows, cuts that coincide with
  the end, and tails without a candidate; the page values repeat a mark within a
  page, over pages and over windows, and leave one empty.
- Two iterations with two calls each are enough to reach a repeat limit of three,
  and only over two responses; the second run starts from what the first left:
  summaries, masked results, calls without results. Keeping one result and two
  messages, where the defaults are 3 and 6, makes both compactions happen, and the
  summarizer's cut fall on a result, within that length. One nudge has a first, a
  last and an exhausted state. Every call has an id of its
  own (`IdsGiven = {TRUE}`); the theorems hold for vendors that give none as well.
- Three siblings with two places have one that waits for the semaphore while two
  contend for the gate and the human. Four spawns run out in the second batch. One
  call each is enough for every pair of siblings to meet in it.
- Three tool calls are a submission, a wait and a report, or two reports; three rows
  with two a page give a full and a partial page, and one catalog mark without a
  count, a symbol on two sheets and a room without area are all in reach.
- Two fragments can be cut between; three calls let a fragment come late for the
  first, the middle and the last. Four attempts reach the cap of the delay and the
  time budget, before and after the last one.
- Five pages with a `min_run` of 3 hold a stray between two runs, a stray that
  ceases to be one when its neighbour is absorbed, and front matter at either end;
  two files hold a run that would continue in the next file, and a page number that
  is read in the wrong one.
- Three sheets hold a mark that is listed twice, in one schedule, in two and on two
  pages, a sheet of two schedules, and a symbol on two plans. One failing pull
  distinguishes each pass; the failures of two do not interact, except in the ledger.

Deadlock is checked where the last state of a behaviour repeats by an action of its
own (`Rest`, `Over`, `Finished`, `Ended`) or where a new batch can always begin
(SubAgents). In the models of the service's jobs and of the agent loop a finished
job, request or run stops for good: those configurations say
`CHECK_DEADLOCK FALSE`.

### Fairness

Orchestrator assumes weak fairness of the worker's loop and of each function that
has been started: a worker process polls Redis and runs what it popped. Fairness is
per shard, over the disjunction of its steps, so nothing makes an extraction
succeed rather than fail, and nothing forces or forbids an abort. A parked retry has
no action, as `rq_worker.py` calls `work()` without a scheduler. The run
`orchestrator` sets the interval to 0, which the environment variable
`TAKEOFF_SHARD_RETRY_BACKOFF_SECONDS` can do; the default 10 is the run
`orchestrator_backoff`. Ingestion assumes that a handler which has started goes on
unless it breaks, and that the workers settle what is queued; the latter is what
`NeverHangs` shows under the conditions stated there. Sharding assumes that some
enabled step is taken. AgentLoop assumes weak fairness of the run as a whole: the
provider and the tools answer or fail. Nothing makes the model finish, close its
plan or stop calling tools; that a run ends all the same is what `RunEnds` says.
SubAgents assumes weak fairness of each sibling's steps and of `gather`: models, tools
and the human answer or fail, and a sub-agent's turns are bounded, which is AgentLoop's
result. Nobody has to delegate, allow or cancel. TakeoffAgent assumes that a
request is answered unless it fails, and nothing of the job or the model: `WaitEnds`
holds for a job that hangs.

## 5. The theorems

Each holds for every value of the constants that the named assumptions of its module
allow; the runs of section 4 check the same formula on an instance. `PROJECT.json` says
in a sentence what each establishes.

The invariants follow one pattern. What a handler may do rests on where it is and on
what another has left in shared state, so a property is proved together with one
clause per variable that says what its value has come from. Each inductive invariant
was model-checked before it was proved.

### Orchestrator

For every number of windows, attempts, workers and aborted runs and for every retry
interval. Assumed: the bounds are naturals with at least one worker
(`BoundsAssumption`), and the plan and the reduce are tasks different from each other
and from the shards (`TaskAssumption`).

| Theorem | States |
|---|---|
| `TypeCorrect` | `Spec => []TypeOK` |
| `ReduceOnce` | `Spec => []ReduceAtMostOnce` |
| `NothingDropped` | `Spec => []ReduceSeesEveryShard` |
| `PartialsPresent` | `Spec => []PartialsArePresent` |
| `CounterExact` | `Spec => []CounterIsExact` |
| `DeadForGood` | `Spec => DeadIsFinal` |
| `JobRefinement` | `Spec => ImplementsJob`, the refinement of TakeoffJob |

- `OnceInv` for `ReduceOnce`. The counter only ever grows and the test is for
  equality, so it passes `shardCount` once: `OneTrip` says that no reduce has been
  enqueued, or is about to be, before the counter reached the count, and that at
  most one shard stands between the two. It needs that `shardCount` does not
  change under a running shard, hence `PlanFirst` (no shard is enqueued before the
  plan has fanned out, and the plan runs once), hence `QueueFaithful` (what is in
  the list is exactly what `pc` calls queued, without repetition).
- `DropInv` for the three that follow it. `RowsFollowRuns` ties a shard's row to
  the step of its run, `CountedOnce` makes the counter the cardinality of `counted`
  until a counted shard is started again, and what the reduce read stays a subset
  of what is stored because partials are never deleted. With `completed =
  Cardinality(counted)` and `counted` a subset of `Rows`, equality with the count means that all
  rows are counted, and counted rows are settled.
- `BudgetInv` for `DeadForGood`: attempts used and RQ's retries left add up to at most
  the limit, so that a run that reads `attempts >= max_attempts` has no retry left.
- `LifeInv` for `JobRefinement`: it ties the row's status to the steps of the plan and
  of the reduce, and makes the two sets of a snapshot disjoint sets of rows. With it
  every step is one of TakeoffJob or leaves the row alone; that the published manifest
  accounts for every shard while nothing was redone is `NothingDropped` again.

### Ingestion

For every set of requests, contents and keys. Assumed: the marks for "no key" and "no
job" are none of the keys and jobs.

| Theorem | States |
|---|---|
| `TypeCorrect` | `Spec => []TypeOK` |
| `AnswersAreMine` | `Spec => []AnswerIsMine` |
| `WorkIsNotRedundant` | `Spec => []NoRedundantWork` |
| `KeysReplay` | `Spec => []KeyReplay` |
| `WorkHasObject` | `Spec => []WorkHasItsObject` |

`IngestInv`: `OneActive` and `OneKey` are what the two unique indexes let in, `Progress`
says what a handler at each step has already committed (its row, its object),
`QueueIsReady` that a queued job has its object. `StartIsPast` remembers for
`KeyReplay` that the rows found at the start of a request stay, and that none
of them carries its key once the search by key has missed.

### SubAgents

For every catalog of tools, every answer of the human and every bound on batches,
spawns and parallel siblings. Assumed: a tool that only reads does not change anything
(`LabelAssumption`), and the bounds are positive (`BoundsAssumption`).

| Theorem | States |
|---|---|
| `WritersAreExclusive` | `Spec => []Exclusive` |
| `DelegationIsBudgeted` | `Spec => []Budgeted` |
| `AsksAreParallel` | `Spec => []AskedInParallelOnly` |

`SubInv`: `GateIsFaithful` makes the gate the list of exactly the siblings whose `pc` is
`gated`, each once, so that its head is the only one whose body runs;
`CallsAreLabelled` keeps tools that may write out of the ungated state. `AsksAreCounted`
counts the prompts of a tool by those who wait for one until it is approved;
afterwards nobody can begin to ask, and the number only falls.

### Providers

For all vendors, fragmentations, delays and budgets. Assumed: the bounds are naturals,
at least one attempt and one fragment, and finitely many values of `retry_after`, so
that they have a maximum.

| Theorem | States |
|---|---|
| `AttemptsAreInTime` | `Spec => []AttemptsInTime` |
| `ResponseIsFaithful` | `Spec => []CallsAreAsEmitted` |
| `ReasoningIsKept` | `Spec => []ReasoningIsReplayed` |

`TurnInv`: `CallsAreHeld` says that `accumulate` holds one entry for each call the vendor
began, under a key of its own and with exactly the fragments sent of it;
`TargetsAreKnown` that what an adapter remembers (the current block, the ids of the
items, the last call) leads to that entry. Without it a fragment may go
anywhere. `TimeIsKept` bounds the clock by the budget and one delay for whoever
sleeps or opens again; `ItemsAreKept` matches reasoning items with thoughts, and
`MessageIsMade` with the message. `ReasoningIsKept` is about turns with calls, which
OpenAI refuses without the reasoning that led to them; the code drops the
reasoning of a turn of text alone (section 7), and the property claims nothing of it.

### AgentLoop

For every budget, every window of the compactor and of the loop guard, and any number
of runs over one transcript, cut short anywhere. Assumed: naturals, positive where the
code divides or slices by them (`BoundsAssumption`).

| Theorem | States |
|---|---|
| `LoopTypes` | `Spec => []TypeOK` |
| `TranscriptsArePaired` | `Spec => []ToolPairs` |
| `ReasonsAreEarned` | `Spec => []HonestStop` |
| `RepeatsAreBroken` | `Spec => []LoopGuard` |

`LoopInv`: `TurnsAreCounted` ties the sends of a run to its iteration at every step, and
with `ReasonIsEarned` gives what a stop reason claims. `RunsAreRecorded` says that the
runs of the last tool in a row are still in the history that the guard looks at.
`TranscriptIsValid` is the pairing for every state between two sends: every result
stands in the run of results behind its message, at the place of its call;
the message that is being dispatched has the results of the calls that are no longer in
`todo`; the others are answered whole unless a run was cut short. The compactor's cut
retreats past leading results, so that it parts no result from its call and no message
from its results (`SummaryShape`, `SummaryKeepsPairs`), and in a transcript of this shape
the repair before a send finds nothing to drop (`NothingDropped`). It pairs by place and
not by id, and so holds for vendors that give no ids (`IdsGiven` is any subset).

### Sharding

For every document, range and budget. Assumed: bounds on the sizes that are positive
(`BoundsAssumption`), and a page that can be read holds a sequence of marks
(`PagesAssumption`).

| Theorem | States |
|---|---|
| `WindowsTiling` | `Spec => []WindowsTile` |
| `ReportGolden` | `Spec => []ReportIsGolden` |

`ShardingInv` only says that the windows are those of a plan, each partial is the
extraction of its window, and the published items are the extraction of the range or
the merge of what the shards that did not die stored. The work is in the operators. The
planner's loop keeps `AreCuts`: the edges so far increase, neighbours have exactly `cap`
candidates between them, and as many as `count` says came since the last (`CutsGrow`,
`BoundariesAre`); closing the last window, unless it is empty, gives `Planned`.
`FirstWins` keeps exactly the items whose mark no earlier one has, in order
(`FirstWinsIs`), and a flattened sequence lists what its parts list (`FlattenIs`), so one
window's extraction holds the first item of every mark of its pages
(`ExtractIsGolden`). That deduplicating twice is deduplicating once is `MergeIsGolden`,
for any parts in page order of which some may be missing: the first item of a mark on
all pages is first on its own part, and an item that is first on its part but not on
all follows the first of its mark in an earlier part. `PlannedCover` and
`MergedIsGolden` say that the windows of the live shards are such parts.

### Extraction

For every set of drawings, registry of schedules and table of numbers, whatever pulls
fail and whatever the verifier answers. Assumed: drawings have a page, and their
tables and words are sequences with positions that are integers
(`DocumentsAssumption`); the registry is a sequence of schemas that are catalogs or
instances, and a counted one is a catalog (`SchemasAssumption`), as both of
`_COUNTED_CATALOGS` are; something is counted (`CatalogsAssumption`); the reach of a
label is a natural number (`DistanceAssumption`).

| Theorem | States |
|---|---|
| `ItemsWhole` | `ExtractionSpec => []ItemsAreWhole` |
| `AreasMutual` | `ExtractionSpec => []AreasAreMutual` |
| `QuantitiesCounted` | `ExtractionSpec => []QuantitiesAreCounted` |

`ExtractionInv` speaks of the pages that a pass is through with (`TextRead`,
`TablesRead`, `Harvested`), which only `Turn` adds to:

- `LedgerInv` keeps the entries of a page in the ledger as many as its failed pulls in
  the memo, and every failed pull in the ledger. A page that a later pass skips
  because its text is missing is therefore noted. One lemma about `Pull`
  (`PullStep`) serves the three passes that pull.
- `ItemsInv`: the items have different keys, each is listed on the page it names, and what
  a page read lists is an item of it or of an earlier page, or has no mark, or the
  page is noted. The work is in the loop over a page's tables: what `Fresh` adds
  is new, distinct and all there is (`FreshIs`), and the row selectors and
  `FlattenSeq` return sequences of what the tables hold (`ParsedAre`).
- `AreasInv`: a label's nearest room exists (`NearestIs`), so every label in reach of a
  room has a binding, and of the bindings of a room one is closest (`JoinedAre`). The rooms
  do not change after the items are read.
- `CountsInv` and `QuantityInv`: `CountsOn` counts one-word marks of a catalog off its
  own pages, the verifier changes neither count nor place, and the greatest of the
  counts exists because the counts are a sequence (`Bounded`, `GreatestIs`). That an
  unknown quantity is a catalog's, and so its mark one word, is what makes the results
  that `Flip` looks up all the sheets of the item (`FlipIs`).

### TakeoffAgent

For every report the pipeline may publish, every page size and any number of calls, for a
job that goes on while it is read. Assumed: page sizes between one and the maximum
(`BoundsAssumption`), and a report has lists (`ReportsAssumption`).

| Theorem | States |
|---|---|
| `ListingsAreWhole` | `Spec => []ListingIsWhole` |
| `ReportsAreTrue` | `Spec => []ReportIsTrue` |
| `WaitsAreHonest` | `Spec => HonestWait` |

`AgentInv`: `JobIsPublished` says that the rows are the projection of the report;
`RequestsAreGated` that a request beyond `_load_queryable` is about a job that has
succeeded, which TakeoffJob never takes back; `FetchIsFaithful` that a listing in
progress is the prefix of the report up to the page before the current one, that those
fetched are whole and those to come empty. From these `FilesAreTrue`: what a
finalized report says was true when it was written and stays true. That pages concatenate
to the listing without gap or repetition is a lemma about `Page` and `Offset`; that
the symbols `reconcile` finds repeated are those of two sheets is `RepeatedIffTwice`.

### KnowledgeGraph

For every package and project, every `min_run`, every table of codes, whatever the
matcher and the model answer. Assumed: a package is a sequence of files, a file one of
pages, and a confidence a natural number (`PackagesAssumption`); `min_run` is a natural
number (`MinRunAssumption`); the schedules have rows in an order (`InputsAssumption`); no code is in both tables (`TablesAssumption`), as in the code's
two dictionaries.

| Theorem | States |
|---|---|
| `RegionsAreTiled` | `Spec => []RegionsTile` |
| `BestIsLocated` | `Spec => []LocatedIsBest` |
| `GraphIsGrounded` | `Spec => []EdgesAreGrounded` |
| `NoCodeIsLost` | `Spec => []CodesAreAccounted` |

`GraphInv`: `LinksAreSeeded` says that whatever was derived or invented, the link of a code
leads to its hand-authored section; `NodesAreProper` that a node is of the kind its id
says, that only a section can be bare, and none is before the references are added;
`CodesAreNoted` that every code an element carries has its edge already or is in its
list of unresolved codes; `ReportIsCurrent` that the report was computed from the graph it
is read beside.

`SegmentInv` for `RegionsAreTiled`: however many strays were absorbed, the
pages at the edges of a run still have the kind of their class, and so has every page of
a run of `min_run` pages or more (`KindsAreKept`). A stray has neighbours of one kind
and is shorter than `min_run`, so relabelling it removes two edges and moves none. What
is emitted is the runs of these kinds in their order (`FileRegionsAre`), from which
`RegionsAreTiles`. `ArtifactsAreAssembled` for `BestIsLocated` says that the artifacts
are those of `LOCATORS` up to a place, each as `_assemble` makes it from the
regions, which no longer change. The rest is about the operators: a longest row of
confirmed pages exists and nothing beats it (`BestIs`), every row is part of a span
(`RowIsInSpan`), and one of pages of a kind lies in one region, because regions that
touch differ in kind (`RowIsInRegion`).

### In place of induction

Facts about all elements of a sequence or all numbers below a bound are proved by the
least counterexample: a nonempty set of naturals has a least element (`LeastNat`),
which is neither the first nor a successor. What a loop has after its last round is
shown so too: its value in every round exists (`LoopExists`), and what holds of the
first and is kept by each holds of all (`EveryRound`). The maximum of a finite set
(the delays of Providers, the compactor's cut, the best span), where a run of pages
begins and ends, the next file, the running sum of confidences (`SumExists`), the
region of a row of pages and the nearest room of a label are handled so.

### What the proofs changed in the models

- `RetryAfters` of Providers has to be finite: with unbounded waits there is no slack
  to bound the last attempt by.
- `DropOrphans` was a selection by predicate and is now a function from places to
  places; the graph's updates are `Put` and `WithNodes`.
- In TakeoffAgent a request that had passed its gate could still be answered after
  its tool had ended, a step no run of the code can take; the guards of the two reads
  now require the tool.
- `ReportIsTrue` counted items with an empty mark among those the reconciliation must
  list; the code skips them (`Marked`).
- `CodesAreAccounted` claimed that no unresolved code is linked. It is false for a door
  that carries the code of a finish and for a room that carries that of a material,
  which the code looks up in the other table; the property is now about an element's own
  table (`Table`), and adds that an element is reported exactly if it has unresolved
  codes.
- In DocumentMap the regions of a file were sorted by a library operator that the prover
  cannot expand; they are now ranked by their first page (`Ranked`). The total of a
  span is a running sum (`Summed`) in place of a fold, and pages are no longer bounded
  by 100.
- `EdgesAreGrounded` now says that no edge leads to a bare node; one may only start
  there, as a reference out of a section that is not in the contents. The section on
  an edge is that of a code which some row gives the element (`Gives`).
- The planner of Sharding picked every `cap`-th element of a sorted sequence, and the
  seen-set loop was a fold. Both are now the code's loops, as recursive functions, and
  the reference of `ReportIsGolden` says which items there are and in what order
  in place of sorting them.
- In Extraction the loop that keeps the first item of a key was a fold over the items
  found; it is now the choice of the positions that the loop keeps (`Fresh`), and the
  schemas a page matches are a set in the order of the registry.

## 6. Only model-checked

- Liveness (`NeverHangs`, `AcceptedIsSettled`, `SettlesInRange`, `RunEnds`, `BatchEnds`,
  `WaitEnds`) and everything about ENABLED: the prover does not handle it.

## 7. Findings

`PROJECT.json` quotes the lines; the first three have a run that shows them.

1. The worker entry point runs no RQ scheduler while `run_shard` is enqueued with a
   retry interval: a shard that fails once is never retried and its job stays
   `mapping` (`orchestrator_backoff`).
2. A row whose upload or enqueue failed stays active, and later submissions of the
   same content are answered with it (`ingestion_orphan`).
3. A `page_range` past the last page ends a single job as `failed` but leaves a
   sharded one `reducing` (`sharding_range`).

Further disagreements between the code and what is said of it, met while modelling.
The models behave as the code does, and no run asserts the opposite:

- A run that is cut short between the counter and its return is counted again by the
  retry, and the reduce may omit a shard without listing it
  (`service/jobs/orchestrator.py:164`; `docs/takeoff_scaling_design.md:144` says "never
  silently drops"). In Orchestrator this is `redone`.
- An `Idempotency-Key` whose request was answered with an existing job is not
  recorded and may later name another content (`service/api/ingestions.py:93`).
- Pages that could not be read are listed for single jobs and lost for sharded ones
  (`service/jobs/orchestrator.py:206`).
- `mask_older_results` counts tool results where its documentation says turns: after
  a response with more calls than `keep_recent`, results are elided before the
  model was sent them (`src/harness/context/masking.py:28`).
- `RetryPolicy` covers the opening of a stream only, and sleeps once more after its
  last attempt (`src/harness/providers/retry.py:38`). The signature of an Anthropic
  thinking block is not kept (`src/harness/providers/anthropic.py:124`). An empty
  argument buffer becomes `{}`.
- `_to_responses_input` collects the reasoning items of a message and returns only the
  text when it has no calls (`src/harness/providers/openai.py:195`), against its
  comment that they are replayed "so chain-of-thought carries across turns" (lines
  162-163). A turn that ends in text, after which the loop may nudge or the caller go
  on, loses them: in Providers `Replayed` is then `PlainText`.
- `LLMSectionMatcher.resolve` reads the answer outside its try: one without `get`, or
  with a confidence that is no number, ends the build (`src/pipeline/section_llm.py:73`),
  whose docstring says that "The LLM can never break the build" (line 16). This is
  `LinkRaises` of KnowledgeGraph.
- `extraction_pages` drops the file of a located page
  (`src/pipeline/build_document_map.py:52`): a schedule located in the second file is
  read from the same page number of the first.
- A reference out of a section that the table of contents does not list makes a
  node without a type, and the report raises (`src/pipeline/phase5_graph_builder.py:220`):
  in KnowledgeGraph, `raised` after `built`. So does the report on a graph without
  nodes (`src/validation/gates.py:104`).
- `flip_fixture_items` matches by mark alone, so that a window of the same mark gets
  the count of a fixture, and flips when the verifier disagreed too
  (`src/takeoff/count_verifier.py:136`). A pull of text and a pull of words are one
  operation in the ledger. A page that does not load ends the run although guarded
  pulls on it would not.
- `takeoff_agent/run.py` calls the reconciliation mandatory, while
  `postcondition_verify` takes any evidence; a report that was finalized is not saved
  when `arun` raises.

A run that is killed in its last attempt, or in the plan or reduce, also leaves the
job where it is; the scaling design (D8) mentions a sweeper for that, which the code
does not have. `NeverHangs` therefore promises an end only when no run is cut
short.

## 8. Not modelled

- The text parsers of the manual, the sheet index and the abbreviations
  (`phase2_spec_parser.py` but for the search of its contents, `phase2_drawing_index.py`,
  `phase2_abbreviation_parser.py`, `phase3_sheet_classifier.py`, `bid_structure.py`):
  regular expressions over lines, external to KnowledgeGraph. `scale_resolver.py` and
  `binary_extractor.py`, which no driver of the service calls.
- What a vendor's request looks like beyond the replay of reasoning, caching marks
  and usage counts; token counts; which tools the selector picks; the fencing of
  untrusted text.
- MCP transport and file, scratchpad and shell tools, metrics and logging, schemas,
  configuration, examples and notebooks: input and output around what is modelled.
- PDF geometry: positions are on one axis, a table is its words.
- Validation and hashing of an upload, and the endpoints that only show a job.
