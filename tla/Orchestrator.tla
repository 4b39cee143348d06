---------------------------- MODULE Orchestrator ----------------------------
(***************************************************************************)
(* The fan-out of one takeoff job: plan_and_dispatch, run_shard and        *)
(* reduce_job of service/jobs/orchestrator.py, process_job of              *)
(* service/jobs/worker.py (the unsharded path) and the RQ queue that runs  *)
(* them.                                                                   *)
(*                                                                         *)
(* Every committed transaction, object-store write and enqueue is a step   *)
(* of its own: between two of them other workers run, and a run may be cut *)
(* short (Abort).  Local computation between two commits is not a step:    *)
(* losing it and losing the commit after it leave the same state.          *)
(***************************************************************************)
EXTENDS Integers, Sequences, FiniteSets

CONSTANTS
  MaxShards,      \* bound: windows a plan may have
  MaxAttempts,    \* settings.max_shard_attempts
  RetryBackoff,   \* settings.shard_retry_backoff_seconds
  Workers,        \* RQ worker processes
  MaxAborts,      \* bound: runs cut short
  Plan, Reduce    \* the queue jobs beside one run_shard per shard

Shard == 0 .. MaxShards - 1
Task  == Shard \cup {Plan, Reduce}

ASSUME BoundsAssumption ==
  /\ MaxShards \in Nat
  /\ MaxAttempts \in Nat
  /\ RetryBackoff \in Nat
  /\ Workers \in Nat \ {0}
  /\ MaxAborts \in Nat

ASSUME TaskAssumption ==
  /\ Plan # Reduce
  /\ \A i \in Shard : i # Plan /\ i # Reduce

VARIABLES
  status,       \* takeoff_jobs.status
  shardCount,   \* takeoff_jobs.shard_count: 0 unless mode is "sharded"
  completed,    \* takeoff_jobs.completed_shards
  manifest,     \* takeoff_jobs.manifest, written with artifact_object_key
  shardStatus,  \* takeoff_shards.status, "none" before the row exists
  attempts,     \* takeoff_shards.attempts
  partials,     \* object store: the shards with an object at _partial_key
  queue,        \* the Redis list of the RQ queue
  retriesLeft,  \* RQ job.retries_left
  pc,           \* where each queue job is: in RQ, or at a step of its function
  snapshot,     \* what the running reduce_job read of the shard rows
  reduceCalls,  \* history: how often reduce_job was enqueued
  counted,      \* history: the shards some run of which was counted
  redone,       \* history: a shard was started again after it was counted
  aborts        \* history: runs cut short so far

jobVars   == <<status, shardCount, completed, manifest>>
shardVars == <<shardStatus, attempts, partials>>
rqVars    == <<queue, retriesLeft>>
history   == <<reduceCalls, counted, redone, aborts>>
vars      == <<jobVars, shardVars, rqVars, history, pc, snapshot>>

JobStatus    == {"queued", "planning", "mapping", "reducing", "running",
                 "succeeded", "failed"}
RowStatus    == {"queued", "running", "failed", "succeeded", "dead"}
Settled      == {"succeeded", "failed"}

\* Steps at which a worker holds the queue job.
PlanStep   == {"begin", "plan", "dispatch", "single", "build", "publish", "return"}
ShardStep  == {"begin", "extract", "mark", "count", "enqueue", "return"}
ReduceStep == {"begin", "assemble", "publish", "return"}
Step       == PlanStep \cup ShardStep \cup ReduceStep
\* Where RQ keeps a job that no worker holds; "idle" is not enqueued yet,
\* "parked" is the registry of jobs whose retry waits for an interval.
Resting    == {"idle", "queued", "parked", "finished", "failed"}

Rows        == 0 .. shardCount - 1
InStatus(s) == {i \in Rows : shardStatus[i] = s}
NoManifest  == [written |-> FALSE, merged |-> {}, failed |-> {}]
Manifest(m, f) == [written |-> TRUE, merged |-> m, failed |-> f]

\* Mutant of Retries: Retry(max = max_shard_attempts), one retry too many.
RetriesOffByOne == MaxAttempts

\* RQ's Retry(max = max_shard_attempts - 1), left out when that is not positive.
Retries == IF MaxAttempts > 0 THEN MaxAttempts - 1 ELSE 0

Init ==
  /\ status = "queued"
  /\ shardCount = 0
  /\ completed = 0
  /\ manifest = NoManifest
  /\ shardStatus = [i \in Shard |-> "none"]
  /\ attempts = [i \in Shard |-> 0]
  /\ partials = {}
  /\ queue = <<Plan>>
  /\ retriesLeft = [i \in Shard |-> Retries]
  /\ pc = [t \in Task |-> IF t = Plan THEN "queued" ELSE "idle"]
  /\ snapshot = NoManifest
  /\ reduceCalls = 0
  /\ counted = {}
  /\ redone = FALSE
  /\ aborts = 0

Move(t, from, to) ==
  /\ pc[t] = from
  /\ pc' = [pc EXCEPT ![t] = to]

-----------------------------------------------------------------------------
(***************************************************************************)
(* RQ                                                                      *)
(***************************************************************************)

Busy == {t \in Task : pc[t] \in Step}

\* An idle worker takes the oldest queued job.
Pop ==
  /\ queue # <<>>
  /\ Cardinality(Busy) < Workers
  /\ pc' = [pc EXCEPT ![Head(queue)] = "begin"]
  /\ queue' = Tail(queue)
  /\ UNCHANGED <<jobVars, shardVars, retriesLeft, history, snapshot>>

\* The function returned and RQ files the job as finished.
Finish(t) ==
  /\ Move(t, "return", "finished")
  /\ UNCHANGED <<jobVars, shardVars, rqVars, history, snapshot>>

\* RQ's handling of a run that raised or died.  A retry with an interval goes
\* to the registry of scheduled jobs, which only RQ's scheduler empties: the
\* worker entry point starts none, so no action moves a parked job.
RunFailed(t) ==
  IF t \in Shard /\ retriesLeft[t] > 0
  THEN /\ retriesLeft' = [retriesLeft EXCEPT ![t] = @ - 1]
       /\ IF RetryBackoff = 0
          THEN /\ pc' = [pc EXCEPT ![t] = "queued"]
               /\ queue' = Append(queue, t)
          ELSE /\ pc' = [pc EXCEPT ![t] = "parked"]
               /\ UNCHANGED queue
  ELSE /\ pc' = [pc EXCEPT ![t] = "failed"]
       /\ UNCHANGED rqVars

\* A run is cut short: the work-horse is killed, the job timeout fires or a
\* database, storage or Redis call raises where nothing catches it.
Abort(t) ==
  /\ pc[t] \in Step
  /\ aborts < MaxAborts
  /\ aborts' = aborts + 1
  /\ RunFailed(t)
  /\ UNCHANGED <<jobVars, shardVars, snapshot, reduceCalls, counted, redone>>

-----------------------------------------------------------------------------
(***************************************************************************)
(* plan_and_dispatch, and process_job when one window covers the document  *)
(***************************************************************************)

PlanBegin ==
  /\ Move(Plan, "begin", "plan")
  /\ status' = "planning"
  /\ UNCHANGED <<shardCount, completed, manifest, shardVars, rqVars, history, snapshot>>

\* At most one window: mode is "single" and process_job runs in this same job.
PlanSingle ==
  /\ Move(Plan, "plan", "single")
  /\ UNCHANGED <<jobVars, shardVars, rqVars, history, snapshot>>

\* Mutant of PlanSharded: shard_count is one more than the rows it adds.
PlanShardedOffByOne ==
  /\ Move(Plan, "plan", "dispatch")
  /\ \E n \in 2 .. MaxShards :
       /\ shardCount' = n + 1
       /\ shardStatus' = [i \in Shard |-> IF i < n THEN "queued" ELSE "none"]
  /\ status' = "mapping"
  /\ UNCHANGED <<completed, manifest, attempts, partials, rqVars, history, snapshot>>

\* More windows: one transaction sets the count and the status and adds a row
\* per window.
PlanSharded ==
  /\ Move(Plan, "plan", "dispatch")
  /\ \E n \in 2 .. MaxShards :
       /\ shardCount' = n
       /\ shardStatus' = [i \in Shard |-> IF i < n THEN "queued" ELSE "none"]
  /\ status' = "mapping"
  /\ UNCHANGED <<completed, manifest, attempts, partials, rqVars, history, snapshot>>

\* One round of the enqueue loop, in window order.
Dispatch ==
  /\ pc[Plan] = "dispatch"
  /\ \E i \in Rows :
       /\ pc[i] = "idle"
       /\ \A j \in 0 .. i - 1 : pc[j] # "idle"
       /\ pc' = [pc EXCEPT ![i] = "queued",
                           ![Plan] = IF i + 1 = shardCount THEN "return" ELSE @]
       /\ queue' = Append(queue, i)
  /\ UNCHANGED <<jobVars, shardVars, retriesLeft, history, snapshot>>

SingleBegin ==
  /\ Move(Plan, "single", "build")
  /\ status' = "running"
  /\ UNCHANGED <<shardCount, completed, manifest, shardVars, rqVars, history, snapshot>>

\* run_takeoff succeeds and the artifact object is stored.
SingleBuild ==
  /\ Move(Plan, "build", "publish")
  /\ UNCHANGED <<jobVars, shardVars, rqVars, history, snapshot>>

\* The except clause: the job is failed and the exception reaches RQ.
SingleFails ==
  /\ Move(Plan, "build", "failed")
  /\ status' = "failed"
  /\ UNCHANGED <<shardCount, completed, manifest, shardVars, rqVars, history, snapshot>>

SinglePublish ==
  /\ Move(Plan, "publish", "return")
  /\ status' = "succeeded"
  /\ manifest' = Manifest({}, {})
  /\ UNCHANGED <<shardCount, completed, shardVars, rqVars, history, snapshot>>

PlanJob == \/ PlanBegin \/ PlanSingle \/ PlanSharded \/ Dispatch
           \/ SingleBegin \/ SingleBuild \/ SingleFails \/ SinglePublish

-----------------------------------------------------------------------------
(***************************************************************************)
(* run_shard.  attempt_no is the row's attempts, which no other run writes *)
(* while this one is active.                                               *)
(***************************************************************************)

Terminal(i) == attempts[i] >= MaxAttempts

\* Mutant of ShardBegin: a new attempt first deletes the partial of the last one.
ShardBeginClearing(i) ==
  /\ Move(i, "begin", "extract")
  /\ shardStatus' = [shardStatus EXCEPT ![i] = "running"]
  /\ attempts' = [attempts EXCEPT ![i] = @ + 1]
  /\ partials' = partials \ {i}
  /\ redone' = (redone \/ i \in counted)
  /\ UNCHANGED <<jobVars, rqVars, snapshot, reduceCalls, counted, aborts>>

ShardBegin(i) ==
  /\ Move(i, "begin", "extract")
  /\ shardStatus' = [shardStatus EXCEPT ![i] = "running"]
  /\ attempts' = [attempts EXCEPT ![i] = @ + 1]
  /\ redone' = (redone \/ i \in counted)
  /\ UNCHANGED <<jobVars, partials, rqVars, snapshot, reduceCalls, counted, aborts>>

\* The window is extracted and its partial stored.
ShardExtract(i) ==
  /\ Move(i, "extract", "mark")
  /\ partials' = partials \cup {i}
  /\ UNCHANGED <<jobVars, shardStatus, attempts, rqVars, history, snapshot>>

\* Mutant of ShardDies: a dead shard is not counted.
ShardDiesUncounted(i) ==
  /\ Terminal(i)
  /\ Move(i, "extract", "return")
  /\ shardStatus' = [shardStatus EXCEPT ![i] = "dead"]
  /\ UNCHANGED <<jobVars, attempts, partials, rqVars, history, snapshot>>

\* The except clause on the last attempt: dead, and counted like a success.
ShardDies(i) ==
  /\ Terminal(i)
  /\ Move(i, "extract", "count")
  /\ shardStatus' = [shardStatus EXCEPT ![i] = "dead"]
  /\ UNCHANGED <<jobVars, attempts, partials, rqVars, history, snapshot>>

\* Mutant of ShardFails: a failed shard is counted instead of retried.
ShardFailsCounted(i) ==
  /\ ~Terminal(i)
  /\ Move(i, "extract", "count")
  /\ shardStatus' = [shardStatus EXCEPT ![i] = "failed"]
  /\ UNCHANGED <<jobVars, attempts, partials, rqVars, history, snapshot>>

\* The except clause before that: failed, and re-raised so that RQ retries.
ShardFails(i) ==
  /\ pc[i] = "extract"
  /\ ~Terminal(i)
  /\ shardStatus' = [shardStatus EXCEPT ![i] = "failed"]
  /\ RunFailed(i)
  /\ UNCHANGED <<jobVars, attempts, partials, history, snapshot>>

\* The success transaction, which also records the partial's key.
ShardMark(i) ==
  /\ Move(i, "mark", "count")
  /\ shardStatus' = [shardStatus EXCEPT ![i] = "succeeded"]
  /\ UNCHANGED <<jobVars, attempts, partials, rqVars, history, snapshot>>

\* Mutant of ShardCount: finished >= total in place of finished == total.
ShardCountAtLeast(i) ==
  /\ Move(i, "count", IF completed + 1 >= shardCount THEN "enqueue" ELSE "return")
  /\ completed' = completed + 1
  /\ counted' = counted \cup {i}
  /\ UNCHANGED <<status, shardCount, manifest, shardVars, rqVars, snapshot,
                 reduceCalls, redone, aborts>>

\* _finalize_shard: UPDATE ... RETURNING, and the comparison of what it returned.
ShardCount(i) ==
  /\ Move(i, "count", IF completed + 1 = shardCount THEN "enqueue" ELSE "return")
  /\ completed' = completed + 1
  /\ counted' = counted \cup {i}
  /\ UNCHANGED <<status, shardCount, manifest, shardVars, rqVars, snapshot,
                 reduceCalls, redone, aborts>>

\* _finalize_shard: the enqueue after the commit.
ShardEnqueue(i) ==
  /\ pc[i] = "enqueue"
  /\ pc' = [pc EXCEPT ![i] = "return", ![Reduce] = "queued"]
  /\ queue' = Append(queue, Reduce)
  /\ reduceCalls' = reduceCalls + 1
  /\ UNCHANGED <<jobVars, shardVars, retriesLeft, snapshot, counted, redone, aborts>>

RunShard(i) == \/ ShardBegin(i) \/ ShardExtract(i) \/ ShardDies(i) \/ ShardFails(i)
               \/ ShardMark(i) \/ ShardCount(i) \/ ShardEnqueue(i)

-----------------------------------------------------------------------------
(***************************************************************************)
(* reduce_job                                                              *)
(***************************************************************************)

\* Mutant of ReduceBegin: failed_shards lists the failed rows, not the dead ones.
ReduceBeginFailedOnly ==
  /\ Move(Reduce, "begin", "assemble")
  /\ status' = "reducing"
  /\ snapshot' = Manifest(InStatus("succeeded"), InStatus("failed"))
  /\ UNCHANGED <<shardCount, completed, manifest, shardVars, rqVars, history>>

\* A succeeded row has its partial key, written in the same transaction.
ReduceBegin ==
  /\ Move(Reduce, "begin", "assemble")
  /\ status' = "reducing"
  /\ snapshot' = Manifest(InStatus("succeeded"), InStatus("dead"))
  /\ UNCHANGED <<shardCount, completed, manifest, shardVars, rqVars, history>>

\* get_bytes raises for a key with no object: every partial must be there.
ReduceAssemble ==
  /\ snapshot.merged \subseteq partials
  /\ Move(Reduce, "assemble", "publish")
  /\ UNCHANGED <<jobVars, shardVars, rqVars, history, snapshot>>

\* Mutant of ReducePublish: the manifest forgets the failed shards.
ReducePublishUnflagged ==
  /\ Move(Reduce, "publish", "return")
  /\ status' = "succeeded"
  /\ manifest' = [snapshot EXCEPT !.failed = {}]
  /\ UNCHANGED <<shardCount, completed, shardVars, rqVars, history, snapshot>>

ReducePublish ==
  /\ Move(Reduce, "publish", "return")
  /\ status' = "succeeded"
  /\ manifest' = snapshot
  /\ UNCHANGED <<shardCount, completed, shardVars, rqVars, history, snapshot>>

ReduceJob == ReduceBegin \/ ReduceAssemble \/ ReducePublish

-----------------------------------------------------------------------------

Next ==
  \/ Pop
  \/ PlanJob
  \/ \E i \in Shard : RunShard(i)
  \/ ReduceJob
  \/ \E t \in Task : Finish(t) \/ Abort(t)

Spec == Init /\ [][Next]_vars

\* Workers keep taking jobs and a started function keeps running; nothing makes
\* a run abort, and nothing makes an extraction succeed rather than fail.
Fairness ==
  /\ WF_vars(Pop)
  /\ WF_vars(PlanJob)
  /\ \A i \in Shard : WF_vars(RunShard(i))
  /\ WF_vars(ReduceJob)
  /\ \A t \in Task : WF_vars(Finish(t))

FairSpec == Spec /\ Fairness

-----------------------------------------------------------------------------
(***************************************************************************)
(* Properties                                                              *)
(***************************************************************************)

ManifestType == [written : BOOLEAN, merged : SUBSET Shard, failed : SUBSET Shard]

\* Every variable keeps its type, and a queue job is only ever at a step of its
\* own function: the rows, the RQ registries and the control points fit together.
TypeOK ==
  /\ status \in JobStatus
  /\ shardCount \in 0 .. MaxShards
  /\ completed \in Nat
  /\ manifest \in ManifestType
  /\ shardStatus \in [Shard -> RowStatus \cup {"none"}]
  /\ attempts \in [Shard -> Nat]
  /\ partials \subseteq Shard
  /\ queue \in Seq(Task)
  /\ retriesLeft \in [Shard -> 0 .. Retries]
  /\ pc \in [Task -> Step \cup Resting]
  /\ pc[Plan] \in PlanStep \cup Resting
  /\ pc[Reduce] \in ReduceStep \cup Resting
  /\ \A i \in Shard : pc[i] \in ShardStep \cup Resting
  /\ snapshot \in ManifestType
  /\ reduceCalls \in Nat
  /\ counted \subseteq Shard
  /\ redone \in BOOLEAN
  /\ aborts \in 0 .. MaxAborts

\* The reduce is enqueued at most once per job (the counter of design D8 fires
\* once), whatever runs are cut short and counted again by RQ's retries.
ReduceAtMostOnce == reduceCalls <= 1

\* A reduce that has read the shard rows finds every one of them succeeded or
\* dead, as long as no shard was started again after it was counted: nothing
\* is left out of the artifact without being listed as failed.
ReduceSeesEveryShard ==
  (snapshot.written /\ ~redone) => snapshot.merged \cup snapshot.failed = Rows

\* Whatever a reduce decided to merge is in the object store, although the
\* store and the shard rows are written in separate steps that may be cut
\* short and repeated while the reduce runs.
PartialsArePresent == snapshot.merged \subseteq partials

\* The completion counter is the number of shards counted, and each of these
\* has a final status, unless a counted shard was started again.
CounterIsExact ==
  ~redone => /\ completed = Cardinality(counted)
             /\ \A i \in counted : shardStatus[i] \in {"succeeded", "dead"}

\* A dead shard is never run again, so a manifest that lists it as failed stays
\* true: the attempt count of the row never runs ahead of RQ's retries.
DeadIsFinal ==
  [][\A i \in Shard : shardStatus[i] = "dead" => shardStatus'[i] = "dead"]_vars

\* A job whose runs are never cut short ends, succeeded or failed, whatever
\* extractions fail: retries and the counting of dead shards never leave it
\* waiting (config.py, "never hangs").
NeverHangs == <>(status \in Settled \/ aborts > 0)

\* The orchestrator implements the abstract job: seen through its row, a job only
\* moves forward through its lifecycle, publishes one manifest and accounts in it
\* for every shard as long as no counted shard was started again.
Job == INSTANCE TakeoffJob WITH sound <- ~redone
ImplementsJob == Job!Spec
=============================================================================
