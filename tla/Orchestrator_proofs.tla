------------------------- MODULE Orchestrator_proofs -------------------------
(***************************************************************************)
(* Proofs about Orchestrator, for every number of windows, attempts,       *)
(* workers and aborted runs.                                               *)
(***************************************************************************)
EXTENDS Orchestrator, TLAPS, FiniteSetTheorems, SequenceTheorems

\* What popping the queue leaves: its head is a task and so is every other entry.
LEMMA PopType ==
  ASSUME queue \in Seq(Task), queue # <<>>
  PROVE  /\ Head(queue) \in Task
         /\ Tail(queue) \in Seq(Task)
  OBVIOUS

\* A failed run keeps the RQ side well typed, whatever RQ decides about it.
LEMMA RunFailedType ==
  ASSUME TypeOK, NEW t \in Task, RunFailed(t)
  PROVE  /\ queue' \in Seq(Task)
         /\ retriesLeft' \in [Shard -> 0 .. Retries]
         /\ pc' \in [Task -> Step \cup Resting]
         /\ pc' = [pc EXCEPT ![t] = pc'[t]]
         /\ pc'[t] \in {"queued", "parked", "failed"}
<1> pc \in [Task -> Step \cup Resting] /\ queue \in Seq(Task)
    /\ retriesLeft \in [Shard -> 0 .. Retries]
  BY DEF TypeOK
<1>1. CASE t \in Shard /\ retriesLeft[t] > 0
  <2>1. retriesLeft' = [retriesLeft EXCEPT ![t] = @ - 1]
    BY <1>1 DEF RunFailed
  <2>2. \/ pc' = [pc EXCEPT ![t] = "queued"] /\ queue' = Append(queue, t)
        \/ pc' = [pc EXCEPT ![t] = "parked"] /\ queue' = queue
    BY <1>1 DEF RunFailed
  <2>3. queue' \in Seq(Task)
    BY <2>2, AppendProperties, SMTT(30)
  <2>4. retriesLeft' \in [Shard -> 0 .. Retries]
    BY <1>1, <2>1, BoundsAssumption DEF Retries
  <2> QED
    BY <2>2, <2>3, <2>4 DEF Resting
<1>2. CASE ~(t \in Shard /\ retriesLeft[t] > 0)
  BY <1>2 DEF RunFailed, rqVars, Resting
<1> QED
  BY <1>1, <1>2

\* What one round of the enqueue loop does to the shard it picks.
LEMMA DispatchPicks ==
  ASSUME TypeOK, Dispatch
  PROVE  \E i \in Shard :
           /\ i < shardCount
           /\ pc[i] = "idle"
           /\ pc' = [pc EXCEPT ![i] = "queued",
                               ![Plan] = IF i + 1 = shardCount THEN "return" ELSE @]
           /\ queue' = Append(queue, i)
<1>1. PICK i \in Rows :
        /\ pc[i] = "idle"
        /\ pc' = [pc EXCEPT ![i] = "queued",
                            ![Plan] = IF i + 1 = shardCount THEN "return" ELSE @]
        /\ queue' = Append(queue, i)
  BY Zenon DEF Dispatch
<1>2. i \in Shard /\ i < shardCount
  BY BoundsAssumption DEF TypeOK, Rows, Shard
<1> QED
  BY <1>1, <1>2

\* Every step keeps every variable in its type.
LEMMA TypeStep == TypeOK /\ [Next]_vars => TypeOK'
<1> SUFFICES ASSUME TypeOK, [Next]_vars PROVE TypeOK'
  OBVIOUS
<1> USE BoundsAssumption, TaskAssumption
<1>1. CASE Pop
  BY <1>1, PopType DEF Pop, TypeOK, jobVars, shardVars, history, Task, PlanStep,
     ShardStep, ReduceStep, Step, Resting
<1>2. CASE PlanJob
  <2>1. CASE PlanBegin
    BY <2>1 DEF PlanBegin, Move, TypeOK, shardVars, rqVars, history, JobStatus,
       PlanStep, Step, Task
  <2>2. CASE PlanSingle
    BY <2>2 DEF PlanSingle, Move, TypeOK, jobVars, shardVars, rqVars, history,
       PlanStep, Step, Task
  <2>3. CASE PlanSharded
    BY <2>3 DEF PlanSharded, Move, TypeOK, rqVars, history, JobStatus, RowStatus,
       PlanStep, Step, Task
  <2>4. CASE Dispatch
    <3>1. PICK i \in Shard :
            /\ pc' = [pc EXCEPT ![i] = "queued",
                                ![Plan] = IF i + 1 = shardCount THEN "return" ELSE @]
            /\ queue' = Append(queue, i)
      BY <2>4, DispatchPicks
    <3>2. queue' \in Seq(Task)
      BY <3>1, AppendProperties DEF TypeOK, Task
    <3> QED
      BY <2>4, <3>1, <3>2 DEF Dispatch, TypeOK, jobVars, shardVars, history,
         PlanStep, ShardStep, Step, Resting, Task
  <2>5. CASE SingleBegin
    BY <2>5 DEF SingleBegin, Move, TypeOK, shardVars, rqVars, history, JobStatus,
       PlanStep, Step, Task
  <2>6. CASE SingleBuild
    BY <2>6 DEF SingleBuild, Move, TypeOK, jobVars, shardVars, rqVars, history,
       PlanStep, Step, Task
  <2>7. CASE SingleFails
    BY <2>7 DEF SingleFails, Move, TypeOK, shardVars, rqVars, history, JobStatus,
       Resting, Task
  <2>8. CASE SinglePublish
    BY <2>8 DEF SinglePublish, Move, TypeOK, shardVars, rqVars, history, JobStatus,
       PlanStep, Step, Task, Manifest, ManifestType
  <2> QED
    BY <1>2, <2>1, <2>2, <2>3, <2>4, <2>5, <2>6, <2>7, <2>8 DEF PlanJob
<1>3. ASSUME NEW i \in Shard, RunShard(i) PROVE TypeOK'
  <2>1. CASE ShardBegin(i)
    BY <2>1 DEF ShardBegin, Move, TypeOK, jobVars, rqVars, RowStatus, ShardStep,
       Step, Task
  <2>2. CASE ShardExtract(i)
    BY <2>2 DEF ShardExtract, Move, TypeOK, jobVars, rqVars, history, ShardStep,
       Step, Task
  <2>3. CASE ShardDies(i)
    BY <2>3 DEF ShardDies, Move, TypeOK, jobVars, rqVars, history, RowStatus,
       ShardStep, Step, Task
  <2>4. CASE ShardFails(i)
    BY <2>4, RunFailedType DEF ShardFails, TypeOK, jobVars, history, RowStatus,
       Resting, Task
  <2>5. CASE ShardMark(i)
    BY <2>5 DEF ShardMark, Move, TypeOK, jobVars, rqVars, history, RowStatus,
       ShardStep, Step, Task
  <2>6. CASE ShardCount(i)
    BY <2>6 DEF ShardCount, Move, TypeOK, shardVars, rqVars, ShardStep, Step, Task
  <2>7. CASE ShardEnqueue(i)
    <3>1. queue' \in Seq(Task)
      <4>1. queue \in Seq(Task) /\ Reduce \in Task /\ queue' = Append(queue, Reduce)
        BY <2>7 DEF ShardEnqueue, TypeOK, Task
      <4> QED
        BY <4>1, AppendProperties
    <3>2. pc' \in [Task -> Step \cup Resting]
      BY <2>7 DEF ShardEnqueue, TypeOK, ShardStep, Step, Resting, Task
    <3>3. /\ pc'[Plan] \in PlanStep \cup Resting
          /\ pc'[Reduce] \in ReduceStep \cup Resting
          /\ \A j \in Shard : pc'[j] \in ShardStep \cup Resting
      BY <2>7 DEF ShardEnqueue, TypeOK, ShardStep, Resting, Task
    <3>4. /\ reduceCalls' \in Nat
          /\ UNCHANGED <<jobVars, shardVars, retriesLeft, snapshot, counted, redone, aborts>>
      BY <2>7 DEF ShardEnqueue, TypeOK
    <3> QED
      BY <3>1, <3>2, <3>3, <3>4 DEF TypeOK, jobVars, shardVars
  <2> QED
    BY <1>3, <2>1, <2>2, <2>3, <2>4, <2>5, <2>6, <2>7 DEF RunShard
<1>4. CASE ReduceJob
  <2>1. CASE ReduceBegin
    <3>1. InStatus("succeeded") \subseteq Shard /\ InStatus("dead") \subseteq Shard
      BY DEF TypeOK, InStatus, Rows, Shard
    <3>2. snapshot' \in ManifestType
      BY <2>1, <3>1 DEF ReduceBegin, Manifest, ManifestType
    <3> QED
      BY <2>1, <3>2 DEF ReduceBegin, Move, TypeOK, shardVars, rqVars, history,
         JobStatus, ReduceStep, Step, Task
  <2>2. CASE ReduceAssemble
    BY <2>2 DEF ReduceAssemble, Move, TypeOK, jobVars, shardVars, rqVars, history,
       ReduceStep, Step, Task
  <2>3. CASE ReducePublish
    BY <2>3 DEF ReducePublish, Move, TypeOK, shardVars, rqVars, history, JobStatus,
       ReduceStep, Step, Task
  <2> QED
    BY <1>4, <2>1, <2>2, <2>3 DEF ReduceJob
<1>5. ASSUME NEW t \in Task, Finish(t) PROVE TypeOK'
  BY <1>5 DEF Finish, Move, TypeOK, jobVars, shardVars, rqVars, history, Resting, Task
<1>6. ASSUME NEW t \in Task, Abort(t) PROVE TypeOK'
  <2>1. /\ queue' \in Seq(Task)
        /\ retriesLeft' \in [Shard -> 0 .. Retries]
        /\ pc' \in [Task -> Step \cup Resting]
        /\ pc' = [pc EXCEPT ![t] = pc'[t]]
        /\ pc'[t] \in Resting
    BY <1>6, RunFailedType DEF Abort, Resting
  <2>2. /\ pc'[Plan] \in PlanStep \cup Resting
        /\ pc'[Reduce] \in ReduceStep \cup Resting
        /\ \A i \in Shard : pc'[i] \in ShardStep \cup Resting
    BY <2>1 DEF TypeOK, Task
  <2>3. aborts' \in 0 .. MaxAborts
    BY <1>6 DEF Abort, TypeOK
  <2> QED
    BY <1>6, <2>1, <2>2, <2>3 DEF Abort, TypeOK, jobVars, shardVars
<1>7. CASE UNCHANGED vars
  BY <1>7 DEF vars, TypeOK, jobVars, shardVars, rqVars, history
<1> QED
  BY <1>1, <1>2, <1>3, <1>4, <1>5, <1>6, <1>7 DEF Next

\* The fan-out keeps its state well typed for every bound.
THEOREM TypeCorrect == Spec => []TypeOK
<1>1. Init => TypeOK
  <2> SUFFICES ASSUME Init PROVE TypeOK
    OBVIOUS
  <2>1. queue \in Seq(Task)
    BY DEF Init, Task
  <2>2. /\ pc \in [Task -> Step \cup Resting]
        /\ pc[Plan] \in Resting /\ pc[Reduce] \in Resting
        /\ \A i \in Shard : pc[i] \in Resting
    BY TaskAssumption DEF Init, Task, Resting
  <2>3. /\ retriesLeft \in [Shard -> 0 .. Retries]
        /\ shardCount \in 0 .. MaxShards /\ aborts \in 0 .. MaxAborts
    BY BoundsAssumption DEF Init, Retries
  <2> QED
    BY <2>1, <2>2, <2>3 DEF Init, TypeOK, JobStatus, ManifestType, NoManifest
<1> QED
  BY <1>1, TypeStep, PTL DEF Spec

-----------------------------------------------------------------------------
(***************************************************************************)
(* The reduce is enqueued once.  TypeOK and ReduceAtMostOnce are not       *)
(* inductive: that no second shard trips the counter needs the counter to  *)
(* have reached shard_count for good (OneTrip), which needs shard_count    *)
(* not to change after shards ran (PlanFirst), which needs the plan job    *)
(* not to be taken from the queue twice (QueueFaithful).                   *)
(***************************************************************************)

\* The Redis list holds jobs RQ marks as queued, each once.
QueueFaithful ==
  /\ \A k \in 1 .. Len(queue) : pc[queue[k]] = "queued"
  /\ \A k, l \in 1 .. Len(queue) : queue[k] = queue[l] => k = l

\* Until the fan-out is committed no shard is queued, counted or marked.
PlanFirst ==
  pc[Plan] \in {"queued", "begin", "plan"} =>
    /\ \A i \in Shard : pc[i] = "idle" /\ shardStatus[i] = "none"
    /\ completed = 0
    /\ reduceCalls = 0
    /\ counted = {}

\* At most one shard is between tripping the counter and enqueueing the reduce,
\* and none is once the reduce was enqueued.
OneTrip ==
  /\ \A i, j \in Shard : (pc[i] = "enqueue" /\ pc[j] = "enqueue") => i = j
  /\ \A i \in Shard : pc[i] = "enqueue" => (reduceCalls = 0 /\ completed >= shardCount)
  /\ reduceCalls > 0 => completed >= shardCount
  /\ reduceCalls = 0 => pc[Reduce] = "idle"

OnceInv == QueueFaithful /\ PlanFirst /\ OneTrip /\ ReduceAtMostOnce

\* A step leaves the queue and what is queued alone, appends a job that was not
\* queued, or pops.
LEMMA QueueShape ==
  ASSUME TypeOK, OneTrip, ReduceAtMostOnce, [Next]_vars
  PROVE  \/ /\ queue' = queue
            /\ \A t \in Task : pc[t] = "queued" => pc'[t] = "queued"
         \/ /\ \E t \in Task : /\ pc[t] # "queued"
                              /\ pc'[t] = "queued"
                              /\ queue' = Append(queue, t)
            /\ \A t \in Task : pc[t] = "queued" => pc'[t] = "queued"
         \/ Pop
<1> USE BoundsAssumption, TaskAssumption
<1> pc \in [Task -> Step \cup Resting]
  BY DEF TypeOK
<1>1. CASE PlanJob /\ ~Dispatch
  BY <1>1 DEF PlanJob, PlanBegin, PlanSingle, PlanSharded, SingleBegin, SingleBuild,
     SingleFails, SinglePublish, Move, rqVars, Task
<1>2. CASE Dispatch
  <2>1. PICK i \in Shard :
          /\ pc[i] = "idle"
          /\ pc' = [pc EXCEPT ![i] = "queued",
                              ![Plan] = IF i + 1 = shardCount THEN "return" ELSE @]
          /\ queue' = Append(queue, i)
    BY <1>2, DispatchPicks
  <2>2. pc[Plan] = "dispatch" /\ i \in Task /\ i # Plan
    BY <1>2 DEF Dispatch, Task
  <2> QED
    BY <2>1, <2>2
<1>3. ASSUME NEW i \in Shard, RunShard(i), ~ShardFails(i), ~ShardEnqueue(i)
      PROVE  queue' = queue /\ \A t \in Task : pc[t] = "queued" => pc'[t] = "queued"
  BY <1>3 DEF RunShard, ShardBegin, ShardExtract, ShardDies, ShardMark, ShardCount,
     Move, rqVars, Task
<1>4. ASSUME NEW i \in Shard, ShardEnqueue(i)
      PROVE  /\ pc[Reduce] # "queued" /\ pc'[Reduce] = "queued" /\ Reduce \in Task
             /\ queue' = Append(queue, Reduce)
             /\ \A t \in Task : pc[t] = "queued" => pc'[t] = "queued"
  BY <1>4 DEF ShardEnqueue, OneTrip, Task
<1>5. ASSUME NEW t \in Task, RunFailed(t), pc[t] \in Step
      PROVE  /\ \/ queue' = queue
                \/ pc[t] # "queued" /\ pc'[t] = "queued" /\ queue' = Append(queue, t)
             /\ \A u \in Task : pc[u] = "queued" => pc'[u] = "queued"
  BY <1>5 DEF RunFailed, rqVars, Step, PlanStep, ShardStep, ReduceStep
<1>6. CASE ReduceJob
  BY <1>6 DEF ReduceJob, ReduceBegin, ReduceAssemble, ReducePublish, Move, rqVars, Task
<1>7. ASSUME NEW t \in Task, Finish(t)
      PROVE  queue' = queue /\ \A u \in Task : pc[u] = "queued" => pc'[u] = "queued"
  BY <1>7 DEF Finish, Move, rqVars
<1>8. CASE UNCHANGED vars
  BY <1>8 DEF vars, rqVars
<1>9. ASSUME NEW i \in Shard, ShardFails(i) PROVE RunFailed(i) /\ pc[i] \in Step
  BY <1>9 DEF ShardFails, Step, ShardStep
<1>10. ASSUME NEW t \in Task, Abort(t) PROVE RunFailed(t) /\ pc[t] \in Step
  BY <1>10 DEF Abort
<1> QED
  BY <1>1, <1>2, <1>3, <1>4, <1>5, <1>6, <1>7, <1>8, <1>9, <1>10 DEF Next, Task

\* The queue stays faithful to what RQ marks as queued.
LEMMA QueueStep ==
  ASSUME TypeOK, QueueFaithful, OneTrip, ReduceAtMostOnce, [Next]_vars
  PROVE  QueueFaithful'
<1> USE DEF QueueFaithful
<1>1. queue \in Seq(Task) /\ \A k \in 1 .. Len(queue) : queue[k] \in Task
  BY DEF TypeOK
<1>2. CASE /\ queue' = queue
           /\ \A t \in Task : pc[t] = "queued" => pc'[t] = "queued"
  BY <1>1, <1>2
<1>3. ASSUME NEW t \in Task, pc[t] # "queued", pc'[t] = "queued",
             queue' = Append(queue, t),
             \A u \in Task : pc[u] = "queued" => pc'[u] = "queued"
      PROVE  QueueFaithful'
  <2>1. /\ Len(queue') = Len(queue) + 1
        /\ \A k \in 1 .. Len(queue) : queue'[k] = queue[k]
        /\ queue'[Len(queue) + 1] = t
    BY <1>1, <1>3, AppendProperties
  <2>2. \A k \in 1 .. Len(queue) : queue[k] # t
    BY <1>3
  <2> QED
    BY <1>1, <1>3, <2>1, <2>2
<1>4. CASE Pop
  <2>1. /\ Len(queue') = Len(queue) - 1
        /\ \A k \in 1 .. Len(queue') : queue'[k] = queue[k + 1]
        /\ Head(queue) = queue[1]
    BY <1>1, <1>4 DEF Pop
  <2>2. \A k \in 1 .. Len(queue') : queue'[k] # Head(queue) /\ pc[queue'[k]] = "queued"
    BY <1>1, <2>1
  <2>3. pc' = [pc EXCEPT ![Head(queue)] = "begin"]
    BY <1>4 DEF Pop
  <2>4. \A k \in 1 .. Len(queue') : pc'[queue'[k]] = "queued"
    BY <1>1, <2>1, <2>2, <2>3 DEF TypeOK
  <2>5. \A k, l \in 1 .. Len(queue') : queue'[k] = queue'[l] => k = l
    BY <1>1, <2>1
  <2> QED
    BY <2>4, <2>5
<1> QED
  BY <1>2, <1>3, <1>4, QueueShape

\* A run that failed leaves RQ's hands as a retry, and only a shard's can.
LEMMA RunFailedRetries ==
  ASSUME TypeOK, NEW t \in Task, RunFailed(t)
  PROVE  /\ pc'[t] = "queued" => t \in Shard
         /\ \A u \in Task : u # t => pc'[u] = pc[u]
         /\ pc'[t] \notin Step
<1>1. pc'[t] \notin Step
  BY RunFailedType DEF Step, PlanStep, ShardStep, ReduceStep
<1>2. \A u \in Task : u # t => pc'[u] = pc[u]
  BY RunFailedType DEF TypeOK
<1>3. t \notin Shard => pc'[t] = "failed"
  BY DEF RunFailed, TypeOK
<1> QED
  BY <1>1, <1>2, <1>3

\* The plan job is never run again, so nothing precedes the fan-out.
LEMMA PlanFirstStep ==
  ASSUME TypeOK, QueueFaithful, PlanFirst, OneTrip, [Next]_vars
  PROVE  PlanFirst'
<1> USE TaskAssumption DEF PlanFirst
<1> pc \in [Task -> Step \cup Resting] /\ Plan \in Task /\ Shard \subseteq Task
    /\ Reduce \in Task
  BY DEF TypeOK, Task
<1> DEFINE Early == {"queued", "begin", "plan"}
<1>1. CASE Pop
  <2>1. Head(queue) \in Task /\ pc[Head(queue)] = "queued"
    BY <1>1, PopType DEF Pop, TypeOK, QueueFaithful
  <2>2. pc[Plan] \in Early => Head(queue) \notin Shard
    BY <2>1
  <2>3. pc'[Plan] \in Early => pc[Plan] \in Early
    BY <1>1, <2>1 DEF Pop
  <2> QED
    BY <1>1, <2>2, <2>3 DEF Pop, jobVars, shardVars, history
<1>2. CASE PlanJob
  <2>1. CASE PlanBegin
    BY <2>1 DEF PlanBegin, Move, shardVars, history
  <2>2. CASE ~PlanBegin /\ ~Dispatch
    BY <1>2, <2>2 DEF PlanJob, PlanSingle, PlanSharded, SingleBegin, SingleBuild,
       SingleFails, SinglePublish, Move
  <2>3. CASE Dispatch
    BY <2>3, DispatchPicks DEF Dispatch
  <2> QED
    BY <1>2, <2>1, <2>2, <2>3
<1>3. ASSUME NEW i \in Shard, RunShard(i) PROVE PlanFirst'
  <2>1. pc[i] \in ShardStep
    BY <1>3 DEF RunShard, ShardBegin, ShardExtract, ShardDies, ShardFails, ShardMark,
       ShardCount, ShardEnqueue, Move, ShardStep
  <2>2. pc[Plan] \notin Early
    BY <2>1 DEF ShardStep
  <2>3. pc'[Plan] = pc[Plan]
    BY <1>3, RunFailedRetries DEF RunShard, ShardBegin, ShardExtract, ShardDies,
       ShardFails, ShardMark, ShardCount, ShardEnqueue, Move
  <2> QED
    BY <2>2, <2>3
<1>4. CASE ReduceJob
  <2>1. /\ \A u \in Task : u # Reduce => pc'[u] = pc[u]
        /\ UNCHANGED <<completed, shardStatus, reduceCalls, counted>>
    BY <1>4 DEF ReduceJob, ReduceBegin, ReduceAssemble, ReducePublish, Move, jobVars,
       shardVars, history
  <2> QED
    BY <2>1
<1>5. ASSUME NEW t \in Task, Finish(t) PROVE PlanFirst'
  BY <1>5 DEF Finish, Move, jobVars, shardVars, history
<1>6. ASSUME NEW t \in Task, Abort(t) PROVE PlanFirst'
  <2>1. RunFailed(t) /\ pc[t] \in Step
    BY <1>6 DEF Abort
  <2>2. CASE t = Plan
    BY <2>1, <2>2, RunFailedType, RunFailedRetries DEF Step, PlanStep
  <2>3. CASE t # Plan
    BY <1>6, <2>1, <2>3, RunFailedRetries DEF Abort, jobVars, shardVars, Step,
       PlanStep, ShardStep, ReduceStep
  <2> QED
    BY <2>2, <2>3
<1>7. CASE UNCHANGED vars
  BY <1>7 DEF vars, jobVars, shardVars, history
<1> QED
  BY <1>1, <1>2, <1>3, <1>4, <1>5, <1>6, <1>7 DEF Next

\* The counter is tripped once: it only grows, and shard_count is fixed by then.
LEMMA OneTripStep ==
  ASSUME TypeOK, QueueFaithful, PlanFirst, OneTrip, ReduceAtMostOnce, [Next]_vars
  PROVE  OneTrip' /\ ReduceAtMostOnce'
<1> USE TaskAssumption DEF OneTrip, ReduceAtMostOnce
<1> /\ pc \in [Task -> Step \cup Resting] /\ Plan \in Task /\ Shard \subseteq Task
    /\ Reduce \in Task /\ completed \in Nat /\ shardCount \in Nat /\ reduceCalls \in Nat
  BY DEF TypeOK, Task
<1>1. CASE Pop
  <2>1. Head(queue) \in Task /\ pc[Head(queue)] = "queued"
    BY <1>1, PopType DEF Pop, TypeOK, QueueFaithful
  <2> QED
    BY <1>1, <2>1 DEF Pop, jobVars, history
<1>2. CASE PlanJob
  <2>1. CASE PlanSharded
    <3>1. pc[Plan] = "plan" /\ reduceCalls' = reduceCalls
      BY <2>1 DEF PlanSharded, Move, history
    <3>2. \A u \in Task : u # Plan => pc'[u] = pc[u]
      BY <2>1 DEF PlanSharded, Move
    <3> QED
      BY <3>1, <3>2 DEF PlanFirst
  <2>2. CASE Dispatch
    <3>1. PICK i \in Shard :
            pc' = [pc EXCEPT ![i] = "queued",
                             ![Plan] = IF i + 1 = shardCount THEN "return" ELSE @]
      BY <2>2, DispatchPicks
    <3>2. /\ pc[Plan] = "dispatch" /\ i # Reduce /\ i # Plan
          /\ UNCHANGED <<completed, shardCount, reduceCalls>>
      BY <2>2 DEF Dispatch, jobVars, history
    <3>3. /\ \A u \in Shard : pc'[u] = "enqueue" => pc[u] = "enqueue"
          /\ pc'[Reduce] = pc[Reduce]
      BY <3>1, <3>2
    <3> QED
      BY <3>2, <3>3
  <2>3. CASE ~PlanSharded /\ ~Dispatch
    <3>1. /\ \A u \in Task : u # Plan => pc'[u] = pc[u]
          /\ UNCHANGED <<completed, shardCount, reduceCalls>>
      BY <1>2, <2>3 DEF PlanJob, PlanBegin, PlanSingle, SingleBegin, SingleBuild,
         SingleFails, SinglePublish, Move, jobVars, history
    <3> QED
      BY <3>1
  <2> QED
    BY <2>1, <2>2, <2>3
<1>3. ASSUME NEW i \in Shard, RunShard(i) PROVE OneTrip' /\ ReduceAtMostOnce'
  <2>1. CASE ShardCount(i)
    BY <2>1 DEF ShardCount, Move
  <2>2. CASE ShardEnqueue(i)
    BY <2>2 DEF ShardEnqueue, jobVars
  <2>3. CASE ~ShardCount(i) /\ ~ShardEnqueue(i)
    <3>1. /\ \A u \in Task : u # i => pc'[u] = pc[u]
          /\ pc'[i] # "enqueue"
          /\ UNCHANGED <<completed, shardCount, reduceCalls>>
      BY <1>3, <2>3, RunFailedRetries DEF RunShard, ShardBegin, ShardExtract, ShardDies,
         ShardFails, ShardMark, Move, jobVars, history, Step, ShardStep
    <3> QED
      BY <3>1
  <2> QED
    BY <2>1, <2>2, <2>3
<1>4. ASSUME NEW t \in Task,
             pc[t] # "idle",
             \A u \in Task : u # t => pc'[u] = pc[u],
             pc'[t] # "enqueue",
             UNCHANGED <<completed, shardCount, reduceCalls>>
      PROVE  OneTrip' /\ ReduceAtMostOnce'
  BY <1>4
<1>5. CASE ReduceJob
  <2>1. /\ \A u \in Task : u # Reduce => pc'[u] = pc[u]
        /\ pc[Reduce] # "idle"
        /\ pc'[Reduce] # "enqueue"
        /\ UNCHANGED <<completed, shardCount, reduceCalls>>
    BY <1>5 DEF ReduceJob, ReduceBegin, ReduceAssemble, ReducePublish, Move, jobVars,
       history
  <2> QED
    BY <1>4, <2>1
<1>6. ASSUME NEW t \in Task, Finish(t) PROVE OneTrip' /\ ReduceAtMostOnce'
  BY <1>4, <1>6 DEF Finish, Move, jobVars, history
<1>7. ASSUME NEW t \in Task, Abort(t) PROVE OneTrip' /\ ReduceAtMostOnce'
  BY <1>4, <1>7, RunFailedRetries DEF Abort, jobVars, Step, PlanStep, ShardStep, ReduceStep
<1>8. CASE UNCHANGED vars
  BY <1>8 DEF vars, jobVars, history
<1> QED
  BY <1>1, <1>2, <1>3, <1>5, <1>6, <1>7, <1>8 DEF Next

\* The inductive invariant behind the single reduce, for every bound.
THEOREM OnceInvariant == Spec => []OnceInv
<1>1. Init => OnceInv
  <2> SUFFICES ASSUME Init PROVE OnceInv
    OBVIOUS
  <2>1. QueueFaithful
    BY DEF Init, QueueFaithful, Task
  <2>2. PlanFirst
    BY TaskAssumption DEF Init, PlanFirst, Task
  <2>3. OneTrip /\ ReduceAtMostOnce
    BY TaskAssumption DEF Init, OneTrip, ReduceAtMostOnce, Task
  <2> QED
    BY <2>1, <2>2, <2>3 DEF OnceInv
<1>2. TypeOK /\ OnceInv /\ [Next]_vars => OnceInv'
  BY QueueStep, PlanFirstStep, OneTripStep DEF OnceInv
<1> QED
  BY <1>1, <1>2, TypeCorrect, PTL DEF Spec

\* However runs are interleaved, cut short and retried, one job enqueues at most
\* one reduce.
THEOREM ReduceOnce == Spec => []ReduceAtMostOnce
BY OnceInvariant, PTL DEF OnceInv

-----------------------------------------------------------------------------
(***************************************************************************)
(* Nothing is dropped silently while no counted shard is started again.    *)
(* The counter then is the size of a set of shards with a final status     *)
(* (CounterIsExact), so that it reaches shard_count only when the set is   *)
(* all of them: the reduce, enqueued no earlier, reads only final rows.    *)
(***************************************************************************)

\* Where the rows, the store and the run of a shard stand to each other.
RowsFollowRuns ==
  \A i \in Shard :
    /\ pc[i] # "idle" => i < shardCount
    /\ pc[i] = "count" => shardStatus[i] \in {"succeeded", "dead"}
    /\ pc[i] = "mark" => i \in partials
    /\ shardStatus[i] = "succeeded" => i \in partials
    /\ i \in counted => pc[i] # "idle"

\* A shard that was counted is not on its way to be counted again.
CountedOnce ==
  ~redone => \A i \in counted : pc[i] \notin {"extract", "mark", "count"}

\* A reduce has read the rows only if it was enqueued.
SnapshotIsLate == snapshot.written => reduceCalls > 0

DropInv == /\ RowsFollowRuns /\ CountedOnce /\ SnapshotIsLate
           /\ CounterIsExact /\ PartialsArePresent /\ ReduceSeesEveryShard

\* A step that touches no row, no object and no history of the counts, and moves
\* shards only out of the steps before the count, disturbs nothing.
Quiet ==
  /\ UNCHANGED <<shardCount, completed, shardStatus, partials, snapshot, counted, redone>>
  /\ reduceCalls' \in Nat /\ reduceCalls' >= reduceCalls
  /\ \A i \in Shard : \/ pc'[i] = pc[i]
                      \/ /\ i < shardCount
                         /\ pc'[i] \notin {"idle", "extract", "mark", "count"}

LEMMA QuietStep ==
  ASSUME TypeOK, DropInv, Quiet
  PROVE  DropInv'
<1> USE DEF Quiet, DropInv
<1>1. RowsFollowRuns'
  BY DEF RowsFollowRuns, TypeOK
<1>2. CountedOnce'
  BY DEF CountedOnce, TypeOK
<1>3. SnapshotIsLate'
  BY DEF SnapshotIsLate, TypeOK
<1>4. CounterIsExact' /\ PartialsArePresent' /\ ReduceSeesEveryShard'
  BY DEF CounterIsExact, PartialsArePresent, ReduceSeesEveryShard, Rows
<1> QED
  BY <1>1, <1>2, <1>3, <1>4

\* The counted shards are among the rows, so there are at most shard_count of them.
LEMMA CountedBound ==
  ASSUME TypeOK, RowsFollowRuns
  PROVE  /\ IsFiniteSet(counted)
         /\ Cardinality(counted) <= shardCount
         /\ Cardinality(counted) = shardCount => counted = Rows
<1>1. shardCount \in Nat /\ Shard \subseteq Nat
  BY BoundsAssumption DEF TypeOK, Shard
<1>2. counted \in SUBSET Rows
  BY <1>1 DEF TypeOK, RowsFollowRuns, Rows, Shard
<1>3. IsFiniteSet(Rows) /\ Cardinality(Rows) = shardCount
  BY <1>1, FS_Interval DEF Rows
<1> QED
  BY <1>2, <1>3, FS_Subset

\* Counting a shard for the first time keeps the counter exact.
LEMMA CountStep ==
  ASSUME TypeOK, DropInv, NEW i \in Shard, ShardCount(i)
  PROVE  DropInv'
<1> USE DEF DropInv
<1>1. /\ pc[i] = "count"
      /\ pc' = [pc EXCEPT ![i] = pc'[i]] /\ pc'[i] \in {"enqueue", "return"}
      /\ completed' = completed + 1 /\ counted' = counted \cup {i}
      /\ UNCHANGED <<shardCount, shardStatus, partials, snapshot, reduceCalls, redone>>
  BY DEF ShardCount, Move, TypeOK, Task, shardVars
<1>2. RowsFollowRuns' /\ CountedOnce'
  BY <1>1 DEF RowsFollowRuns, CountedOnce, TypeOK, Task
<1>3. ~redone => i \notin counted
  BY <1>1 DEF CountedOnce
<1>4. ~redone => completed' = Cardinality(counted')
  BY <1>1, <1>3, CountedBound, FS_AddElement, ZenonT(60) DEF CounterIsExact
<1>5. CounterIsExact'
  BY <1>1, <1>4 DEF CounterIsExact, RowsFollowRuns
<1>6. SnapshotIsLate' /\ PartialsArePresent' /\ ReduceSeesEveryShard'
  BY <1>1 DEF SnapshotIsLate, PartialsArePresent, ReduceSeesEveryShard, Rows
<1> QED
  BY <1>2, <1>5, <1>6

\* The reduce reads the rows when the counter has covered them all.
LEMMA ReadStep ==
  ASSUME TypeOK, OneTrip, DropInv, ReduceBegin
  PROVE  DropInv'
<1> USE DEF DropInv
<1>1. /\ pc[Reduce] = "begin"
      /\ \A i \in Shard : pc'[i] = pc[i]
      /\ snapshot' = Manifest(InStatus("succeeded"), InStatus("dead"))
      /\ UNCHANGED <<shardCount, completed, shardStatus, partials, reduceCalls, counted, redone>>
  BY TaskAssumption DEF ReduceBegin, Move, TypeOK, Task, shardVars, history
<1>2. reduceCalls > 0 /\ completed >= shardCount
  BY <1>1 DEF OneTrip, TypeOK
<1>3. ~redone => counted = Rows
  BY <1>2, CountedBound DEF CounterIsExact, TypeOK
<1>4. ~redone => InStatus("succeeded") \cup InStatus("dead") = Rows
  BY <1>3 DEF CounterIsExact, InStatus
<1>5. InStatus("succeeded") \subseteq partials
  BY BoundsAssumption DEF RowsFollowRuns, InStatus, Rows, Shard, TypeOK
<1>6. /\ snapshot'.written /\ snapshot'.merged = InStatus("succeeded")
      /\ snapshot'.failed = InStatus("dead")
  BY <1>1 DEF Manifest
<1>7. PartialsArePresent' /\ ReduceSeesEveryShard' /\ SnapshotIsLate'
  BY <1>1, <1>2, <1>4, <1>5, <1>6 DEF PartialsArePresent, ReduceSeesEveryShard,
     SnapshotIsLate, Rows
<1>8. RowsFollowRuns' /\ CountedOnce' /\ CounterIsExact'
  BY <1>1 DEF RowsFollowRuns, CountedOnce, CounterIsExact, TypeOK
<1> QED
  BY <1>7, <1>8

\* The steps of a shard that write its row or its partial.
LEMMA ShardWriteStep ==
  ASSUME TypeOK, DropInv, NEW i \in Shard,
         ShardBegin(i) \/ ShardExtract(i) \/ ShardDies(i) \/ ShardFails(i) \/ ShardMark(i)
  PROVE  DropInv'
<1> USE DEF DropInv
<1>0. /\ pc \in [Task -> Step \cup Resting] /\ i \in Task /\ Shard \subseteq Task
      /\ shardStatus \in [Shard -> RowStatus \cup {"none"}]
      /\ counted \subseteq Shard /\ shardCount \in Nat /\ completed \in Nat
  BY DEF TypeOK, Task
<1>1. CASE ShardBegin(i)
  <2>1. RowsFollowRuns' /\ CountedOnce' /\ CounterIsExact'
    BY <1>0, <1>1 DEF ShardBegin, Move, jobVars, RowsFollowRuns, CountedOnce, CounterIsExact
  <2>2. SnapshotIsLate' /\ PartialsArePresent' /\ ReduceSeesEveryShard'
    BY <1>1 DEF ShardBegin, jobVars, SnapshotIsLate, PartialsArePresent,
       ReduceSeesEveryShard, Rows
  <2> QED
    BY <2>1, <2>2
<1>2. CASE ShardExtract(i)
  <2>1. RowsFollowRuns' /\ CountedOnce' /\ CounterIsExact'
    BY <1>0, <1>2 DEF ShardExtract, Move, jobVars, history, RowsFollowRuns, CountedOnce,
       CounterIsExact
  <2>2. SnapshotIsLate' /\ PartialsArePresent' /\ ReduceSeesEveryShard'
    BY <1>2 DEF ShardExtract, jobVars, history, SnapshotIsLate, PartialsArePresent,
       ReduceSeesEveryShard, Rows
  <2> QED
    BY <2>1, <2>2
<1>3. CASE ShardDies(i) \/ ShardFails(i) \/ ShardMark(i)
  <2>1. /\ pc[i] \in {"extract", "mark"}
        /\ pc'[i] \notin {"idle", "extract", "mark"}
        /\ \A u \in Shard : u # i => pc'[u] = pc[u]
        /\ \E s \in {"dead", "failed", "succeeded"} :
             /\ shardStatus' = [shardStatus EXCEPT ![i] = s]
             /\ pc'[i] = "count" => s # "failed"
             /\ s = "succeeded" => pc[i] = "mark"
        /\ UNCHANGED <<shardCount, completed, partials, snapshot, reduceCalls, counted, redone>>
    BY <1>0, <1>3, RunFailedType, RunFailedRetries DEF ShardDies, ShardFails, ShardMark,
       Move, jobVars, history
  <2>2. ~redone => i \notin counted
    BY <2>1 DEF CountedOnce
  <2>3. RowsFollowRuns' /\ CountedOnce' /\ CounterIsExact'
    BY <1>0, <2>1, <2>2 DEF RowsFollowRuns, CountedOnce, CounterIsExact
  <2>4. SnapshotIsLate' /\ PartialsArePresent' /\ ReduceSeesEveryShard'
    BY <2>1 DEF SnapshotIsLate, PartialsArePresent, ReduceSeesEveryShard, Rows
  <2> QED
    BY <2>3, <2>4
<1> QED
  BY <1>1, <1>2, <1>3

\* The fan-out transaction precedes every count and every reduce.
LEMMA FanOutStep ==
  ASSUME TypeOK, PlanFirst, DropInv, PlanSharded
  PROVE  DropInv'
<1>1. /\ \A i \in Shard : pc[i] = "idle" /\ pc'[i] = pc[i]
      /\ \A i \in Shard : shardStatus'[i] \in {"none", "queued"}
      /\ completed' = 0 /\ counted' = {} /\ reduceCalls' = 0
      /\ UNCHANGED <<partials, snapshot>>
  BY TaskAssumption DEF PlanSharded, Move, PlanFirst, TypeOK, Task, history
<1>2. ~snapshot.written
  BY <1>1 DEF DropInv, SnapshotIsLate, PlanFirst, PlanSharded, Move
<1> QED
  BY <1>1, <1>2, FS_EmptySet DEF DropInv, RowsFollowRuns, CountedOnce, SnapshotIsLate,
     CounterIsExact, PartialsArePresent, ReduceSeesEveryShard

\* Every step keeps the counts, the rows, the partials and the snapshot together.
LEMMA DropStep ==
  ASSUME TypeOK, OnceInv, DropInv, [Next]_vars
  PROVE  DropInv'
<1> USE TaskAssumption
<1>0. /\ pc \in [Task -> Step \cup Resting] /\ Shard \subseteq Task
      /\ Plan \in Task /\ Reduce \in Task /\ reduceCalls \in Nat
      /\ \A i \in Shard : pc[i] # "idle" => i < shardCount
  BY DEF TypeOK, Task, DropInv, RowsFollowRuns
<1>1. CASE Pop
  <2>1. Head(queue) \in Task /\ pc[Head(queue)] = "queued"
    BY <1>1, PopType DEF Pop, TypeOK, OnceInv, QueueFaithful
  <2>2. Quiet
    BY <1>0, <1>1, <2>1 DEF Pop, Quiet, jobVars, shardVars, history
  <2> QED
    BY <2>2, QuietStep
<1>2. CASE PlanJob
  <2>1. CASE PlanSharded
    BY <2>1, FanOutStep DEF OnceInv
  <2>2. CASE Dispatch
    <3>1. PICK i \in Shard :
            /\ i < shardCount
            /\ pc' = [pc EXCEPT ![i] = "queued",
                                ![Plan] = IF i + 1 = shardCount THEN "return" ELSE @]
      BY <2>2, DispatchPicks
    <3>2. UNCHANGED <<jobVars, shardVars, history, snapshot>>
      BY <2>2 DEF Dispatch
    <3>3. Quiet
      BY <1>0, <3>1, <3>2 DEF Quiet, jobVars, shardVars, history
    <3> QED
      BY <3>3, QuietStep
  <2>3. CASE ~PlanSharded /\ ~Dispatch
    <3>1. Quiet
      BY <1>0, <1>2, <2>3 DEF PlanJob, PlanBegin, PlanSingle, SingleBegin, SingleBuild,
         SingleFails, SinglePublish, Move, Quiet, jobVars, shardVars, history
    <3> QED
      BY <3>1, QuietStep
  <2> QED
    BY <2>1, <2>2, <2>3
<1>3. ASSUME NEW i \in Shard, RunShard(i) PROVE DropInv'
  <2>1. CASE ShardEnqueue(i)
    <3>1. Quiet
      BY <1>0, <2>1 DEF ShardEnqueue, Quiet, jobVars, shardVars
    <3> QED
      BY <3>1, QuietStep
  <2> QED
    BY <1>3, <2>1, CountStep, ShardWriteStep DEF RunShard
<1>4. CASE ReduceJob
  <2>1. CASE ReduceBegin
    BY <2>1, ReadStep DEF OnceInv
  <2>2. CASE ~ReduceBegin
    <3>1. Quiet
      BY <1>0, <1>4, <2>2 DEF ReduceJob, ReduceAssemble, ReducePublish, Move, Quiet,
         jobVars, shardVars, history
    <3> QED
      BY <3>1, QuietStep
  <2> QED
    BY <2>1, <2>2
<1>5. ASSUME NEW t \in Task, Finish(t) PROVE Quiet
  BY <1>0, <1>5 DEF Finish, Move, Quiet, jobVars, shardVars, history
<1>6. ASSUME NEW t \in Task, Abort(t) PROVE Quiet
  BY <1>0, <1>6, RunFailedType, RunFailedRetries DEF Abort, Quiet, jobVars, shardVars,
     Step, PlanStep, ShardStep, ReduceStep
<1>7. CASE UNCHANGED vars
  <2>1. Quiet
    BY <1>0, <1>7 DEF vars, Quiet, jobVars, shardVars, history
  <2> QED
    BY <2>1, QuietStep
<1> QED
  BY <1>1, <1>2, <1>3, <1>4, <1>5, <1>6, <1>7, QuietStep DEF Next

\* The inductive invariant behind the accounting of shards, for every bound.
THEOREM DropInvariant == Spec => []DropInv
<1>1. Init => DropInv
  BY TaskAssumption, FS_EmptySet DEF Init, DropInv, RowsFollowRuns, CountedOnce,
     SnapshotIsLate, CounterIsExact, PartialsArePresent, ReduceSeesEveryShard, NoManifest,
     Task
<1>2. TypeOK /\ OnceInv /\ DropInv /\ [Next]_vars => DropInv'
  BY DropStep
<1> QED
  BY <1>1, <1>2, TypeCorrect, OnceInvariant, PTL DEF Spec

\* Every shard is in the artifact or in failed_shards, unless a shard was started
\* again after it was counted.
THEOREM NothingDropped == Spec => []ReduceSeesEveryShard
BY DropInvariant, PTL DEF DropInv

\* The reduce never asks the store for a partial that is not there.
THEOREM PartialsPresent == Spec => []PartialsArePresent
BY DropInvariant, PTL DEF DropInv

\* The completion counter counts shards with a final status, each once, unless a
\* shard was started again after it was counted.
THEOREM CounterExact == Spec => []CounterIsExact
BY DropInvariant, PTL DEF DropInv

-----------------------------------------------------------------------------
(***************************************************************************)
(* A dead shard stays dead.  RQ could run it again after an aborted run    *)
(* only with a retry left, and the attempts of the row and the retries of  *)
(* the queue job together never exceed what both started from.             *)
(***************************************************************************)

BudgetInv ==
  \A i \in Shard :
    /\ attempts[i] + retriesLeft[i] <= Retries + 1
    /\ pc[i] \in {"idle", "queued", "parked", "begin"} =>
         attempts[i] + retriesLeft[i] <= Retries
    /\ shardStatus[i] = "dead" =>
         /\ attempts[i] >= MaxAttempts
         /\ pc[i] \in {"count", "enqueue", "return", "finished", "failed"}

DeadStays == \A i \in Shard : shardStatus[i] = "dead" => shardStatus'[i] = "dead"

\* A failed run spends a retry, and a dead shard has none.
LEMMA BudgetRunFailed ==
  ASSUME TypeOK, BudgetInv, NEW i \in Shard, pc[i] \in Step, RunFailed(i),
         UNCHANGED <<attempts, shardStatus>>
  PROVE  BudgetInv' /\ DeadStays
<1> USE BoundsAssumption DEF BudgetInv
<1>1. /\ attempts \in [Shard -> Nat] /\ retriesLeft \in [Shard -> 0 .. Retries]
      /\ Retries \in Nat /\ (MaxAttempts > 0 => Retries = MaxAttempts - 1)
      /\ (MaxAttempts = 0 => Retries = 0)
      /\ Shard \subseteq Task
  BY DEF TypeOK, Retries, Task
<1>2. /\ pc'[i] \in {"queued", "parked", "failed"}
      /\ \A u \in Shard : u # i => pc'[u] = pc[u]
  BY <1>1, RunFailedType, RunFailedRetries
<1>3. CASE retriesLeft[i] > 0
  <2>1. retriesLeft' = [retriesLeft EXCEPT ![i] = @ - 1]
    BY <1>3 DEF RunFailed
  <2>2. shardStatus[i] # "dead"
    BY <1>1, <1>3
  <2> QED
    BY <1>1, <1>2, <2>1, <2>2 DEF DeadStays
<1>4. CASE ~(retriesLeft[i] > 0)
  <2>1. pc'[i] = "failed" /\ retriesLeft' = retriesLeft
    BY <1>4 DEF RunFailed, TypeOK, Task, rqVars
  <2> QED
    BY <1>1, <1>2, <2>1 DEF DeadStays
<1> QED
  BY <1>3, <1>4

\* A step that leaves the rows and the retries alone and starts no shard.
BudgetQuiet ==
  /\ UNCHANGED <<attempts, retriesLeft, shardStatus>>
  /\ \A i \in Shard :
       \/ pc'[i] = pc[i]
       \/ pc[i] \in {"idle", "queued"} /\ pc'[i] \in {"queued", "begin"}
       \/ pc'[i] \in {"enqueue", "return", "finished", "mark", "count"}
          /\ (pc'[i] = "mark" => pc[i] = "extract")

LEMMA BudgetQuietStep ==
  ASSUME BudgetInv, BudgetQuiet
  PROVE  BudgetInv' /\ DeadStays
BY DEF BudgetInv, BudgetQuiet, DeadStays

\* Every step keeps the budget and leaves dead shards dead.
LEMMA BudgetStep ==
  ASSUME TypeOK, OnceInv, BudgetInv, [Next]_vars
  PROVE  BudgetInv' /\ DeadStays
<1> USE TaskAssumption, BoundsAssumption
<1>0. /\ pc \in [Task -> Step \cup Resting] /\ Shard \subseteq Task
      /\ Plan \in Task /\ Reduce \in Task
      /\ attempts \in [Shard -> Nat] /\ retriesLeft \in [Shard -> 0 .. Retries]
      /\ shardStatus \in [Shard -> RowStatus \cup {"none"}]
      /\ Retries \in Nat
  BY DEF TypeOK, Task, Retries
<1>1. CASE Pop
  <2>1. Head(queue) \in Task /\ pc[Head(queue)] = "queued"
    BY <1>1, PopType DEF Pop, TypeOK, OnceInv, QueueFaithful
  <2>2. BudgetQuiet
    BY <1>0, <1>1, <2>1 DEF Pop, BudgetQuiet, shardVars
  <2> QED
    BY <2>2, BudgetQuietStep
<1>2. CASE PlanJob
  <2>1. CASE PlanSharded
    <3>1. /\ \A i \in Shard : pc[i] = "idle" /\ pc'[i] = "idle" /\ shardStatus[i] = "none"
          /\ \A i \in Shard : shardStatus'[i] \in {"none", "queued"}
          /\ UNCHANGED <<attempts, retriesLeft>>
      BY <1>0, <2>1 DEF PlanSharded, Move, OnceInv, PlanFirst, rqVars
    <3> QED
      BY <3>1 DEF BudgetInv, DeadStays
  <2>2. CASE Dispatch
    <3>1. PICK i \in Shard :
            /\ pc[i] = "idle"
            /\ pc' = [pc EXCEPT ![i] = "queued",
                                ![Plan] = IF i + 1 = shardCount THEN "return" ELSE @]
      BY <2>2, DispatchPicks
    <3>2. BudgetQuiet
      BY <1>0, <2>2, <3>1 DEF Dispatch, BudgetQuiet, shardVars
    <3> QED
      BY <3>2, BudgetQuietStep
  <2>3. CASE ~PlanSharded /\ ~Dispatch
    <3>1. BudgetQuiet
      BY <1>0, <1>2, <2>3 DEF PlanJob, PlanBegin, PlanSingle, SingleBegin, SingleBuild,
         SingleFails, SinglePublish, Move, BudgetQuiet, shardVars, rqVars
    <3> QED
      BY <3>1, BudgetQuietStep
  <2> QED
    BY <2>1, <2>2, <2>3
<1>3. ASSUME NEW i \in Shard, RunShard(i) PROVE BudgetInv' /\ DeadStays
  <2>1. CASE ShardBegin(i)
    BY <1>0, <2>1 DEF ShardBegin, Move, rqVars, BudgetInv, DeadStays
  <2>2. CASE ShardDies(i)
    BY <1>0, <2>2 DEF ShardDies, Terminal, Move, rqVars, BudgetInv, DeadStays
  <2>3. CASE ShardMark(i)
    BY <1>0, <2>3 DEF ShardMark, Move, rqVars, BudgetInv, DeadStays
  <2>4. CASE ShardFails(i)
    <3>1. /\ pc[i] = "extract" /\ RunFailed(i) /\ UNCHANGED attempts
          /\ shardStatus' = [shardStatus EXCEPT ![i] = "failed"]
      BY <2>4 DEF ShardFails
    <3>2. /\ pc'[i] \in {"queued", "parked", "failed"}
          /\ \A u \in Shard : u # i => pc'[u] = pc[u]
          /\ \/ retriesLeft' = [retriesLeft EXCEPT ![i] = @ - 1]
             \/ retriesLeft' = retriesLeft /\ pc'[i] = "failed"
      BY <1>0, <3>1, RunFailedType, RunFailedRetries DEF RunFailed, rqVars
    <3>3. shardStatus[i] # "dead"
      BY <3>1 DEF BudgetInv
    <3> QED
      BY <1>0, <3>1, <3>2, <3>3 DEF BudgetInv, DeadStays
  <2>5. CASE ShardExtract(i) \/ ShardCount(i) \/ ShardEnqueue(i)
    <3>1. BudgetQuiet
      BY <1>0, <2>5 DEF ShardExtract, ShardCount, ShardEnqueue, Move, BudgetQuiet,
         shardVars, rqVars
    <3> QED
      BY <3>1, BudgetQuietStep
  <2> QED
    BY <1>3, <2>1, <2>2, <2>3, <2>4, <2>5 DEF RunShard
<1>4. CASE ReduceJob
  <2>1. BudgetQuiet
    BY <1>0, <1>4 DEF ReduceJob, ReduceBegin, ReduceAssemble, ReducePublish, Move,
       BudgetQuiet, shardVars, rqVars
  <2> QED
    BY <2>1, BudgetQuietStep
<1>5. ASSUME NEW t \in Task, Finish(t) PROVE BudgetQuiet
  BY <1>0, <1>5 DEF Finish, Move, BudgetQuiet, shardVars, rqVars
<1>6. ASSUME NEW t \in Task, Abort(t) PROVE BudgetInv' /\ DeadStays
  <2>1. CASE t \in Shard
    BY <1>6, <2>1, BudgetRunFailed DEF Abort, shardVars
  <2>2. CASE t \notin Shard
    <3>1. BudgetQuiet
      BY <1>0, <1>6, <2>2, RunFailedRetries DEF Abort, RunFailed, BudgetQuiet, shardVars,
         rqVars
    <3> QED
      BY <3>1, BudgetQuietStep
  <2> QED
    BY <2>1, <2>2
<1>7. CASE UNCHANGED vars
  <2>1. BudgetQuiet
    BY <1>7 DEF vars, BudgetQuiet, shardVars, rqVars
  <2> QED
    BY <2>1, BudgetQuietStep
<1> QED
  BY <1>1, <1>2, <1>3, <1>4, <1>5, <1>6, <1>7, BudgetQuietStep DEF Next

\* A shard once marked dead is dead for good, whatever runs are cut short: what a
\* manifest says of failed shards cannot be overtaken by a later run.
THEOREM DeadForGood == Spec => DeadIsFinal
<1>1. Init => BudgetInv
  BY BoundsAssumption DEF Init, BudgetInv, Retries
<1>2. TypeOK /\ OnceInv /\ BudgetInv /\ [Next]_vars => BudgetInv' /\ [DeadStays]_vars
  BY BudgetStep
<1>3. [DeadStays]_vars <=>
        [\A i \in Shard : shardStatus[i] = "dead" => shardStatus'[i] = "dead"]_vars
  BY DEF DeadStays
<1> QED
  BY <1>1, <1>2, <1>3, TypeCorrect, OnceInvariant, PTL DEF Spec, DeadIsFinal

-----------------------------------------------------------------------------
(***************************************************************************)
(* The orchestrator implements TakeoffJob.  What the mapping needs beyond  *)
(* the invariants above is where the plan and the reduce are when the row  *)
(* of the job has each of its values: one of them writes it, at a step     *)
(* that the other cannot have reached.                                     *)
(***************************************************************************)

FannedOut == {"dispatch", "return", "finished", "failed"}

\* The row while the plan job has it.
PlanHasRow ==
  /\ pc[Plan] \in {"queued", "begin"} => status = "queued" /\ shardCount = 0
  /\ pc[Plan] \in {"plan", "single"} => status = "planning" /\ shardCount = 0
  /\ pc[Plan] \in {"build", "publish"} => status = "running" /\ shardCount = 0
  /\ (pc[Plan] = "dispatch" /\ reduceCalls = 0) => status = "mapping"
  /\ pc[Plan] # "idle"

\* A shard runs only after the fan-out, and the row is still mapping then unless
\* the reduce was enqueued.
ShardsFollowPlan ==
  /\ \A i \in Shard : pc[i] # "idle" =>
       /\ pc[Plan] \in FannedOut
       /\ status # "queued"
       /\ reduceCalls = 0 => status = "mapping"
  /\ reduceCalls > 0 => pc[Plan] \in FannedOut /\ status # "queued"

\* The row while the reduce has it, and what it read of the shard rows.
ReduceHasRow ==
  /\ pc[Reduce] \in {"queued", "begin"} => status = "mapping"
  /\ pc[Reduce] \in {"assemble", "publish"} =>
       /\ status = "reducing"
       /\ snapshot.written
       /\ snapshot.merged \subseteq Rows /\ snapshot.failed \subseteq Rows \ snapshot.merged

LifeInv == PlanHasRow /\ ShardsFollowPlan /\ ReduceHasRow

\* A step that leaves the row, the snapshot and the number of reduces alone and
\* moves the queue jobs as RQ does keeps LifeInv.
RowQuiet ==
  /\ UNCHANGED <<status, shardCount, reduceCalls, snapshot>>
  /\ \A i \in Shard : pc[i] # "idle" \/ pc'[i] = "idle"
  /\ \/ pc'[Plan] = pc[Plan]
     \/ pc'[Plan] \in FannedOut \ {"dispatch"}
     \/ pc[Plan] = "queued" /\ pc'[Plan] = "begin"
  /\ \/ pc'[Reduce] = pc[Reduce]
     \/ pc'[Reduce] \in {"return", "finished", "failed"}
     \/ pc[Reduce] = "queued" /\ pc'[Reduce] = "begin"

LEMMA RowQuietStep ==
  ASSUME LifeInv, RowQuiet
  PROVE  LifeInv'
<1>1. PlanHasRow'
  BY DEF LifeInv, RowQuiet, PlanHasRow, FannedOut
<1>2. ShardsFollowPlan'
  BY DEF LifeInv, RowQuiet, PlanHasRow, ShardsFollowPlan, FannedOut
<1>3. ReduceHasRow'
  BY DEF LifeInv, RowQuiet, ReduceHasRow, Rows
<1> QED
  BY <1>1, <1>2, <1>3 DEF LifeInv

\* The steps of the plan job keep LifeInv.
LEMMA PlanLifeStep ==
  ASSUME TypeOK, OnceInv, LifeInv, PlanJob
  PROVE  LifeInv'
<1> USE TaskAssumption DEF LifeInv
<1>0. /\ pc \in [Task -> Step \cup Resting] /\ Shard \subseteq Task
      /\ Plan \in Task /\ Reduce \in Task /\ reduceCalls \in Nat
      /\ reduceCalls = 0 => pc[Reduce] = "idle"
  BY DEF TypeOK, Task, OnceInv, OneTrip
<1>1. CASE Dispatch
  <2>1. PICK i \in Shard :
          /\ i < shardCount
          /\ pc[i] = "idle"
          /\ pc' = [pc EXCEPT ![i] = "queued",
                              ![Plan] = IF i + 1 = shardCount THEN "return" ELSE @]
    BY <1>1, DispatchPicks
  <2>2. UNCHANGED <<status, shardCount, reduceCalls, snapshot>> /\ pc[Plan] = "dispatch"
    BY <1>1 DEF Dispatch, jobVars, history
  <2>3. /\ \A u \in Task : u # i /\ u # Plan => pc'[u] = pc[u]
        /\ pc'[Plan] \in {"dispatch", "return"} /\ i # Plan /\ i # Reduce
    BY <1>0, <2>1, <2>2
  <2>4. PlanHasRow' /\ ReduceHasRow'
    BY <1>0, <2>2, <2>3 DEF PlanHasRow, ReduceHasRow, Rows
  <2>5. status # "queued" /\ (reduceCalls = 0 => status = "mapping")
    BY <1>0, <2>2 DEF PlanHasRow, ShardsFollowPlan
  <2>6. ShardsFollowPlan'
    BY <1>0, <2>2, <2>3, <2>5 DEF ShardsFollowPlan, FannedOut
  <2> QED
    BY <2>4, <2>6
<1>2. CASE ~Dispatch
  <2>1. /\ \A i \in Shard : pc[i] = "idle" /\ pc'[i] = "idle"
        /\ reduceCalls = 0 /\ reduceCalls' = 0
        /\ pc'[Reduce] = "idle"
    BY <1>0, <1>2 DEF PlanJob, PlanBegin, PlanSingle, PlanSharded, SingleBegin,
       SingleBuild, SingleFails, SinglePublish, Move, history, ShardsFollowPlan, FannedOut
  <2>2. PlanHasRow'
    <3>1. CASE PlanBegin
      BY <1>0, <3>1 DEF PlanBegin, Move, PlanHasRow, OnceInv, PlanFirst, TypeOK
    <3> QED
      BY <1>0, <1>2, <3>1 DEF PlanJob, PlanSingle, PlanSharded, SingleBegin,
         SingleBuild, SingleFails, SinglePublish, Move, PlanHasRow, jobVars
  <2> QED
    BY <2>1, <2>2 DEF ShardsFollowPlan, ReduceHasRow
<1> QED
  BY <1>1, <1>2

\* Every step keeps the row in step with the plan and the reduce.
LEMMA LifeStep ==
  ASSUME TypeOK, OnceInv, DropInv, LifeInv, [Next]_vars
  PROVE  LifeInv'
<1> USE TaskAssumption
<1>0. /\ pc \in [Task -> Step \cup Resting] /\ Shard \subseteq Task
      /\ Plan \in Task /\ Reduce \in Task /\ reduceCalls \in Nat
      /\ \A i \in Shard : i # Plan /\ i # Reduce
      /\ Plan # Reduce
  BY DEF TypeOK, Task
<1>1. CASE Pop
  <2>1. Head(queue) \in Task /\ pc[Head(queue)] = "queued"
    BY <1>1, PopType DEF Pop, TypeOK, OnceInv, QueueFaithful
  <2>2. RowQuiet
    BY <1>0, <1>1, <2>1 DEF Pop, RowQuiet, jobVars, history
  <2> QED
    BY <2>2, RowQuietStep
<1>2. ASSUME NEW i \in Shard, RunShard(i) PROVE LifeInv'
  <2>1. CASE ShardEnqueue(i)
    <3>1. status = "mapping" /\ pc[Plan] \in FannedOut
      BY <2>1 DEF ShardEnqueue, OnceInv, OneTrip, LifeInv, ShardsFollowPlan
    <3>2. /\ UNCHANGED <<status, shardCount, snapshot>>
          /\ pc'[Plan] = pc[Plan] /\ pc'[Reduce] = "queued"
          /\ reduceCalls' = reduceCalls + 1
      BY <1>0, <2>1 DEF ShardEnqueue, jobVars
    <3> QED
      BY <1>0, <3>1, <3>2 DEF LifeInv, PlanHasRow, ShardsFollowPlan, ReduceHasRow
  <2>2. CASE ShardFails(i)
    <3>1. RowQuiet
      BY <1>0, <2>2, RunFailedRetries DEF ShardFails, RowQuiet, jobVars, history
    <3> QED
      BY <3>1, RowQuietStep
  <2>3. CASE ~ShardEnqueue(i) /\ ~ShardFails(i)
    <3>1. RowQuiet
      BY <1>0, <1>2, <2>3 DEF RunShard, ShardBegin, ShardExtract, ShardDies, ShardMark,
         ShardCount, Move, RowQuiet, jobVars, history
    <3> QED
      BY <3>1, RowQuietStep
  <2> QED
    BY <2>1, <2>2, <2>3
<1>3. CASE ReduceJob
  <2>1. pc[Reduce] # "idle" /\ reduceCalls > 0
    BY <1>0, <1>3 DEF ReduceJob, ReduceBegin, ReduceAssemble, ReducePublish, Move,
       OnceInv, OneTrip
  <2>2. pc[Plan] \in FannedOut /\ pc'[Plan] = pc[Plan]
        /\ shardCount' = shardCount /\ reduceCalls' = reduceCalls
        /\ \A i \in Shard : pc'[i] = pc[i]
    BY <1>0, <1>3, <2>1 DEF ReduceJob, ReduceBegin, ReduceAssemble, ReducePublish, Move,
       LifeInv, ShardsFollowPlan, jobVars, history
  <2>3. status' \in {"mapping", "reducing", "succeeded"}
    BY <1>0, <1>3 DEF ReduceJob, ReduceBegin, ReduceAssemble, ReducePublish, Move,
       LifeInv, ReduceHasRow, jobVars
  <2>4. PlanHasRow' /\ ShardsFollowPlan'
    BY <2>1, <2>2, <2>3 DEF LifeInv, PlanHasRow, ShardsFollowPlan, FannedOut
  <2>5. CASE ReduceBegin
    <3>1. snapshot'.merged = InStatus("succeeded") /\ snapshot'.failed = InStatus("dead")
          /\ snapshot'.written
      BY <2>5 DEF ReduceBegin, Manifest
    <3> QED
      BY <1>0, <2>2, <2>4, <2>5, <3>1 DEF ReduceBegin, Move, LifeInv, ReduceHasRow,
         InStatus, Rows
  <2>6. CASE ReduceAssemble \/ ReducePublish
    BY <1>0, <2>2, <2>4, <2>6 DEF ReduceAssemble, ReducePublish, Move, LifeInv,
       ReduceHasRow, Rows, jobVars
  <2> QED
    BY <1>3, <2>5, <2>6 DEF ReduceJob
<1>4. ASSUME NEW t \in Task, Finish(t) PROVE LifeInv'
  <2>1. RowQuiet
    BY <1>0, <1>4 DEF Finish, Move, RowQuiet, FannedOut, jobVars, history
  <2> QED
    BY <2>1, RowQuietStep
<1>5. ASSUME NEW t \in Task, Abort(t) PROVE LifeInv'
  <2>1. RunFailed(t) /\ pc[t] \in Step
        /\ UNCHANGED <<status, shardCount, reduceCalls, snapshot>>
    BY <1>5 DEF Abort, jobVars
  <2>2. pc'[t] # "idle" /\ (t \notin Shard => pc'[t] = "failed")
        /\ \A u \in Task : u # t => pc'[u] = pc[u]
    BY <1>0, <2>1, RunFailedRetries, RunFailedType DEF RunFailed
  <2>3. \A i \in Shard : pc[i] # "idle" \/ pc'[i] = "idle"
    BY <1>0, <2>1, <2>2 DEF Step, PlanStep, ShardStep, ReduceStep
  <2>4. RowQuiet
    BY <1>0, <2>1, <2>2, <2>3 DEF RowQuiet, FannedOut
  <2> QED
    BY <2>4, RowQuietStep
<1>6. CASE UNCHANGED vars
  <2>1. RowQuiet
    BY <1>6 DEF vars, RowQuiet, jobVars, history
  <2> QED
    BY <2>1, RowQuietStep
<1> QED
  BY <1>1, <1>2, <1>3, <1>4, <1>5, <1>6, PlanLifeStep DEF Next

\* The inductive invariant behind the lifecycle of the row, for every bound.
THEOREM LifeInvariant == Spec => []LifeInv
<1>1. Init => LifeInv
  BY TaskAssumption DEF Init, LifeInv, PlanHasRow, ShardsFollowPlan, ReduceHasRow, Task
<1>2. TypeOK /\ OnceInv /\ DropInv /\ LifeInv /\ [Next]_vars => LifeInv'
  BY LifeStep
<1> QED
  BY <1>1, <1>2, TypeCorrect, OnceInvariant, DropInvariant, PTL DEF Spec

\* A step of the plan job is a step of the abstract job, or changes nothing of it.
LEMMA PlanMaps ==
  ASSUME TypeOK, LifeInv, PlanJob
  PROVE  [Job!Next]_Job!vars
<1> USE DEF Job!Next, Job!vars, Job!Advance, LifeInv
<1>1. CASE PlanBegin
  BY <1>1 DEF PlanBegin, Move, PlanHasRow, Job!StartPlanning, history
<1>2. CASE PlanSingle \/ Dispatch \/ SingleBuild
  BY <1>2 DEF PlanSingle, Dispatch, SingleBuild, jobVars, history
<1>3. CASE PlanSharded
  BY <1>3 DEF PlanSharded, Move, PlanHasRow, Job!FanOut, history
<1>4. CASE SingleBegin
  BY <1>4 DEF SingleBegin, Move, PlanHasRow, Job!RunWhole, history
<1>5. CASE SingleFails
  BY <1>5 DEF SingleFails, Move, PlanHasRow, Job!GiveUp, history
<1>6. CASE SinglePublish
  <2>1. shardCount = 0 /\ status = "running" /\ status' = "succeeded"
        /\ manifest' = [written |-> TRUE, merged |-> {}, failed |-> {}]
        /\ UNCHANGED <<shardCount, redone>>
    BY <1>6 DEF SinglePublish, Move, PlanHasRow, Manifest, history
  <2>2. Job!Rows = {}
    BY <2>1 DEF Job!Rows
  <2> QED
    BY <2>1, <2>2 DEF Job!Publish
<1> QED
  BY <1>1, <1>2, <1>3, <1>4, <1>5, <1>6 DEF PlanJob

\* Publishing the reduced artifact is the abstract Publish.
LEMMA ReducePublishMaps ==
  ASSUME TypeOK, DropInv, LifeInv, ReducePublish
  PROVE  Job!Publish
<1>1. status = "reducing" /\ status' = "succeeded" /\ manifest' = snapshot
      /\ UNCHANGED <<shardCount, redone>>
      /\ snapshot.written
      /\ snapshot.merged \subseteq Rows /\ snapshot.failed \subseteq Rows \ snapshot.merged
  BY DEF ReducePublish, Move, LifeInv, ReduceHasRow, history
<1>2. snapshot = [written |-> TRUE, merged |-> snapshot.merged, failed |-> snapshot.failed]
  BY <1>1 DEF TypeOK, ManifestType
<1>3. ~redone => snapshot.merged \cup snapshot.failed = Rows
  BY <1>1 DEF DropInv, ReduceSeesEveryShard
<1>4. Job!Rows = Rows
  BY DEF Job!Rows, Rows
<1> QED
  BY <1>1, <1>2, <1>3, <1>4 DEF Job!Publish, Job!Advance

\* Every step is a step of the abstract job, or changes nothing of it.
LEMMA JobStep ==
  ASSUME TypeOK, DropInv, LifeInv, [Next]_vars
  PROVE  [Job!Next]_Job!vars
<1> USE DEF Job!Next, Job!vars
<1>1. CASE Pop
  BY <1>1 DEF Pop, jobVars, history
<1>2. ASSUME NEW i \in Shard, RunShard(i) PROVE [Job!Next]_Job!vars
  <2>1. CASE ShardBegin(i)
    <3>1. status # "queued"
      BY <2>1 DEF ShardBegin, Move, LifeInv, ShardsFollowPlan
    <3>2. UNCHANGED <<status, shardCount, manifest>> /\ redone' = (redone \/ i \in counted)
      BY <2>1 DEF ShardBegin, jobVars
    <3>3. CASE i \in counted
      BY <3>1, <3>2, <3>3 DEF Job!LoseSoundness
    <3>4. CASE i \notin counted
      BY <3>2, <3>4 DEF TypeOK
    <3> QED
      BY <3>3, <3>4
  <2>2. CASE ~ShardBegin(i)
    BY <1>2, <2>2 DEF RunShard, ShardExtract, ShardDies, ShardFails, ShardMark, ShardCount,
       ShardEnqueue, jobVars, history
  <2> QED
    BY <2>1, <2>2
<1>3. CASE ReduceJob
  <2>1. CASE ReduceBegin
    BY <2>1 DEF ReduceBegin, Move, LifeInv, ReduceHasRow, Job!StartReducing, Job!Advance,
       history
  <2>2. CASE ReduceAssemble
    BY <2>2 DEF ReduceAssemble, jobVars, history
  <2> QED
    BY <1>3, <2>1, <2>2, ReducePublishMaps DEF ReduceJob
<1>4. ASSUME NEW t \in Task, Finish(t) \/ Abort(t) PROVE [Job!Next]_Job!vars
  BY <1>4 DEF Finish, Abort, jobVars, history
<1>5. CASE UNCHANGED vars
  BY <1>5 DEF vars, jobVars, history
<1> QED
  BY <1>1, <1>2, <1>3, <1>4, <1>5, PlanMaps DEF Next

\* The orchestrator implements the abstract job: whatever runs are interleaved,
\* cut short and retried, a reader of the row sees it move forward through its
\* lifecycle and publish one manifest, which accounts for every shard as long as
\* no counted shard was started again.
THEOREM JobRefinement == Spec => ImplementsJob
<1>1. Init => Job!Init
  BY DEF Init, Job!Init, NoManifest, Job!NoManifest
<1>2. TypeOK /\ DropInv /\ LifeInv /\ [Next]_vars => [Job!Next]_Job!vars
  BY JobStep
<1> QED
  BY <1>1, <1>2, TypeCorrect, DropInvariant, LifeInvariant, PTL
     DEF Spec, ImplementsJob, Job!Spec
=============================================================================
