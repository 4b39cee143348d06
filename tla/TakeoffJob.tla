----------------------------- MODULE TakeoffJob -----------------------------
(***************************************************************************)
(* What one takeoff job promises to the reader of its row, without workers *)
(* or queue: the lifecycle that core/models.py and the design documents    *)
(* describe, and the manifest that accompanies the artifact.  A reader may *)
(* see a job stop at any stage, never go back or publish twice.            *)
(***************************************************************************)
EXTENDS Integers

CONSTANT MaxShards   \* bound: windows a plan may have

VARIABLES
  status,       \* takeoff_jobs.status
  shardCount,   \* takeoff_jobs.shard_count
  manifest,     \* shards merged into the artifact and shards listed as failed
  sound         \* no shard that was already counted has been started again

vars == <<status, shardCount, manifest, sound>>

Rows       == 0 .. shardCount - 1
NoManifest == [written |-> FALSE, merged |-> {}, failed |-> {}]

Init ==
  /\ status = "queued"
  /\ shardCount = 0
  /\ manifest = NoManifest
  /\ sound = TRUE

Advance(from, to) == status = from /\ status' = to

StartPlanning ==
  /\ Advance("queued", "planning")
  /\ UNCHANGED <<shardCount, manifest, sound>>

RunWhole ==
  /\ Advance("planning", "running")
  /\ UNCHANGED <<shardCount, manifest, sound>>

FanOut ==
  /\ Advance("planning", "mapping")
  /\ shardCount' \in 2 .. MaxShards
  /\ UNCHANGED <<manifest, sound>>

StartReducing ==
  /\ Advance("mapping", "reducing")
  /\ UNCHANGED <<shardCount, manifest, sound>>

\* The artifact becomes readable.  Every shard is in it or listed as failed,
\* none is both, and nothing is promised once the job is no longer sound.
Publish ==
  /\ \/ Advance("running", "succeeded")
     \/ Advance("reducing", "succeeded")
  /\ \E merged \in SUBSET Rows :
       \E failed \in SUBSET (Rows \ merged) :
         /\ sound => merged \cup failed = Rows
         /\ manifest' = [written |-> TRUE, merged |-> merged, failed |-> failed]
  /\ UNCHANGED <<shardCount, sound>>

GiveUp ==
  /\ Advance("running", "failed")
  /\ UNCHANGED <<shardCount, manifest, sound>>

\* A worker that lost its run after counting it makes the counts unreliable.
LoseSoundness ==
  /\ status # "queued"
  /\ sound' = FALSE
  /\ UNCHANGED <<status, shardCount, manifest>>

Next == \/ StartPlanning \/ RunWhole \/ FanOut \/ StartReducing
        \/ Publish \/ GiveUp \/ LoseSoundness

Spec == Init /\ [][Next]_vars
=============================================================================
